------------------------------ MODULE LsmTree ------------------------------
(***************************************************************************)
(* The data of TyLsmDB and the pure functions over it: the order of        *)
(* internal keys, point lookups in one sorted source and in a version,     *)
(* compaction's garbage collection, the split of its outputs, and the      *)
(* compaction picker.                                                      *)
(*                                                                         *)
(* A user key is a number (only the order of keys matters).  The value of  *)
(* a put is identified by the sequence number of the put: no two records   *)
(* the engine writes share one, so two reads return the same value exactly *)
(* when they return the same sequence number.  A memtable and the contents *)
(* of a table file are sets of entries: both are sorted maps from internal *)
(* keys in the code, and the order is Before.  A lookup's Option is a set  *)
(* with at most one element.                                               *)
(*                                                                         *)
(* Definitions named Faulty... are mistakes one could make in the code;    *)
(* each makes some property fail, which shows that the property is about   *)
(* that code.  Nothing else uses them.                                     *)
(***************************************************************************)
EXTENDS Naturals, FiniteSets

CONSTANTS
    Keys,       \* user keys
    EmptyKey,   \* the number that stands for the empty user key
    NumLevels   \* Options::max_levels

ASSUME KeysAssumption == Keys \subseteq Nat
ASSUME LevelsAssumption == NumLevels \in Nat /\ NumLevels >= 2

Types == {"put", "del"}
Entry == [key : Keys, seq : Nat, type : Types]

-----------------------------------------------------------------------------
(* Entries *)

\* InternalKey::cmp: user key ascending, sequence descending, Put before Delete.
Before(a, b) ==
    \/ a.key < b.key
    \/ a.key = b.key /\ a.seq > b.seq
    \/ a.key = b.key /\ a.seq = b.seq /\ a.type = "put" /\ b.type = "del"

\* No two entries share a sequence, as when each was written with its own.
UniqueSeqs(entries) == \A e, f \in entries : e.seq = f.seq => e = f

\* Of each key the one set has only older versions than the other.
Older(entries, others) == \A e \in entries, f \in others : e.key = f.key => e.seq < f.seq

VersionsOf(entries, k, s) == {e \in entries : e.key = k /\ e.seq <= s}

\* MemTable::get and SSTableReader::get_with_cache: the first entry, in
\* internal key order, of user key k that is not newer than s.
Newest(entries, k, s) ==
    {e \in VersionsOf(entries, k, s) :
        \A f \in VersionsOf(entries, k, s) : f = e \/ Before(e, f)}

\* ValueRecord::into_visible_value: a tombstone reads as no value.
Visible(found) == {e.seq : e \in {f \in found : f.type = "put"}}

\* Keeps a version at the watermark only if none lies right above it.
FaultyCompactEntries(entries, watermark, dropTombstones) ==
    {e \in entries :
        \/ e.seq > watermark
        \/ /\ e \in Newest(entries, e.key, watermark + 1)
           /\ e.type = "put" \/ ~dropTombstones}

\* compact_entries: everything above the watermark stays; of the entries of a
\* key at or below it only the first stays, and not even that one if it is a
\* tombstone that may be dropped.
CompactEntries(entries, watermark, dropTombstones) ==
    {e \in entries :
        \/ e.seq > watermark
        \/ /\ e \in Newest(entries, e.key, watermark)
           /\ e.type = "put" \/ ~dropTombstones}

\* Cuts between two versions of a key.
FaultySplits(entries, n) ==
    {part \in [entries -> 0..(n - 1)] :
        /\ \A i \in 0..(n - 1) : \E e \in entries : part[e] = i
        /\ \A e, f \in entries : Before(e, f) => part[e] <= part[f]}

\* split_compaction_entries: the ways to cut the sorted entries into n nonempty
\* chunks, part[e] the chunk of e.  A chunk starts only where the user key
\* changes, but an entry after one of the empty key always counts as a change.
Splits(entries, n) ==
    {part \in [entries -> 0..(n - 1)] :
        /\ \A i \in 0..(n - 1) : \E e \in entries : part[e] = i
        /\ \A e, f \in entries :
              /\ Before(e, f) => part[e] <= part[f]
              /\ e.key = f.key /\ e.key # EmptyKey => part[e] = part[f]}

-----------------------------------------------------------------------------
(* Versions: sets of files, each with its level.  content[n] is what table *)
(* file n holds; the bounds FileMeta records are those of content[n].       *)

FilesAt(version, level) == {f \in version : f.level = level}

\* file_overlaps_user_key
OverlapsKey(entries, k) ==
    \E a, b \in entries : a.key <= k /\ k <= b.key

\* user_key_overlaps_range, against the key range of the entries `others'
OverlapsEntries(entries, others) ==
    \E a, b \in entries, c, d \in others : a.key <= d.key /\ b.key >= c.key

EntriesOf(content, files) == UNION {content[f.num] : f \in files}

Smallest(entries) == CHOOSE e \in entries : \A f \in entries : f = e \/ Before(e, f)

\* Adds new files at the back of level 0.
FaultyFileBefore(content, f, g) ==
    \/ f.level < g.level
    \/ f.level = g.level /\ f.num < g.num

\* The order in which a version lists its files: Version::add_file inserts at
\* the front of level 0 (file numbers ascend, because a flush allocates its
\* number and adds its file under one lock) and sorts the other levels by
\* smallest internal key.
FileBefore(content, f, g) ==
    \/ f.level < g.level
    \/ f.level = g.level /\ f.level = 0 /\ f.num > g.num
    \/ /\ f.level = g.level /\ f.level > 0
       /\ LET a == Smallest(content[f.num])
              b == Smallest(content[g.num])
          IN  Before(a, b) \/ (a = b /\ f.num < g.num)

FirstFiles(content, files) ==
    {f \in files : \A g \in files : g = f \/ FileBefore(content, f, g)}

\* The files DB::get_opt may look into for key k: every overlapping file of
\* level 0, and only the first overlapping file of each deeper level.
Candidates(content, version, k) ==
    {f \in version :
        /\ OverlapsKey(content[f.num], k)
        /\ f.level > 0 =>
              f \in FirstFiles(content, {g \in FilesAt(version, f.level) :
                                            OverlapsKey(content[g.num], k)})}

FilesWithHit(content, version, k, s) ==
    {f \in Candidates(content, version, k) : Newest(content[f.num], k, s) # {}}

\* The first hit, files searched in version order.
TableGet(content, version, k, s) ==
    UNION {Newest(content[f.num], k, s) :
              f \in FirstFiles(content, FilesWithHit(content, version, k, s))}

\* The same over memtables, a sequence from the oldest to the mutable one,
\* searched from its end.
MemGet(memtables, k, s) ==
    UNION {Newest(memtables[i], k, s) :
              i \in {j \in DOMAIN memtables :
                        \A l \in DOMAIN memtables :
                            l > j => Newest(memtables[l], k, s) = {}}}

\* What stopping at the first hit relies on: a file searched earlier has the
\* newer versions of each key, and in a level below level 0 only one file
\* covers the key.
TreeOrdered(content, version) ==
    \A f, g \in version :
        /\ f.level > g.level => Older(content[f.num], content[g.num])
        /\ f.level = 0 /\ g.level = 0 /\ f.num < g.num => Older(content[f.num], content[g.num])
        /\ f.level = g.level /\ f # g =>
             IF f.level = 0 THEN f.num # g.num
             ELSE ~ OverlapsEntries(content[f.num], content[g.num])

-----------------------------------------------------------------------------
(* The compaction picker.  A range is a pair of bounds. *)

Unbounded == [kind |-> "unbounded", key |-> 0]
FullRange == [lower |-> Unbounded, upper |-> Unbounded]

\* picker.rs file_overlaps_range
OverlapsRange(entries, range) ==
    /\ \/ range.lower.kind = "unbounded"
       \/ range.lower.kind = "included" /\ \E e \in entries : e.key >= range.lower.key
       \/ range.lower.kind = "excluded" /\ \E e \in entries : e.key > range.lower.key
    /\ \/ range.upper.kind = "unbounded"
       \/ range.upper.kind = "included" /\ \E e \in entries : e.key <= range.upper.key
       \/ range.upper.kind = "excluded" /\ \E e \in entries : e.key < range.upper.key

InRange(content, files, range) == {f \in files : OverlapsRange(content[f.num], range)}

\* CompactionPicker::pick_l0_manual: the overlapping files of level 0.
L0ManualInputs(content, version, range) == InRange(content, FilesAt(version, 0), range)

\* CompactionPicker::pick_manual, its choice of input files: those of level 0,
\* or else the first overlapping file of the first deeper level that has one
\* (the last level is never an input).
ManualInputs(content, version, range) ==
    LET l0     == L0ManualInputs(content, version, range)
        deeper == {f \in InRange(content, version, range) :
                      f.level > 0 /\ f.level < NumLevels - 1}
    IN  IF l0 # {} THEN l0 ELSE FirstFiles(content, deeper)

\* CompactionPicker::task_for_files
TaskForFiles(content, version, inputs) ==
    LET inputLevel  == (CHOOSE f \in inputs : TRUE).level
        outputLevel == IF inputLevel + 1 < NumLevels THEN inputLevel + 1
                                                     ELSE NumLevels - 1
    IN  [inputLevel   |-> inputLevel,
         outputLevel  |-> outputLevel,
         inputFiles   |-> inputs,
         overlapFiles |-> {f \in FilesAt(version, outputLevel) :
                              \/ inputLevel = 0
                              \/ OverlapsEntries(content[f.num],
                                                 EntriesOf(content, inputs))}]

AllInputFiles(task) == task.inputFiles \cup task.overlapFiles

IsTrivialMove(task) ==
    /\ task.inputLevel > 0
    /\ Cardinality(task.inputFiles) = 1
    /\ task.overlapFiles = {}

\* Does not look below the output level.
FaultyCanDropTombstones(content, version, task) == TRUE

\* DB::can_drop_tombstones: no file below the output level overlaps the keys
\* of the task.
CanDropTombstones(content, version, task) ==
    ~ \E f \in version :
        /\ f.level > task.outputLevel
        /\ OverlapsEntries(content[f.num], EntriesOf(content, AllInputFiles(task)))
=============================================================================
