------------------------------- MODULE Scans -------------------------------
(***************************************************************************)
(* DB::scan_iter_opt and the iterators behind it, while other threads      *)
(* write, flush, compact and unlink: the DBIterator over a MergeIterator   *)
(* over one EntryIterator (the memtables) and one SSTableStorageIterator   *)
(* for each table, reading blocks through the shared BlockCache.           *)
(*                                                                         *)
(* An action is one call on one child iterator, with the block it reads;   *)
(* the cache's lookup and its insert lock the cache separately and are     *)
(* separate steps.  What the rest of the engine does to the tables is as   *)
(* coarse as a reader can see it: a flush, a compaction and the unlinking  *)
(* of its inputs are one step each; Engine has them step by step.          *)
(*                                                                         *)
(* The Faulty... definitions are as in LsmTree.                            *)
(***************************************************************************)
EXTENDS TableFile

CONSTANTS
    Readers,
    Writes,       \* what is written: pairs of a key and a type
    ScanRanges,   \* arguments of scan_iter_opt
    FillCache,    \* the values of ReadOptions::fill_cache that readers use
    CacheBlocks,  \* BlockCacheInner::max_entries
    MaxWrites,    \* bound: entries written
    MaxTables     \* bound: table files written

Bounds == [kind : {"unbounded", "included", "excluded"}, key : Nat]

ASSUME ReadersAssumption ==
    /\ Writes \subseteq Keys \X Types /\ FillCache \subseteq BOOLEAN
    /\ ScanRanges \subseteq [lower : Bounds, upper : Bounds]
    /\ CacheBlocks \in Nat \ {0} /\ MaxWrites \in Nat /\ MaxTables \in Nat
    /\ MaxSequence \in Nat /\ MaxSequence > MaxWrites

VARIABLES
    mem,       \* the entries of DBState::mutable and immutables
    tables,    \* DBState::l0_tables and level_tables: numbers, as a scan lists them
    history,   \* every entry written; the last one has sequence Cardinality(history)
    files,     \* the tables written so far, by number
    onDisk,    \* the numbers of the files that exist
    snap,      \* the client's snapshot: {} or the set of its sequence
    cache,     \* BlockCacheInner::blocks: a function from <<number, block>>
    scan       \* what each reader is doing

engine == <<mem, tables, history, files, onDisk>>
vars == <<engine, snap, cache, scan>>

LastSeq == Cardinality(history)
Idle == [pc |-> "idle"]

Init ==
    /\ mem = {} /\ tables = <<>> /\ history = {} /\ files = <<>>
    /\ onDisk = {} /\ snap = {} /\ cache = <<>>
    /\ scan = [r \in Readers |-> Idle]

-----------------------------------------------------------------------------
(* Blocks and the block cache *)

\* Forgets the table number.
FaultyCacheKey(n, b) == <<0, b>>

CacheKey(n, b) == <<n, b>>

Cached(j, n, b) == j.fill /\ CacheKey(n, b) \in DOMAIN cache

\* read_decoded_block: from the cache, or else from the file.
Block(j, n, b) == IF Cached(j, n, b) THEN cache[CacheKey(n, b)] ELSE Decode(files[n].blocks[b].data)

\* A child iterator: its table (0 for the memtables), its block and its place
\* in it.  load_block_at: past the last block it has no block and is not valid
\* (the builder writes no empty block to skip).
LoadBlock(j, n, b) ==
    [num |-> n, block |-> b, place |-> 1,
     data |-> IF b \in DOMAIN files[n].blocks THEN Block(j, n, b) ELSE <<>>]

\* The block to insert after LoadBlock read it from the file.
Missed(j, child) ==
    IF /\ child.num # 0 /\ child.data # <<>>
       /\ j.fill /\ ~Cached(j, child.num, child.block)
    THEN {<<child.num, child.block>>} ELSE {}

Valid(child) == child.place <= Len(child.data)
Current(child) == child.data[child.place]

\* Makes room only when the cache is over its limit.
FaultyRoom(blocks) == IF Cardinality(blocks) > CacheBlocks
                      THEN {blocks \ {b} : b \in blocks} ELSE {blocks}

\* BlockCache::insert: when the cache is full any one block makes room, also if
\* the block to insert is there already.
Room(blocks) == IF Cardinality(blocks) >= CacheBlocks
                THEN {blocks \ {b} : b \in blocks} ELSE {blocks}

Inserted(c, n, b) ==
    LET new == CacheKey(n, b)
    IN  {[k \in kept \cup {new} |-> IF k = new THEN Decode(files[n].blocks[b].data) ELSE c[k]] :
            kept \in Room(DOMAIN c)}

InsertBlock(r) ==
    /\ scan[r].pc # "idle"
    /\ \E m \in scan[r].missed :
          /\ cache' \in Inserted(cache, m[1], m[2])
          /\ scan' = [scan EXCEPT ![r].missed = @ \ {m}]
    /\ UNCHANGED <<engine, snap>>

-----------------------------------------------------------------------------
(* The rest of the engine *)

Write(k, type) ==
    /\ LastSeq < MaxWrites
    /\ LET e == [key |-> k, seq |-> LastSeq + 1, type |-> type]
       IN  mem' = mem \cup {e} /\ history' = history \cup {e}
    /\ UNCHANGED <<tables, files, onDisk, snap, cache, scan>>

\* DB::flush holds the state lock from the memtable to the new list of tables.
Flush ==
    /\ mem # {} /\ Len(files) < MaxTables
    /\ \E table \in BuiltTables(mem) : files' = Append(files, table)
    /\ onDisk' = onDisk \cup {Len(files) + 1}
    /\ tables' = <<Len(files) + 1>> \o tables
    /\ mem' = {}
    /\ UNCHANGED <<history, snap, cache, scan>>

\* Snapshots that hold back garbage collection: the client's, and the clone
\* in the ReadOptions of a scan_iter_opt that has not returned.
ActiveSequences ==
    snap \cup {scan[r].seq : r \in {q \in Readers : scan[q].pc = "open" /\ scan[q].pinned}}

\* The blocks of all tables, as a compaction reads them.
InputBlocks ==
    UNION {{<<n, b>> : b \in DOMAIN files[n].blocks} : n \in ToSet(tables)}

\* entries_with_cache on table n: the blocks that are not cached go to the
\* cache, in order; caches are those there may be before.
CachesWith(caches, n) ==
    LET after[b \in 0..Len(files[n].blocks)] ==
          IF b = 0 THEN caches
          ELSE UNION {IF CacheKey(n, b) \in DOMAIN c THEN {c} ELSE Inserted(c, n, b) :
                         c \in after[b - 1]}
    IN  after
CachesAfter ==
    LET after[i \in 0..Len(tables)] ==
          IF i = 0 THEN {cache}
          ELSE CachesWith(after[i - 1], tables[i])[Len(files[tables[i]].blocks)]
    IN  after

\* A compaction of every table into one, or into none, up to and including
\* delete_obsolete_files.  (A reader that opens an old table between the two is
\* one that opens it before both.)  Nothing is removed from the block cache.
Compact ==
    /\ tables # <<>> /\ Len(files) < MaxTables
    /\ LET inputs == ToSet(tables)
           entries == UNION {ToSet(Block([fill |-> TRUE], m[1], m[2])) : m \in InputBlocks}
           oldest == IF ActiveSequences = {} THEN LastSeq
                     ELSE CHOOSE s \in ActiveSequences : \A u \in ActiveSequences : s <= u
           output == CompactEntries(entries, oldest, TRUE)
       IN  IF output = {}
           THEN tables' = <<>> /\ onDisk' = onDisk \ inputs /\ UNCHANGED files
           ELSE /\ \E table \in BuiltTables(output) : files' = Append(files, table)
                /\ onDisk' = (onDisk \ inputs) \cup {Len(files) + 1}
                /\ tables' = <<Len(files) + 1>>
    /\ cache' \in CachesAfter[Len(tables)]
    /\ UNCHANGED <<mem, history, snap, scan>>

TakeSnapshot == snap = {} /\ snap' = {LastSeq} /\ UNCHANGED <<engine, cache, scan>>
DropSnapshot == snap # {} /\ snap' = {} /\ UNCHANGED <<engine, cache, scan>>

-----------------------------------------------------------------------------
(* DB::scan_iter_opt *)

\* Under the state lock: the read sequence, the memtables' entries, the tables.
OpenScan(r, range, fill, pinned) ==
    /\ scan[r] = Idle
    /\ pinned => snap # {}
    /\ scan' = [scan EXCEPT ![r] =
          [pc |-> "open", range |-> range, fill |-> fill, pinned |-> pinned,
           seq |-> IF pinned THEN CHOOSE s \in snap : TRUE ELSE LastSeq,
           left |-> tables,
           children |-> IF mem = {} THEN <<>>
                        ELSE <<[num |-> 0, block |-> 1, place |-> 1, data |-> Sorted(mem)]>>,
           missed |-> {}, seen |-> {}, rows |-> <<>>]]
    /\ UNCHANGED <<engine, snap, cache>>

\* Busy(r): r has no block to insert first.
Busy(r, pc) == scan[r].pc = pc /\ scan[r].missed = {}

\* SSTableReader::storage_iter opens the file by path and loads the first
\* block; an Io error if the file was unlinked.
OpenTable(r) ==
    /\ Busy(r, "open") /\ scan[r].left # <<>>
    /\ LET j == scan[r]
           n == Head(j.left)
           child == LoadBlock(j, n, 1)
       IN  scan' = [scan EXCEPT ![r] =
              IF n \in onDisk
              THEN [j EXCEPT !.left = Tail(j.left),
                             !.children = Append(j.children, child),
                             !.missed = Missed(j, child)]
              ELSE [j EXCEPT !.pc = "failed", !.left = <<>>, !.children = <<>>]]
    /\ UNCHANGED <<engine, snap, cache>>

\* SSTableStorageIterator::seek and EntryIterator::seek.  The block has an entry
\* that is not before the target, so that seek never goes on to the next one.
Sought(j, child, target) ==
    IF child.num = 0 THEN [child EXCEPT !.place = SeekPlace(child.data, target)]
    ELSE LET at == LoadBlock(j, child.num, SeekBlock(files[child.num], target))
         IN  [at EXCEPT !.place = SeekPlace(at.data, target)]

\* DBIterator::try_new: MergeIterator::seek on every child, if there is a lower
\* bound.
SeekToLowerBound(r) ==
    /\ Busy(r, "open") /\ scan[r].left = <<>>
    /\ LET j == scan[r]
           to == [i \in DOMAIN j.children |-> Sought(j, j.children[i], SeekKey(j.range.lower))]
       IN  scan' = [scan EXCEPT ![r] =
              IF j.range.lower.kind = "unbounded" THEN [j EXCEPT !.pc = "scan"]
              ELSE [j EXCEPT !.pc = "scan", !.children = to,
                             !.missed = UNION {Missed(j, to[i]) : i \in DOMAIN to}]]
    /\ UNCHANGED <<engine, snap, cache>>

\* MergeIterator::pick_current: the smallest key, the first child on a tie.
Picked(children) ==
    {i \in DOMAIN children :
        /\ Valid(children[i])
        /\ \A l \in DOMAIN children :
              Valid(children[l]) /\ l # i =>
                 \/ Before(Current(children[i]), Current(children[l]))
                 \/ Current(children[i]) = Current(children[l]) /\ i < l}

\* SSTableStorageIterator::next and EntryIterator::next.
NextOf(j, child) ==
    IF child.place < Len(child.data) \/ child.num = 0
    THEN [child EXCEPT !.place = @ + 1]
    ELSE LoadBlock(j, child.num, child.block + 1)

\* The first version of a key that the reader can see decides.
Accept(j, e) ==
    [j EXCEPT !.seen = @ \cup {e.key},
              !.rows = IF e.type = "put" THEN Append(@, [key |-> e.key, seq |-> e.seq]) ELSE @]

\* One round of advance_to_next_visible, whose rows the client collects.
Advance(r) ==
    /\ Busy(r, "scan")
    /\ LET j == scan[r]
       IN  scan' = [scan EXCEPT ![r] =
              IF Picked(j.children) = {} THEN [j EXCEPT !.pc = "done", !.children = <<>>]
              ELSE LET i == CHOOSE p \in Picked(j.children) : TRUE
                       e == Current(j.children[i])
                       to == NextOf(j, j.children[i])
                       moved == [j EXCEPT !.children[i] = to,
                                          !.missed = IF to.block = j.children[i].block THEN {}
                                                     ELSE Missed(j, to)]
                   IN  IF e.seq <= j.seq /\ WithinBounds(e.key, j.range) /\ e.key \notin j.seen
                       THEN Accept(moved, e) ELSE moved]
    /\ UNCHANGED <<engine, snap, cache>>

\* The client drops the iterator.
ReturnScan(r) ==
    /\ scan[r].pc \in {"done", "failed"}
    /\ scan' = [scan EXCEPT ![r] = Idle]
    /\ UNCHANGED <<engine, snap, cache>>

-----------------------------------------------------------------------------
Next ==
    \/ \E w \in Writes : Write(w[1], w[2])
    \/ Flush \/ Compact \/ TakeSnapshot \/ DropSnapshot
    \/ \E r \in Readers :
         \/ \E range \in ScanRanges, fill \in FillCache, pinned \in BOOLEAN :
               OpenScan(r, range, fill, pinned)
         \/ InsertBlock(r) \/ OpenTable(r) \/ SeekToLowerBound(r) \/ Advance(r) \/ ReturnScan(r)

Spec == Init /\ [][Next]_vars

-----------------------------------------------------------------------------
\* The iterators keep their shape, and the block cache never holds more than
\* max_entries blocks.
TypeOK ==
    /\ mem \subseteq Entry /\ history \subseteq Entry
    /\ \A i \in DOMAIN tables : tables[i] \in DOMAIN files
    /\ onDisk \subseteq DOMAIN files
    /\ snap \subseteq 0..MaxWrites
    /\ Cardinality(DOMAIN cache) <= CacheBlocks
    /\ \A r \in Readers :
         scan[r].pc # "idle" =>
            /\ scan[r].pc \in {"open", "scan", "done", "failed"}
            /\ scan[r].seq \in 0..MaxWrites
            /\ \A i \in DOMAIN scan[r].children : scan[r].children[i].num \in {0} \cup DOMAIN files

\* The rows a scan of the range at sequence s has to deliver.
RowsAt(range, s) ==
    {[key |-> k, seq |-> v] : k \in {l \in Keys : OverlapsRange({[key |-> l]}, range)}, v \in 1..s}
        \cap UNION {{[key |-> k, seq |-> v] : v \in Visible(Newest(history, k, s))} : k \in Keys}

\* A scan delivers, in key order and once each, exactly the rows that its
\* range had at its read sequence: not what was written later, nothing that
\* a compaction dropped or unlinked since, no block of another table, and
\* also after the snapshot it was opened with is gone.
ScansExact ==
    \A r \in Readers :
        scan[r].pc \in {"scan", "done"} =>
            LET rows == scan[r].rows
                want == RowsAt(scan[r].range, scan[r].seq)
            IN  /\ \A i \in DOMAIN rows : rows[i] \in want
                /\ \A i \in 2..Len(rows) : rows[i - 1].key < rows[i].key
                /\ scan[r].pc = "done" => want = {rows[i] : i \in DOMAIN rows}

\* get_with_cache finds in every table that exists, through the filter, the
\* index and whatever blocks are cached, the newest version not newer than the
\* read sequence, wherever the builder cut the versions of the key.  (Between
\* the sequences in a table, all read sequences find the same.)
IndexedGetsExact ==
    \A n \in onDisk :
        LET read == [b \in DOMAIN files[n].blocks |-> Block([fill |-> TRUE], n, b)]
            held == TableEntries(files[n])
        IN  \A k \in Keys, s \in {e.seq : e \in held} :
               FoundInTable(files[n], read, k, s) = Newest(held, k, s)
=============================================================================
