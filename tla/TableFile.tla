----------------------------- MODULE TableFile -----------------------------
(***************************************************************************)
(* What is inside a table file of TyLsmDB: the blocks SSTableBuilder cuts  *)
(* the sorted entries into, the index over them, and how SSTableReader and *)
(* SSTableStorageIterator find an entry through the index.                 *)
(*                                                                         *)
(* A table is its Bloom filter and a sequence of blocks, each with its     *)
(* index entry.  A key is encoded by what it shares with the key before it *)
(* and by its other bytes; of an entry's other fields the bytes are left   *)
(* out, and a block handle is the block's place in the table.              *)
(*                                                                         *)
(* The Faulty... definitions are as in LsmTree.                            *)
(***************************************************************************)
EXTENDS LsmTree, Sequences, SequencesExt

CONSTANTS
    MaxSequence,     \* SequenceNumber::MAX, above every sequence in use
    KeyBytes,        \* the bytes of each user key
    KeyProbes,       \* the hash of each user key for each probe of a filter
    RestartInterval  \* BlockBuilder::restart_interval

ASSUME KeyBytesAssumption ==
    /\ \A k \in Keys : KeyBytes[k] \in Seq(Nat)
    /\ \A k, l \in Keys : k # l => KeyBytes[k] # KeyBytes[l]
    /\ \A k \in Keys : KeyProbes[k] \in Seq(Nat)
    /\ RestartInterval \in Nat \ {0}

\* The entries in internal key order, as a memtable's iterator, EntryIterator
\* and compact_entries deliver them.
Sorted(entries) ==
    CHOOSE sorted \in [1..Cardinality(entries) -> entries] :
        \A i \in DOMAIN sorted : \A j \in 1..(i - 1) : Before(sorted[j], sorted[i])

-----------------------------------------------------------------------------
(* SSTableBuilder *)

\* add and flush_current_block: a block ends where its size reaches block_size
\* and at the end of the table.  Sizes are in bytes, so every cut is possible:
\* end[b] is the last of n entries that is in block b.
Ends(n) ==
    UNION {{end \in [0..m -> 0..n] :
                end[0] = 0 /\ end[m] = n /\ \A b \in 1..m : end[b - 1] < end[b]} : m \in 1..n}
Cut(sorted, end) ==
    [b \in DOMAIN end \ {0} |-> SubSeq(sorted, end[b - 1] + 1, end[b])]

\* shared_prefix_len
SharedPrefixLen(left, right) ==
    Max({n \in 0..Len(left) : n <= Len(right) /\ \A i \in 1..n : left[i] = right[i]})

\* BlockBuilder::add: every RestartInterval-th key is stored in full.
Encode(block) ==
    [i \in DOMAIN block |->
        LET bytes == KeyBytes[block[i].key]
            shared == IF (i - 1) % RestartInterval = 0 THEN 0
                      ELSE SharedPrefixLen(KeyBytes[block[i - 1].key], bytes)
        IN  [shared |-> shared, rest |-> SubSeq(bytes, shared + 1, Len(bytes)),
             seq |-> block[i].seq, type |-> block[i].type]]

\* Block::decode, from the first entry on; the restarts are not used.
DecodeEntry(block, e) ==
    LET last == IF block = <<>> THEN <<>> ELSE KeyBytes[block[Len(block)].key]
        bytes == SubSeq(last, 1, e.shared) \o e.rest
    IN  [key |-> CHOOSE k \in Keys : KeyBytes[k] = bytes, seq |-> e.seq, type |-> e.type]
Decoded(data) ==
    LET block[n \in 0..Len(data)] ==
          IF n = 0 THEN <<>> ELSE Append(block[n - 1], DecodeEntry(block[n - 1], data[n]))
    IN  block
Decode(data) == Decoded(data)[Len(data)]

\* flush_current_block: the index entry of a block, and the block.
WriteBlock(block) == [first |-> block[1], last |-> block[Len(block)], data |-> Encode(block)]

\* The bits of a filter of the given length that a key's probes hit.
ProbedBits(k, len) == {KeyProbes[k][p] % len : p \in DOMAIN KeyProbes[k]}

\* build_bloom_filter over the user keys of all entries, repeated ones counted.
BloomFilter(entries) ==
    LET n == 10 * Cardinality(entries)
        len == IF n < 64 THEN 64 ELSE n
    IN  [len |-> len, bits |-> UNION {ProbedBits(e.key, len) : e \in entries}]

\* SSTableBuilder::add for each entry, and finish.
BuiltTables(entries) ==
    {LET blocks == Cut(Sorted(entries), end)
     IN  [filter |-> BloomFilter(entries),
          blocks |-> [b \in DOMAIN blocks |-> WriteBlock(blocks[b])]] :
        end \in Ends(Cardinality(entries))}

\* SSTableReader::entries_with_cache, without a cache.
TableEntries(table) ==
    UNION {ToSet(Decode(entry.data)) : entry \in ToSet(table.blocks)}

-----------------------------------------------------------------------------
(* SSTableReader::get_with_cache on the blocks `read' yields. *)

\* BloomFilter::may_contain
MayContain(filter, k) == ProbedBits(k, filter.len) \subseteq filter.bits

\* index_may_contain_user_key
IndexMayContain(entry, k) == entry.first.key <= k /\ k <= entry.last.key

\* The first entry of the block that has the key and is not newer than s.
FoundInBlock(block, k, s) ==
    {block[i] : i \in {j \in DOMAIN block :
        /\ block[j].key = k /\ block[j].seq <= s
        /\ \A l \in 1..(j - 1) : block[l].key # k \/ block[l].seq > s}}

\* Unless the filter excludes the key, the blocks that the index does not rule
\* out are searched in order, up to the first that has an entry.
FoundInTable(table, read, k, s) ==
    LET found(b) == IF IndexMayContain(table.blocks[b], k)
                    THEN FoundInBlock(read[b], k, s) ELSE {}
    IN  IF MayContain(table.filter, k)
        THEN UNION {found(b) : b \in {c \in DOMAIN table.blocks :
                                        \A a \in 1..(c - 1) : found(a) = {}}}
        ELSE {}

-----------------------------------------------------------------------------
(* Seeking *)

\* The number of entries before `target' in a sorted sequence.
PartitionPoint(sorted, target) == Max({0} \cup {i \in DOMAIN sorted : Before(sorted[i], target)})

\* Stops at the first block that begins behind the target.
FaultySeekBlock(table, target) ==
    1 + PartitionPoint([b \in DOMAIN table.blocks |-> table.blocks[b].first], target)

\* SSTableStorageIterator::seek, the block: the first whose last key is not
\* before the target.
SeekBlock(table, target) ==
    1 + PartitionPoint([b \in DOMAIN table.blocks |-> table.blocks[b].last], target)

\* ... and the place in it; EntryIterator::seek.
SeekPlace(block, target) == 1 + PartitionPoint(block, target)

\* lower_bound_seek_key, for a lower bound.
SeekKey(lower) ==
    IF lower.kind = "included" THEN [key |-> lower.key, seq |-> MaxSequence, type |-> "put"]
                               ELSE [key |-> lower.key, seq |-> 0, type |-> "del"]

\* within_bounds
WithinBounds(k, range) ==
    /\ range.lower.kind = "included" => k >= range.lower.key
    /\ range.lower.kind = "excluded" => k > range.lower.key
    /\ range.upper.kind = "included" => k <= range.upper.key
    /\ range.upper.kind = "excluded" => k < range.upper.key
=============================================================================
