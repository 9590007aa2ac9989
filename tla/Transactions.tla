---------------------------- MODULE Transactions ----------------------------
(***************************************************************************)
(* Optimistic transactions (mvcc/transaction.rs and commit_transaction in  *)
(* db.rs) over a store of versioned entries that other clients write and   *)
(* that compaction collects garbage from.                                  *)
(*                                                                         *)
(* The store is the union of memtables and tables: the conflict check      *)
(* searches all of them under the state lock, and module Engine is about   *)
(* how they are kept.  A get or a scan of a transaction is one step here.  *)
(*                                                                         *)
(* The Faulty... definitions are as in LsmTree.                            *)
(***************************************************************************)
EXTENDS LsmTree, Sequences

CONSTANTS
    Txns,       \* transactions
    KeyRanges,  \* the ranges transactions scan, each a set of keys
    MaxOps,     \* bound: operations of a transaction
    MaxWrites,  \* bound: writes outside transactions
    MaxCompactions \* bound: compactions

ASSUME RangesAssumption == KeyRanges \subseteq SUBSET Keys
ASSUME BoundsAssumption == MaxOps \in Nat /\ MaxWrites \in Nat /\ MaxCompactions \in Nat

VARIABLES
    entries,       \* what memtables and tables hold
    lastSequence,  \* DBState::last_sequence
    closed,        \* DBState::closed
    txn,           \* the Transaction objects
    gc,            \* {} or {a compaction under way: its inputs and watermark}
    history,       \* ghost: every entry ever written
    writes,        \* writes outside transactions so far
    compactions    \* compactions so far

vars == <<entries, lastSequence, closed, txn, gc, history, writes, compactions>>

Record == [key : Keys, type : Types]

\* seen is a ghost: the values its reads returned from the store; commitSeq
\* is the sequence at which its commit was validated.
Fresh == [pc |-> "none", readSeq |-> 0, readOnly |-> FALSE, recs |-> <<>>, readKeys |-> {},
          readRanges |-> {}, ops |-> 0, seen |-> {}, commitSeq |-> 0]

Transaction ==
    [pc : {"none", "open", "committed", "aborted", "rolledBack"}, readSeq : Nat,
     readOnly : BOOLEAN, recs : Seq(Record), readKeys : SUBSET Keys,
     readRanges : SUBSET KeyRanges, ops : 0..MaxOps,
     seen : SUBSET [key : Keys, value : SUBSET Nat], commitSeq : Nat]

Init ==
    /\ entries = {} /\ history = {} /\ lastSequence = 0 /\ closed = FALSE
    /\ txn = [x \in Txns |-> Fresh]
    /\ gc = {} /\ writes = 0 /\ compactions = 0

Open(x) == txn[x].pc = "open"
\* commit and rollback consume the object.
Ends(x, pc) == txn' = [txn EXCEPT ![x] = [Fresh EXCEPT !.pc = pc]]
Value(k, s) == Visible(Newest(entries, k, s))

\* Counts the sequences from one too far.
FaultyNumbered(recs, s) ==
    {[key |-> recs[i].key, seq |-> s + i + 1, type |-> recs[i].type] : i \in DOMAIN recs}

\* apply_batch: the records get the sequences after s.
Numbered(recs, s) ==
    {[key |-> recs[i].key, seq |-> s + i, type |-> recs[i].type] : i \in DOMAIN recs}

-----------------------------------------------------------------------------
(* The transaction object *)

\* DB::transaction: the snapshot is registered under the state lock.
Begin(x, readOnly) ==
    /\ txn[x].pc = "none" /\ ~closed
    /\ txn' = [txn EXCEPT ![x] = [Fresh EXCEPT !.pc = "open", !.readSeq = lastSequence,
                                               !.readOnly = readOnly]]
    /\ UNCHANGED <<entries, lastSequence, closed, gc, history, writes, compactions>>

\* Finds the first own record.
FaultyLocalValue(recs, k) ==
    LET mine == {i \in DOMAIN recs : recs[i].key = k}
    IN  {recs[i] : i \in {j \in mine : \A l \in mine : j <= l}}

\* local_value: the last own record of the key, {} if there is none.
LocalValue(recs, k) ==
    LET mine == {i \in DOMAIN recs : recs[i].key = k}
    IN  {recs[i] : i \in {j \in mine : \A l \in mine : l <= j}}

\* Transaction::get: own writes first; only a read of the store is recorded.
Get(x, k) ==
    /\ Open(x) /\ txn[x].ops < MaxOps /\ ~closed
    /\ txn' = [txn EXCEPT
                ![x].ops = @ + 1,
                ![x].readKeys = IF LocalValue(txn[x].recs, k) = {} THEN @ \cup {k} ELSE @,
                ![x].seen = IF LocalValue(txn[x].recs, k) = {}
                            THEN @ \cup {[key |-> k, value |-> Value(k, txn[x].readSeq)]}
                            ELSE @]
    /\ UNCHANGED <<entries, lastSequence, closed, gc, history, writes, compactions>>

\* Transaction::scan: the range is recorded, and what the snapshot shows of it
\* is read; the own records are laid over the rows.
Scan(x, range) ==
    /\ Open(x) /\ txn[x].ops < MaxOps /\ ~closed
    /\ txn' = [txn EXCEPT
                ![x].ops = @ + 1,
                ![x].readRanges = @ \cup {range},
                ![x].seen = @ \cup {[key |-> k, value |-> Value(k, txn[x].readSeq)] : k \in range}]
    /\ UNCHANGED <<entries, lastSequence, closed, gc, history, writes, compactions>>

Overlay(rows, rec) ==
    [rows EXCEPT ![rec.key] = IF rec.type = "put" THEN {rec} ELSE {}]
\* The rows after the first n own records.
Overlaid(recs) ==
    LET rows[n \in 0..Len(recs)] ==
          IF n = 0 THEN [k \in Keys |-> {"store"}] ELSE Overlay(rows[n - 1], recs[n])
    IN  rows
ScannedRows(recs) == Overlaid(recs)[Len(recs)]

\* Transaction::put and delete; a read-only transaction refuses.
Write(x, rec) ==
    /\ Open(x) /\ txn[x].ops < MaxOps /\ ~txn[x].readOnly
    /\ txn' = [txn EXCEPT ![x].ops = @ + 1, ![x].recs = Append(@, rec)]
    /\ UNCHANGED <<entries, lastSequence, closed, gc, history, writes, compactions>>

Rollback(x) ==
    /\ Open(x)
    /\ Ends(x, "rolledBack")
    /\ UNCHANGED <<entries, lastSequence, closed, gc, history, writes, compactions>>

-----------------------------------------------------------------------------
(* DB::commit_transaction *)

\* key_changed_after and range_changed_after, through any_entry_after.
ChangedAfter(keys, s) == \E e \in entries : e.seq > s /\ e.key \in keys

WriteKeys(recs) == {recs[i].key : i \in DOMAIN recs}

\* Does not check the scanned ranges.
FaultyConflictsRanges(x) ==
    \/ ChangedAfter(txn[x].readKeys, txn[x].readSeq)
    \/ ChangedAfter(WriteKeys(txn[x].recs), txn[x].readSeq)
\* Does not check the keys it writes.
FaultyConflictsWrites(x) ==
    \/ ChangedAfter(txn[x].readKeys, txn[x].readSeq)
    \/ \E range \in txn[x].readRanges : ChangedAfter(range, txn[x].readSeq)

\* ensure_no_transaction_conflicts
Conflicts(x) ==
    \/ ChangedAfter(txn[x].readKeys, txn[x].readSeq)
    \/ ChangedAfter(WriteKeys(txn[x].recs), txn[x].readSeq)
    \/ \E range \in txn[x].readRanges : ChangedAfter(range, txn[x].readSeq)

\* Error::Closed or Error::TransactionConflict.
CommitFails(x) ==
    /\ Open(x)
    /\ closed \/ Conflicts(x)
    /\ Ends(x, "aborted")
    /\ UNCHANGED <<entries, lastSequence, closed, gc, history, writes, compactions>>

\* The batch gets its sequences and is applied under one state lock.
Commit(x) ==
    /\ Open(x) /\ ~closed /\ ~Conflicts(x)
    /\ LET new == Numbered(txn[x].recs, lastSequence)
       IN  entries' = entries \cup new /\ history' = history \cup new
    /\ lastSequence' = lastSequence + Len(txn[x].recs)
    /\ txn' = [txn EXCEPT ![x].pc = "committed", ![x].commitSeq = lastSequence]
    /\ UNCHANGED <<closed, gc, writes, compactions>>

-----------------------------------------------------------------------------
(* Everybody else *)

\* DB::put and DB::delete.
PlainWrite(rec) ==
    /\ ~closed /\ writes < MaxWrites
    /\ LET new == Numbered(<<rec>>, lastSequence)
       IN  entries' = entries \cup new /\ history' = history \cup new
    /\ lastSequence' = lastSequence + 1
    /\ writes' = writes + 1
    /\ UNCHANGED <<closed, txn, gc, compactions>>

Close ==
    /\ ~closed /\ closed' = TRUE
    /\ UNCHANGED <<entries, lastSequence, txn, gc, history, writes, compactions>>

\* Transactions do not register their snapshots.
FaultyActiveSequences == {}

\* Watermark::oldest, or last_sequence without a live snapshot.
ActiveSequences == {txn[x].readSeq : x \in {y \in Txns : Open(y)}}
GcWatermark ==
    IF ActiveSequences = {} THEN lastSequence
    ELSE CHOOSE s \in ActiveSequences : \A u \in ActiveSequences : s <= u

\* execute_compaction fixes the watermark and its input, everything that was
\* flushed, and drops garbage later, when transactions may have begun.
StartCompaction(flushed) ==
    /\ gc = {} /\ compactions < MaxCompactions
    /\ compactions' = compactions + 1
    /\ gc' = {[inputs |-> {e \in entries : e.seq <= flushed}, watermark |-> GcWatermark]}
    /\ UNCHANGED <<entries, lastSequence, closed, txn, history, writes>>

FinishCompaction(drop) ==
    /\ gc # {}
    /\ \E c \in gc :
         entries' = (entries \ c.inputs) \cup CompactEntries(c.inputs, c.watermark, drop)
    /\ gc' = {}
    /\ UNCHANGED <<lastSequence, closed, txn, history, writes, compactions>>

Next ==
    \/ \E x \in Txns :
         \/ \E readOnly \in BOOLEAN : Begin(x, readOnly)
         \/ \E k \in Keys : Get(x, k)
         \/ \E range \in KeyRanges : Scan(x, range)
         \/ \E rec \in Record : Write(x, rec)
         \/ Rollback(x) \/ CommitFails(x) \/ Commit(x)
    \/ \E rec \in Record : PlainWrite(rec)
    \/ Close
    \/ \E flushed \in 1..lastSequence : StartCompaction(flushed)
    \/ \E drop \in BOOLEAN : FinishCompaction(drop)

Spec == Init /\ [][Next]_vars

-----------------------------------------------------------------------------
\* The store holds only what was written, nothing of it newer than
\* last_sequence, and every transaction keeps its type.
TypeOK ==
    /\ entries \subseteq history /\ history \subseteq Entry
    /\ \A e \in history : e.seq <= lastSequence
    /\ lastSequence \in Nat /\ closed \in BOOLEAN
    /\ writes \in 0..MaxWrites /\ compactions \in 0..MaxCompactions
    /\ txn \in [Txns -> Transaction]
    /\ \A x \in Txns : txn[x].readSeq <= lastSequence /\ txn[x].commitSeq <= lastSequence
    /\ \A c \in gc : c.inputs \subseteq Entry /\ c.watermark \in Nat

\* Every read of a transaction, whatever was written and collected meanwhile,
\* shows the store as it was when the transaction began.
RepeatableReads ==
    \A x \in Txns : \A r \in txn[x].seen :
        r.value = Visible(Newest(history, r.key, txn[x].readSeq))

\* A committed transaction read, by get and by scan, exactly what it would
\* have read at the point where it committed: running the committed
\* transactions one after the other in commit order gives the same reads (no
\* stale read, no write skew, no phantom).
Serializable ==
    \A x \in Txns : txn[x].pc = "committed" =>
        \A r \in txn[x].seen :
            r.value = Visible(Newest(history, r.key, txn[x].commitSeq))

\* Of two transactions that overlap and write the same key at most one
\* commits: no lost update.
FirstCommitterWins ==
    \A x, y \in Txns :
        /\ txn[x].pc = "committed" /\ txn[y].pc = "committed" /\ x # y
        /\ txn[x].readSeq < txn[y].commitSeq + Len(txn[y].recs)
        /\ txn[y].commitSeq + Len(txn[y].recs) <= txn[x].commitSeq
        => WriteKeys(txn[x].recs) \cap WriteKeys(txn[y].recs) = {}

\* Read-your-own-writes is the same for get, which searches the own records
\* from the last, and scan, which replays them from the first.
GetsAgreeWithScans ==
    \A x \in Txns, k \in Keys :
        LET own == LocalValue(txn[x].recs, k)
        IN  ScannedRows(txn[x].recs)[k] =
              IF own = {} THEN {"store"} ELSE {r \in own : r.type = "put"}

-----------------------------------------------------------------------------
(* Why: what garbage collection must leave in the store, and what a        *)
(* transaction has to remember for its commit to be checked                *)

\* A snapshot at s reads what was ever written, and whatever was written after
\* it is still there for the conflict check to find.
Faithful(s) ==
    /\ \A e \in history : e.seq > s => e \in entries
    /\ \A k \in Keys : Value(k, s) = Visible(Newest(history, k, s))

StoreInv ==
    /\ UniqueSeqs(history)
    /\ Faithful(lastSequence) /\ \A x \in Txns : Open(x) => Faithful(txn[x].readSeq)

\* A compaction under way works on the older part of the store, below every
\* live snapshot, those taken since it started included.
GcInv ==
    \A c \in gc :
        /\ c.inputs \subseteq entries /\ c.watermark <= lastSequence
        /\ \A e \in entries \ c.inputs, f \in c.inputs : f.seq < e.seq
        /\ \A x \in Txns : Open(x) => c.watermark <= txn[x].readSeq

\* What a transaction read is recorded, by key or by range.
ReadsRecorded ==
    \A x \in Txns : \A r \in txn[x].seen :
        r.key \in txn[x].readKeys \/ \E range \in txn[x].readRanges : r.key \in range

\* A committed batch was written, after the transaction's snapshot, and no
\* snapshot was ever taken in the middle of it.
CommitsInv ==
    \A y \in Txns : txn[y].pc = "committed" =>
        /\ txn[y].readSeq <= txn[y].commitSeq
        /\ txn[y].commitSeq + Len(txn[y].recs) <= lastSequence
        /\ Numbered(txn[y].recs, txn[y].commitSeq) \subseteq history
        /\ \A x \in Txns : \/ txn[x].readSeq <= txn[y].commitSeq
                           \/ txn[y].commitSeq + Len(txn[y].recs) <= txn[x].readSeq

IInv ==
    /\ TypeOK /\ StoreInv /\ GcInv /\ ReadsRecorded /\ CommitsInv
    /\ RepeatableReads /\ Serializable /\ FirstCommitterWins
=============================================================================
