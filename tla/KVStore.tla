------------------------------ MODULE KVStore ------------------------------
(***************************************************************************)
(* What the engine promises its clients: a map from keys to values that    *)
(* atomic batches change, and snapshots that keep showing the map as it    *)
(* was.  There are no memtables, tables or logs here: flushes, compactions *)
(* and reopening the database must not be noticeable.                      *)
(*                                                                         *)
(* A value is the number of the record that wrote it; {} is no value.      *)
(***************************************************************************)
EXTENDS Naturals, Sequences

CONSTANTS Keys, Holders,
          Batches,   \* the batches clients write: nonempty sequences of records
          Recoverable \* sequences of records that a reopening may bring in

VARIABLES
    store,  \* store[k]: {} or {the number of the record that put k's value}
    count,  \* records written so far
    views   \* what each holder's snapshot shows: {} or {a map}

\* The records of rs in order, the first numbered n + 1.
Applied(map, rs, n) ==
    [k \in Keys |->
        LET mine == {i \in DOMAIN rs : rs[i].key = k}
            last == CHOOSE i \in mine : \A j \in mine : j <= i
        IN  IF mine = {} THEN map[k]
            ELSE IF rs[last].type = "put" THEN {n + last} ELSE {}]

Init ==
    /\ store = [k \in Keys |-> {}]
    /\ count = 0
    /\ views = [h \in Holders |-> {}]

\* A batch takes effect as a whole.
Write(rs) ==
    /\ count' = count + Len(rs)
    /\ store' = Applied(store, rs, count)
    /\ UNCHANGED views

TakeSnapshot(h) ==
    /\ views[h] = {}
    /\ UNCHANGED <<count, store>>
    /\ views' = [views EXCEPT ![h] = {store}]

DropSnapshot(h) ==
    /\ UNCHANGED <<count, store>>
    /\ views' = [views EXCEPT ![h] = {}]

\* Snapshots do not survive the process; the batches of an unanswered write
\* may or may not have taken effect, in order.
Reopen(rs) ==
    /\ count' = count + Len(rs)
    /\ store' = Applied(store, rs, count)
    /\ views' = [h \in Holders |-> {}]

Next ==
    \/ \E rs \in Batches : Write(rs)
    \/ \E h \in Holders : TakeSnapshot(h) \/ DropSnapshot(h)
    \/ \E rs \in Recoverable : Reopen(rs)

Spec == Init /\ [][Next]_<<store, count, views>>
=============================================================================
