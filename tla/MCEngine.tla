------------------------------ MODULE MCEngine ------------------------------
(***************************************************************************)
(* Small instances of the engine for TLC: the write groups, the ranges and *)
(* the division of labour between threads that the .cfg files choose from. *)
(***************************************************************************)
EXTENDS EngineRefinement, TLC

Put(k) == [key |-> k, type |-> "put"]
Del(k) == [key |-> k, type |-> "del"]
Logged(recs) == [recs |-> recs, wal |-> TRUE]
Unlogged(recs) == [recs |-> recs, wal |-> FALSE]
Key(b) == [kind |-> "included", key |-> b]

\* One put of one key.
Puts == {<<Logged(<<Put(k)>>)>> : k \in Keys}
\* A put of key 1 or a delete of key 1.
OneKey == {<<Logged(<<Put(1)>>)>>, <<Logged(<<Del(1)>>)>>}
\* The same, the delete without the WAL.
HalfLogged == {<<Logged(<<Put(1)>>)>>, <<Unlogged(<<Del(1)>>)>>}
\* Tables that overlap in key 1 and of which one reaches to key 2.
OverlappingGroups == {<<Logged(<<Put(1), Put(2)>>)>>, <<Logged(<<Del(1)>>)>>}
\* A put, or two writers' batches in one group.
JoinedGroups == {<<Logged(<<Put(1)>>)>>, <<Logged(<<Put(1)>>), Logged(<<Del(1)>>)>>}
\* Single batches, and a group one batch of which overwrites its own put.
DurableGroups == OneKey \cup {<<Logged(<<Put(1), Del(1)>>), Logged(<<Put(2)>>)>>}

Everything == {FullRange}
OnlyKey1 == {[lower |-> Key(1), upper |-> Key(1)]}

\* One thread does everything.
SequentialOps == [t \in Threads |-> {"write", "flush", "compact"}]
\* The same without compaction, with close.
DurableOps == [t \in Threads |-> {"write", "flush", "close"}]
\* Every thread writes, flushes and reads; nobody compacts.
WriterOps == [t \in Threads |-> {"write", "flush", "get"}]

\* Two threads with a division of labour.
t1 == "t1"
t2 == "t2"
TwoThreads == {t1, t2}
\* t1 maintains the tree that t2 reads.
ReaderOps == (t1 :> {"write", "flush", "compact"}) @@ (t2 :> {"get"})
\* Both write; t1 flushes and compacts what t2 reads.
MaintainerOps == (t1 :> {"write", "flush", "compact"}) @@ (t2 :> {"write", "get"})
\* t1 writes what t2 compacts.
CompactorOps == (t1 :> {"write", "flush"}) @@ (t2 :> {"compact"})
\* Both write; t1 flushes and t2 compacts.
RacingOps == (t1 :> {"write", "flush"}) @@ (t2 :> {"write", "compact"})
=============================================================================
