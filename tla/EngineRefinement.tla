-------------------------- MODULE EngineRefinement --------------------------
(***************************************************************************)
(* The engine implements KVStore: the map that gets read through the       *)
(* memtables and tables is the abstract map, and each live snapshot's map  *)
(* is read the same way at the snapshot's sequence.                        *)
(***************************************************************************)
EXTENDS EngineProperties
SX == INSTANCE SequencesExt

Recs(g) == [i \in DOMAIN g |-> g[i].recs]

KV == INSTANCE KVStore WITH
        Batches <- UNION {{g[i].recs : i \in DOMAIN g} : g \in Groups},
        Recoverable <- {<<>>} \cup
            UNION {{SX!FlattenSeq(SubSeq(Recs(g), i, j)) : i, j \in DOMAIN g} : g \in Groups},
        store <- [k \in Keys |-> Visible(Lookup(k, lastSequence))],
        count <- lastSequence,
        views <- [h \in Holders |->
                    {[k \in Keys |-> Visible(Lookup(k, s.seq))] :
                        s \in {p \in snaps : p.holder = h}}]

\* Clients cannot tell the engine from KVStore: a freeze, a flush, every step
\* of a compaction and the recovery in DB::open leave the map and every
\* snapshot as they were, and a batch takes effect at once.
ImplementsKVStore == KV!Spec
=============================================================================
