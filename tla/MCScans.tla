------------------------------ MODULE MCScans ------------------------------
(***************************************************************************)
(* A small instance of the scans for TLC.                                  *)
(***************************************************************************)
EXTENDS Scans

Bound(kind, k) == [kind |-> kind, key |-> k]
Ranges ==
    {[lower |-> Unbounded, upper |-> Bound("excluded", 2)],
     [lower |-> Bound("included", 1), upper |-> Unbounded],
     [lower |-> Bound("excluded", 1), upper |-> Bound("included", 2)]}

\* The first key is a prefix of the second.
Bytes == <<<<1>>, <<1, 1>>>>

\* A filter of one key excludes the other although they share a bit.
Probes == <<<<65, 130>>, <<129, 131>>>>

SomeWrites == {<<1, "put">>, <<1, "del">>, <<2, "put">>}
=============================================================================
