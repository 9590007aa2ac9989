---------------------------- MODULE MCWriteGroup ----------------------------
(***************************************************************************)
(* WriteGroup for TLC: a group of three can form, and one writer calls     *)
(* twice, so that it can meet what is left of its first call.              *)
(***************************************************************************)
EXTENDS WriteGroup

MCWriters == {"w1", "w2", "w3"}
OneCallsTwice == [w \in MCWriters |-> IF w = "w1" THEN 2 ELSE 1]
=============================================================================
