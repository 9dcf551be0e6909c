------------------------------- MODULE MCHeap -------------------------------
(***************************************************************************)
(* Pages of two units reserved two at a time: a chunk is a header and      *)
(* three units.                                                            *)
(***************************************************************************)
EXTENDS Heap
MCSizes == {0, 1, 2, 5}
=============================================================================
