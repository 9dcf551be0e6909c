----------------------------- MODULE MCVirtMem -----------------------------
(***************************************************************************)
(* A window of one page of the image, one of vm_init's bitmap and a few    *)
(* fresh ones, over an allocator of three usable pages, one in each of     *)
(* three words, so that a release can lower the allocator's hint past a    *)
(* page that is in use.                                                    *)
(***************************************************************************)
EXTENDS VirtMem

MCUsable == {<<1, 1>>, <<2, 0>>, <<3, 0>>}
MCLoaded == {<<1, 0>>}
MCImageMap == [v \in {0} |-> <<1, 0>>]
=============================================================================
