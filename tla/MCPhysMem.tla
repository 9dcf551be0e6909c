----------------------------- MODULE MCPhysMem -----------------------------
(***************************************************************************)
(* A bitmap of four words of three bits.  Word 0 is the low memory the     *)
(* loader keeps out of reach; words 1 to 3 hold the pages pm_init hands    *)
(* out, with holes as ACPI regions leave them, and two pages of the image. *)
(***************************************************************************)
EXTENDS PhysMem

MCUsable == {<<1, 1>>, <<2, 0>>, <<2, 2>>, <<3, 1>>}
MCLoaded == {<<1, 2>>, <<3, 0>>}
=============================================================================
