---------------------------- MODULE MCPageTables ----------------------------
(***************************************************************************)
(* Tables of two entries, and four pages: two in one table, one in another *)
(* of the same directory, one in another directory.                        *)
(***************************************************************************)
EXTENDS PageTables

MCIndex == 0 .. 1
MCWindow == {<<1, 1, 0, 0>>, <<1, 1, 0, 1>>, <<1, 1, 1, 0>>, <<1, 0, 0, 0>>}
MCImage == <<1, 1, 0, 0>>
=============================================================================
