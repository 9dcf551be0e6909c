----------------------------- MODULE MCConsole -----------------------------
(***************************************************************************)
(* A screen of two cells by two and messages that end a line, leave a      *)
(* blank, and are longer than the screen.                                  *)
(***************************************************************************)
EXTENDS Console

MCMessages == {<<"a", Newline>>, <<Blank, "b">>, <<"c", "d", Newline, "e", Blank>>}
=============================================================================
