------------------------------ MODULE MCCache ------------------------------
(***************************************************************************)
(* A small instance of OhlcvCache: no file, a file with a hole, the file   *)
(* of an older version, and both.                                          *)
(***************************************************************************)
EXTENDS OhlcvCache

MCFiles == {<<{}, {}>>, <<{0, 2}, {}>>, <<{}, {1, 2}>>, <<{2}, {0}>>}
MCRequests == {<<0, 3>>, <<1, 5>>, <<3, 7>>}
=============================================================================
