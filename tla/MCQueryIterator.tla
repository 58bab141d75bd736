---------------------------- MODULE MCQueryIterator ----------------------------
(* An instance of QueryIterator for TLC: an empty page in between, and rows   *)
(* of one page and a third of a pipelined query.                               *)
EXTENDS QueryIterator

FewPages == << <<1, 2>>, <<>>, <<3, 4>> >>
=============================================================================
