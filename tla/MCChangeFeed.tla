----------------------------- MODULE MCChangeFeed -----------------------------
(* An instance of ChangeFeed for TLC: every way to start a feed of two items. *)
EXTENDS ChangeFeed

WaysToStart ==
    [continuation : {None, 1}, startTime : {None, 0, 2}, startFromBeginning : BOOLEAN]
=============================================================================
