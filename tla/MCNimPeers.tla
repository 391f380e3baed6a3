----------------------------- MODULE MCNimPeers -----------------------------
(***************************************************************************)
(* An instance of NimPeers for TLC: the program's own board.  The numbers  *)
(* typed include those valid_move() has to refuse: a row before and after  *)
(* the board, a negative count, and one more than any row holds.           *)
(***************************************************************************)
EXTENDS NimPeers

ProgramBoard == <<1, 3, 5, 7>>

AnyNumber == -1..8
=============================================================================
