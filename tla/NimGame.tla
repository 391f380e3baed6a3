------------------------------- MODULE NimGame -------------------------------
(***************************************************************************)
(* What a game of NIM promises its two players: one board, a turn that     *)
(* alternates starting with the guest (the client that connected), and a   *)
(* winner, who is the one that leaves the opponent a single token.  Either *)
(* player may walk away at any time, so nothing has to happen.             *)
(***************************************************************************)
EXTENDS NimRules

VARIABLES board,     \* the tokens left in each row
          turn,      \* whose move it is
          winner     \* the player that left one token, or "none"

vars == <<board, turn, winner>>

Players == {"guest", "host"}

Other(p) == IF p = "guest" THEN "host" ELSE "guest"

Init ==
    /\ board = GAME
    /\ turn = "guest"
    /\ winner = "none"

\* Player p, whose turn it is, removes tokens from one row.
Move(p) ==
    /\ turn = p
    /\ winner = "none"
    /\ \E row \in Rows : \E num_remove \in 0..board[row] :
          /\ valid_move(board, row, num_remove)
          /\ board' = update_game(board, [row |-> row, num_remove |-> num_remove])
    /\ winner' = IF game_over(board') THEN p ELSE "none"
    /\ turn' = Other(p)

Next == \E p \in Players : Move(p)

Spec == Init /\ [][Next]_vars
=============================================================================
