------------------------------ MODULE NimRules ------------------------------
(***************************************************************************)
(* The rules of the NIM game as both peers of comp4320/project3/src/       *)
(* Client.py apply them to their own copy of the list GAME.  A board is a  *)
(* function from the four rows to the tokens left in each.                 *)
(*                                                                         *)
(* Here and in the other modules an operator marked "Faulty" is a variant  *)
(* of the one after it with a bug; no specification uses it, it only shows *)
(* which property notices that bug.                                        *)
(***************************************************************************)
EXTENDS Integers

CONSTANT GAME        \* the board both programs start from, [1, 3, 5, 7]

Rows == 1..4

tokens_remaining(game) == game[1] + game[2] + game[3] + game[4]

\* A board is a list of four small numbers (num_remove travels in one byte)
\* on which the game is not over yet.
ASSUME GAMEAssumption ==
    /\ GAME \in [Rows -> 0..255]
    /\ tokens_remaining(GAME) > 1

Boards == [Rows -> 0..255]

Moves == [row : Rows, num_remove : 0..255]

\* Faulty: the game goes on until the board is empty.
game_over_Empty(game) == tokens_remaining(game) = 0

game_over(game) == tokens_remaining(game) = 1

\* Faulty: more tokens may be removed than the row has.
valid_move_AnyCount(game, row, num_remove) ==
    /\ row \in Rows
    /\ num_remove >= 0
    /\ num_remove < tokens_remaining(game)

\* What valid_move() accepts of the numbers the user typed.  Removing no
\* token at all is accepted: range(0, ...) starts at zero.
valid_move(game, row, num_remove) ==
    /\ row \in Rows
    /\ num_remove \in 0..game[row]
    /\ num_remove < tokens_remaining(game)

update_game(game, m) == [game EXCEPT ![m.row] = @ - m.num_remove]
=============================================================================
