------------------------------- MODULE NimPeers -------------------------------
(***************************************************************************)
(* Two copies of comp4320/project3/src/Client.py playing NIM over one TCP  *)
(* connection.  The host accepted the connection and runs                  *)
(* setup_game_on_server(), the guest opened it and runs                    *)
(* connect_to_opponent(); each has its own GAME and nothing is             *)
(* acknowledged.                                                           *)
(*                                                                         *)
(* A process reads its user's move ("move"), sends it ("send"), tests      *)
(* whether that ended the game ("check"), and waits for the opponent's     *)
(* move ("recv"); "win" and "lose" are the two banners.  recv(1024) hands  *)
(* over whatever the connection holds, so two moves that were sent one     *)
(* after the other could arrive in one call, which struct.unpack refuses.  *)
(* Every exception but KeyboardInterrupt is uncaught and ends the process. *)
(***************************************************************************)
EXTENDS NimRules, Sequences

CONSTANT Typed      \* the numbers a user may type

ASSUME TypedAssumption == Typed \subseteq Int

VARIABLES game,     \* game[p]: the list GAME of process p
          pc,       \* where process p is
          status,   \* "running", "done", "exited" (Ctrl-C) or "died" (exception)
          move,     \* move[p]: the row and num_remove p's user chose, until it is sent
          chan      \* chan[p]: the moves sent to p that it has not received

vars == <<game, pc, status, move, chan>>

Peers == {"guest", "host"}

Other(p) == IF p = "guest" THEN "host" ELSE "guest"

NoMove == [row |-> 1, num_remove |-> 0]

Init ==
    /\ game = [p \in Peers |-> GAME]
    /\ pc = [p \in Peers |-> IF p = "guest" THEN "move" ELSE "recv"]
    /\ status = [p \in Peers |-> "running"]
    /\ move = [p \in Peers |-> NoMove]
    /\ chan = [p \in Peers |-> <<>>]

At(p, label) == status[p] = "running" /\ pc[p] = label

\* Faulty: update_game() is not called for the user's own move.
RequestMove_NoUpdate(p) ==
    /\ At(p, "move")
    /\ \E row \in Typed, num_remove \in Typed :
          /\ valid_move(game[p], row, num_remove)
          /\ move' = [move EXCEPT ![p] = [row |-> row, num_remove |-> num_remove]]
    /\ pc' = [pc EXCEPT ![p] = "send"]
    /\ UNCHANGED <<game, status, chan>>

\* Faulty: valid_move() without its last test.
RequestMove_TakeAll(p) ==
    /\ At(p, "move")
    /\ \E row \in Typed \cap Rows, num_remove \in Typed :
          /\ num_remove \in 0..game[p][row]
          /\ move' = [move EXCEPT ![p] = [row |-> row, num_remove |-> num_remove]]
    /\ game' = [game EXCEPT ![p] = update_game(@, move'[p])]
    /\ pc' = [pc EXCEPT ![p] = "send"]
    /\ UNCHANGED <<status, chan>>

\* request_move() is repeated until valid_move() accepts the input, then
\* the move is made on the process' own board.
RequestMove(p) ==
    /\ At(p, "move")
    /\ \E row \in Typed, num_remove \in Typed :
          /\ valid_move(game[p], row, num_remove)
          /\ move' = [move EXCEPT ![p] = [row |-> row, num_remove |-> num_remove]]
    /\ game' = [game EXCEPT ![p] = update_game(@, move'[p])]
    /\ pc' = [pc EXCEPT ![p] = "send"]
    /\ UNCHANGED <<status, chan>>

\* send() hands the move to the connection, also when the opponent has
\* already gone (what is sent then is never received) ...
SendMove(p) ==
    /\ At(p, "send")
    /\ chan' = [chan EXCEPT ![Other(p)] = Append(@, move[p])]
    /\ move' = [move EXCEPT ![p] = NoMove]
    /\ pc' = [pc EXCEPT ![p] = "check"]
    /\ UNCHANGED <<game, status>>

\* ... unless the connection is known to be reset.
SendFails(p) ==
    /\ At(p, "send")
    /\ status[Other(p)] # "running"
    /\ status' = [status EXCEPT ![p] = "died"]
    /\ UNCHANGED <<game, pc, move, chan>>

\* Faulty: the next move is asked for without waiting for the opponent.
CheckGame_NoWait(p) ==
    /\ At(p, "check")
    /\ IF game_over(game[p])
       THEN /\ pc' = [pc EXCEPT ![p] = "win"]
            /\ status' = [status EXCEPT ![p] = "done"]
       ELSE /\ pc' = [pc EXCEPT ![p] = "move"]
            /\ UNCHANGED status
    /\ UNCHANGED <<game, move, chan>>

CheckGame(p) ==
    /\ At(p, "check")
    /\ IF game_over(game[p])
       THEN /\ pc' = [pc EXCEPT ![p] = "win"]
            /\ status' = [status EXCEPT ![p] = "done"]
       ELSE /\ pc' = [pc EXCEPT ![p] = "recv"]
            /\ UNCHANGED status
    /\ UNCHANGED <<game, move, chan>>

\* Faulty: the opponent's move is not made on the board.
ApplyMove_NoUpdate(p, m) ==
    /\ UNCHANGED <<game, status>>
    /\ pc' = [pc EXCEPT ![p] = "move"]

\* Faulty: game_over() is not tested after the opponent's move.
ApplyMove_NoTest(p, m) ==
    /\ game' = [game EXCEPT ![p] = update_game(@, m)]
    /\ pc' = [pc EXCEPT ![p] = "move"]
    /\ UNCHANGED status

\* The opponent's move is applied without a look at valid_move().
ApplyMove(p, m) ==
    /\ game' = [game EXCEPT ![p] = update_game(@, m)]
    /\ IF game_over(game'[p])
       THEN /\ pc' = [pc EXCEPT ![p] = "lose"]
            /\ status' = [status EXCEPT ![p] = "done"]
       ELSE /\ pc' = [pc EXCEPT ![p] = "move"]
            /\ UNCHANGED status

\* One recv() takes the first k moves the connection holds; struct.unpack
\* raises on anything but the five bytes of one move.
GetMove(p) ==
    /\ At(p, "recv")
    /\ \E k \in 1..Len(chan[p]) :
          /\ chan' = [chan EXCEPT ![p] = SubSeq(@, k + 1, Len(@))]
          /\ IF k = 1
             THEN ApplyMove(p, Head(chan[p]))
             ELSE /\ status' = [status EXCEPT ![p] = "died"]
                  /\ UNCHANGED <<game, pc>>
    /\ UNCHANGED move

\* Faulty: a closed connection is read again and again.
GetMoveFails_Ignored(p) ==
    /\ At(p, "recv")
    /\ chan[p] = <<>>
    /\ UNCHANGED vars

\* recv() on a connection whose other end is closed returns no bytes, or
\* raises; either way the process dies.
GetMoveFails(p) ==
    /\ At(p, "recv")
    /\ chan[p] = <<>>
    /\ status[Other(p)] # "running"
    /\ status' = [status EXCEPT ![p] = "died"]
    /\ UNCHANGED <<game, pc, move, chan>>

\* Ctrl-C, at any point of the program.  Ctrl-D at the prompt, which
\* raw_input() answers by an EOFError, ends the process in the same way.
Interrupt(p) ==
    /\ status[p] = "running"
    /\ status' = [status EXCEPT ![p] = "exited"]
    /\ UNCHANGED <<game, pc, move, chan>>

\* What the process and the network do without the user.
Proceed(p) ==
    \/ SendMove(p)
    \/ SendFails(p)
    \/ CheckGame(p)
    \/ GetMove(p)
    \/ GetMoveFails(p)

Next == \E p \in Peers : RequestMove(p) \/ Proceed(p) \/ Interrupt(p)

Spec == Init /\ [][Next]_vars

\* A process that can run does, and TCP delivers; no user has to type.
FairSpec == Spec /\ \A p \in Peers : WF_vars(Proceed(p))

-----------------------------------------------------------------------------
TypeOK ==
    /\ game \in [Peers -> [Rows -> 0..255]]
    /\ pc \in [Peers -> {"move", "send", "check", "recv", "win", "lose"}]
    /\ status \in [Peers -> {"running", "done", "exited", "died"}]
    /\ move \in [Peers -> Moves]
    /\ chan \in [Peers -> Seq(Moves)]

\* get_move() unpacks what one recv() returned as exactly one move
\* (Client.py 258-263): safe only because there is never a second move in
\* the connection, in either direction.
OneMoveInFlight == Len(chan["guest"]) + Len(chan["host"]) <= 1

\* The receiver applies a move unchecked (Client.py 182-183, 197-198), so
\* it has to be a valid one on the receiver's own board when it arrives.
ReceivedMoveIsValid ==
    \A p \in Peers : chan[p] # <<>> =>
        valid_move(game[p], Head(chan[p]).row, Head(chan[p]).num_remove)

\* The boards of the two processes differ by the one move that is on its
\* way, and by nothing when none is.
Pending(p) == pc[Other(p)] = "send" \/ chan[p] # <<>>

PendingMove(p) == IF chan[p] # <<>> THEN Head(chan[p]) ELSE move[Other(p)]

BoardsAgree ==
    /\ \A p \in Peers :
          Pending(p) => game[Other(p)] = update_game(game[p], PendingMove(p))
    /\ (\A p \in Peers : ~Pending(p)) => game["guest"] = game["host"]

\* "Player who leaves opponent with only one token on the board wins"
\* (README.md 7): a process shows YOU LOSE only when the other one has made
\* that last move, and the two never show the same banner.
OneWinner ==
    /\ \A p \in Peers : pc[p] = "lose" =>
          pc[Other(p)] \in {"check", "win"} /\ game_over(game[Other(p)])
    /\ ~(pc["guest"] = "win" /\ pc["host"] = "win")

\* No process dies of an exception unless the other was interrupted: neither
\* the end of the game, nor closing the connection on it, kills a peer.
DiesOnlyOfInterrupt ==
    \A p \in Peers : status[p] = "died" => status[Other(p)] = "exited"

Won(p) == pc[p] \in {"send", "check", "win"} /\ game_over(game[p])

\* A game that one process has won ends for both: the move that left one
\* token reaches the loser, or somebody is stopped.
WonGameEnds ==
    \A p \in Peers : Won(p) ~> (\A q \in Peers : status[q] # "running")

\* A process left alone does not wait for the opponent's move forever: it
\* ends, or its user is asked for a move.
NoOrphanWaits ==
    \A p \in Peers :
        (status[Other(p)] # "running") ~> (status[p] # "running" \/ pc[p] = "move")

\* A process does not outlive the game or its opponent.
PeersAreReleased == WonGameEnds /\ NoOrphanWaits

\* A move that removes nothing is valid (Client.py 283), so two users that
\* only pass never finish.  If each of them keeps on removing tokens now and
\* then, the game ends, whatever is typed in between.
UsersRemoveTokens == \A p \in Peers : SF_vars(RequestMove(p) /\ game' # game)

GameEnds == UsersRemoveTokens => <>(\A p \in Peers : status[p] # "running")

\* The game the two processes play together: the guest is to move when it is
\* asking for a move, when the host's move is on its way to it, and when it
\* has just lost.
Turn ==
    IF pc["guest"] \in {"move", "lose"} \/ Pending("guest")
    THEN "guest" ELSE "host"

Winner ==
    IF Won("guest") THEN "guest" ELSE IF Won("host") THEN "host" ELSE "none"

\* The board of the process that knows all the moves.
Board == IF Turn = "guest" THEN game["host"] ELSE game["guest"]

Nim == INSTANCE NimGame WITH board <- Board, turn <- Turn, winner <- Winner

\* The two processes implement one game with alternating turns and one
\* winner.
ImplementsNim == Nim!Spec
=============================================================================
