--------------------------- MODULE NimPeersProofs ---------------------------
(***************************************************************************)
(* The safety properties of NimPeers for every board and every set of      *)
(* numbers the users may type, and the proof that the two processes        *)
(* implement NimGame.                                                      *)
(***************************************************************************)
EXTENDS NimPeers, TLAPS

(***************************************************************************)
(* The inductive invariant: one of the processes, p, is ahead, and the     *)
(* pair is in one of four phases.                                          *)
(***************************************************************************)
Waiting(p) == pc[p] \in {"check", "recv"}

Thinking(p) ==
    /\ pc[p] = "move"
    /\ Waiting(Other(p))
    /\ chan[p] = <<>>
    /\ chan[Other(p)] = <<>>
    /\ game[Other(p)] = game[p]
    /\ ~game_over(game[p])

Ahead(p, m) ==
    /\ Waiting(Other(p))
    /\ chan[p] = <<>>
    /\ valid_move(game[Other(p)], m.row, m.num_remove)
    /\ game[p] = update_game(game[Other(p)], m)
    /\ ~game_over(game[Other(p)])

Unsent(p) ==
    /\ pc[p] = "send"
    /\ chan[Other(p)] = <<>>
    /\ Ahead(p, move[p])

InFlight(p) ==
    /\ pc[p] \in {"check", IF game_over(game[p]) THEN "win" ELSE "recv"}
    /\ Len(chan[Other(p)]) = 1
    /\ Ahead(p, chan[Other(p)][1])

Ended(p) ==
    /\ pc[p] \in {"check", "win"}
    /\ pc[Other(p)] = "lose"
    /\ chan[p] = <<>>
    /\ chan[Other(p)] = <<>>
    /\ game[Other(p)] = game[p]
    /\ game_over(game[p])

Phase(p) == Thinking(p) \/ Unsent(p) \/ InFlight(p) \/ Ended(p)

StatusOK ==
    \A p \in Peers :
        /\ status[p] = "done" <=> pc[p] \in {"win", "lose"}
        /\ status[p] = "died" => status[Other(p)] = "exited"

IInv ==
    /\ TypeOK
    /\ StatusOK
    /\ \E p \in Peers : Phase(p)

-----------------------------------------------------------------------------
\* A move that valid_move() accepts leaves a board of the same shape.
LEMMA UpdateIsBoard ==
    ASSUME NEW board \in Boards, NEW m \in Moves,
           valid_move(board, m.row, m.num_remove)
    PROVE  update_game(board, m) \in Boards
<1>1. m.row \in Rows /\ board[m.row] \in 0..255 /\ m.num_remove \in 0..board[m.row]
  BY DEF valid_move, Boards
<1>2. \A b \in 0..255 : \A n \in 0..b : b - n \in 0..255
  BY SMTT(30)
<1>3. board[m.row] - m.num_remove \in 0..255
  BY <1>1, <1>2, Zenon
<1>. QED  BY <1>1, <1>3 DEF update_game, Boards

\* What a user types and valid_move() accepts fits the message format.
LEMMA ValidIsMove ==
    ASSUME NEW board \in Boards, NEW row, NEW num_remove,
           valid_move(board, row, num_remove)
    PROVE  [row |-> row, num_remove |-> num_remove] \in Moves
<1>1. row \in Rows /\ board[row] \in 0..255 /\ num_remove \in 0..board[row]
  BY DEF valid_move, Boards
<1>2. num_remove \in 0..255
  BY <1>1
<1>. QED  BY <1>1, <1>2 DEF Moves

LEMMA OtherPeer ==
    \A p \in Peers : Other(p) \in Peers /\ Other(p) # p /\ Other(Other(p)) = p
BY DEF Peers, Other

LEMMA TwoPeers ==
    \A p, q \in Peers : q = p \/ q = Other(p)
BY DEF Peers, Other

LEMMA InitIInv == Init => IInv
<1>. SUFFICES ASSUME Init PROVE IInv
  OBVIOUS
<1>. USE GAMEAssumption DEF Init, Peers
<1>1. TypeOK
  BY DEF TypeOK, Boards, Moves, NoMove, Rows
<1>2. StatusOK
  BY DEF StatusOK
<1>3. ~game_over(GAME)
  BY DEF game_over, tokens_remaining, Rows
<1>4. Thinking("guest")
  BY <1>3 DEF Thinking, Waiting, Other
<1>. QED  BY <1>1, <1>2, <1>4 DEF IInv, Phase

-----------------------------------------------------------------------------
\* The location of a process tells the phase the pair is in.
LEMMA PhaseAt ==
    ASSUME IInv, NEW p \in Peers
    PROVE  /\ pc[p] = "move" => Thinking(p)
           /\ pc[p] = "send" => Unsent(p)
           /\ Waiting(p) /\ chan[p] # <<>> => InFlight(Other(p))
<1>. PICK r \in Peers : Phase(r)
  BY DEF IInv
<1>. r = p \/ r = Other(p)
  BY TwoPeers
<1>. QED
  BY OtherPeer DEF Phase, Thinking, Unsent, InFlight, Ended, Ahead, Waiting

LEMMA RequestMoveKeepsIInv ==
    ASSUME IInv, NEW p \in Peers, RequestMove(p)
    PROVE  IInv' /\ Thinking(p) /\ Unsent(p)'
<1>. DEFINE q == Other(p)
<1>1. q \in Peers /\ q # p /\ Other(q) = p
  BY OtherPeer
<1>2. TypeOK /\ StatusOK /\ Thinking(p)
  BY PhaseAt DEF IInv, RequestMove, At
<1>3. game[p] \in Boards /\ game[q] = game[p]
  BY <1>1, <1>2 DEF TypeOK, Boards, Thinking
<1>4. PICK row \in Typed, num_remove \in Typed :
        /\ valid_move(game[p], row, num_remove)
        /\ move' = [move EXCEPT ![p] = [row |-> row, num_remove |-> num_remove]]
  BY DEF RequestMove
<1>5. /\ move'[p] = [row |-> row, num_remove |-> num_remove]
      /\ move'[p] \in Moves
      /\ valid_move(game[q], move'[p].row, move'[p].num_remove)
  BY <1>2, <1>3, <1>4, ValidIsMove DEF TypeOK
<1>6. /\ game'[p] = update_game(game[q], move'[p])
      /\ game'[p] \in Boards
      /\ game' \in [Peers -> Boards]
      /\ game'[q] = game[q]
  BY <1>1, <1>2, <1>3, <1>5, UpdateIsBoard, ZenonT(30) DEF RequestMove, TypeOK, Boards
<1>7. TypeOK'
  BY <1>2, <1>4, <1>5, <1>6 DEF RequestMove, TypeOK, Boards
<1>8. StatusOK'
  BY <1>1, <1>2 DEF RequestMove, At, StatusOK, TypeOK
<1>9. Unsent(p)'
  BY <1>1, <1>2, <1>5, <1>6
     DEF RequestMove, At, Unsent, Ahead, Thinking, Waiting, TypeOK
<1>. QED  BY <1>2, <1>7, <1>8, <1>9 DEF IInv, Phase

LEMMA SendMoveKeepsIInv ==
    ASSUME IInv, NEW p \in Peers, SendMove(p)
    PROVE  IInv' /\ Unsent(p) /\ InFlight(p)'
<1>. DEFINE q == Other(p)
<1>1. q \in Peers /\ q # p /\ Other(q) = p
  BY OtherPeer
<1>2. TypeOK /\ StatusOK /\ Unsent(p)
  BY PhaseAt DEF IInv, SendMove, At
<1>3. NoMove \in Moves
  BY DEF NoMove, Moves, Rows
<1>4. TypeOK'
  BY <1>1, <1>2, <1>3 DEF SendMove, TypeOK
<1>5. StatusOK'
  BY <1>1, <1>2 DEF SendMove, At, StatusOK, TypeOK
<1>6. Len(chan'[q]) = 1 /\ chan'[q][1] = move[p] /\ chan'[p] = chan[p]
  BY <1>1, <1>2 DEF SendMove, TypeOK, Unsent
<1>7. InFlight(p)'
  BY <1>1, <1>2, <1>6
     DEF SendMove, InFlight, Unsent, Ahead, Waiting, TypeOK
<1>. QED  BY <1>2, <1>4, <1>5, <1>7 DEF IInv, Phase

\* A step that only ends a process leaves the phase as it is.
LEMMA EndKeepsPhase ==
    ASSUME IInv, UNCHANGED <<game, pc, move, chan>>
    PROVE  \E p \in Peers : Phase(p)'
BY DEF IInv, Phase, Thinking, Unsent, InFlight, Ended, Ahead, Waiting

LEMMA SendFailsKeepsIInv ==
    ASSUME IInv, NEW p \in Peers, SendFails(p)
    PROVE  IInv'
<1>1. Other(p) \in Peers /\ Other(p) # p /\ Other(Other(p)) = p
  BY OtherPeer
<1>2. TypeOK /\ StatusOK /\ Unsent(p)
  BY PhaseAt DEF IInv, SendFails, At
<1>3. TypeOK'
  BY <1>2 DEF SendFails, TypeOK
<1>4. status[Other(p)] = "exited"
  <2>1. pc[Other(p)] \notin {"win", "lose"}
    BY <1>2 DEF Unsent, Ahead, Waiting
  <2>2. status[Other(p)] \notin {"done", "died"}
    BY <1>1, <1>2, <2>1 DEF SendFails, At, StatusOK
  <2>. QED  BY <1>1, <1>2, <2>2 DEF SendFails, TypeOK
<1>5. StatusOK'
  BY <1>1, <1>2, <1>4, TwoPeers DEF SendFails, At, StatusOK, TypeOK
<1>. QED  BY <1>3, <1>5, EndKeepsPhase DEF IInv, SendFails

LEMMA GetMoveFailsKeepsIInv ==
    ASSUME IInv, NEW p \in Peers, GetMoveFails(p)
    PROVE  IInv'
<1>1. Other(p) \in Peers /\ Other(p) # p /\ Other(Other(p)) = p
  BY OtherPeer
<1>2. TypeOK /\ StatusOK
  BY DEF IInv
<1>3. TypeOK'
  BY <1>2 DEF GetMoveFails, TypeOK
<1>4. pc[Other(p)] \notin {"win", "lose"}
  <2>1. PICK r \in Peers : Phase(r)
    BY DEF IInv
  <2>2. r = p \/ r = Other(p)
    BY TwoPeers
  <2>. QED
    BY <1>1, <2>1, <2>2
       DEF GetMoveFails, At, Phase, Thinking, Unsent, InFlight, Ended, Ahead, Waiting
<1>5. status[Other(p)] = "exited"
  <2>1. status[Other(p)] \notin {"done", "died"}
    BY <1>1, <1>2, <1>4 DEF GetMoveFails, At, StatusOK
  <2>. QED  BY <1>1, <1>2, <2>1 DEF GetMoveFails, TypeOK
<1>6. StatusOK'
  BY <1>1, <1>2, <1>5, TwoPeers DEF GetMoveFails, At, StatusOK, TypeOK
<1>. QED  BY <1>3, <1>6, EndKeepsPhase DEF IInv, GetMoveFails

LEMMA InterruptKeepsIInv ==
    ASSUME IInv, NEW p \in Peers, Interrupt(p)
    PROVE  IInv'
<1>1. TypeOK /\ StatusOK
  BY DEF IInv
<1>2. TypeOK'
  BY <1>1 DEF Interrupt, TypeOK
<1>3. StatusOK'
  BY <1>1, OtherPeer DEF Interrupt, StatusOK, TypeOK
<1>. QED  BY <1>2, <1>3, EndKeepsPhase DEF IInv, Interrupt

LEMMA CheckGameKeepsIInv ==
    ASSUME IInv, NEW p \in Peers, CheckGame(p)
    PROVE  IInv'
<1>. DEFINE q == Other(p)
<1>1. q \in Peers /\ q # p /\ Other(q) = p
  BY OtherPeer
<1>2. TypeOK /\ StatusOK
  BY DEF IInv
<1>3. TypeOK'
  BY <1>2 DEF CheckGame, TypeOK
<1>4. StatusOK'
  <2>1. /\ status'[p] = "done" <=> pc'[p] \in {"win", "lose"}
        /\ status'[p] # "died"
    BY <1>2 DEF CheckGame, At, TypeOK
  <2>2. pc'[q] = pc[q] /\ status'[q] = status[q] /\ status[q] # "died"
    BY <1>1, <1>2 DEF CheckGame, At, StatusOK, TypeOK
  <2>. QED  BY <1>1, <1>2, <2>1, <2>2, TwoPeers DEF StatusOK
<1>5. PICK r \in Peers : Phase(r)
  BY DEF IInv
<1>6. Phase(r)'
  <2>1. CASE r = p
    <3>. pc[p] = "check" /\ (InFlight(p) \/ Ended(p))
      BY <1>5, <2>1 DEF CheckGame, At, Phase, Thinking, Unsent
    <3>1. CASE InFlight(p)
      BY <1>1, <1>2, <2>1, <3>1
         DEF CheckGame, InFlight, Ahead, Waiting, Phase, TypeOK
    <3>2. CASE Ended(p)
      BY <1>1, <1>2, <2>1, <3>2 DEF CheckGame, Ended, Phase, TypeOK
    <3>. QED  BY <3>1, <3>2
  <2>2. CASE r = q
    <3>. pc[p] = "check" /\ (Thinking(q) \/ Unsent(q) \/ InFlight(q))
      BY <1>1, <1>5, <2>2 DEF CheckGame, At, Phase, Ended
    <3>1. CASE Thinking(q)
      BY <1>1, <1>2, <2>2, <3>1 DEF CheckGame, Thinking, Waiting, Phase, TypeOK
    <3>2. CASE Unsent(q)
      BY <1>1, <1>2, <2>2, <3>2
         DEF CheckGame, Unsent, Ahead, Waiting, Phase, TypeOK
    <3>3. CASE InFlight(q)
      BY <1>1, <1>2, <2>2, <3>3
         DEF CheckGame, InFlight, Ahead, Waiting, Phase, TypeOK
    <3>. QED  BY <3>1, <3>2, <3>3
  <2>. QED  BY <2>1, <2>2, TwoPeers
<1>. QED  BY <1>3, <1>4, <1>6 DEF IInv

LEMMA GetMoveKeepsIInv ==
    ASSUME IInv, NEW p \in Peers, GetMove(p)
    PROVE  /\ IInv'
           /\ InFlight(Other(p))
           /\ game'[Other(p)] = game[Other(p)]
           /\ Thinking(p)' \/ Ended(Other(p))'
<1>. DEFINE q == Other(p)
            m == chan[p][1]
<1>1. q \in Peers /\ q # p /\ Other(q) = p
  BY OtherPeer
<1>2. TypeOK /\ StatusOK /\ pc[p] = "recv" /\ status[p] = "running"
  BY DEF IInv, GetMove, At
<1>3. InFlight(q)
  <2>1. chan[p] # <<>>
    BY <1>2 DEF GetMove, TypeOK
  <2>. QED  BY <1>2, <2>1, PhaseAt DEF Waiting
<1>4. Len(chan[p]) = 1 /\ Head(chan[p]) = m /\ m \in Moves
  <2>1. chan[p] \in Seq(Moves)
    BY <1>2 DEF TypeOK
  <2>2. Len(chan[p]) = 1
    BY <1>1, <1>3 DEF InFlight
  <2>. QED  BY <2>1, <2>2
<1>5. chan' = [chan EXCEPT ![p] = <<>>] /\ ApplyMove(p, m) /\ move' = move
  <2>1. PICK k \in 1..Len(chan[p]) :
          /\ chan' = [chan EXCEPT ![p] = SubSeq(@, k + 1, Len(@))]
          /\ k = 1 => ApplyMove(p, Head(chan[p]))
    BY DEF GetMove
  <2>2. k = 1
    BY <1>4
  <2>3. SubSeq(chan[p], k + 1, Len(chan[p])) = <<>>
    BY <1>2, <1>4, <2>2 DEF TypeOK
  <2>4. move' = move
    BY DEF GetMove
  <2>. QED  BY <1>4, <2>1, <2>2, <2>3, <2>4
<1>6. game[p] \in Boards /\ game[q] = update_game(game[p], m)
  BY <1>1, <1>2, <1>3 DEF InFlight, Ahead, TypeOK, Boards
<1>7. game'[p] = game[q] /\ game'[q] = game[q]
  BY <1>1, <1>2, <1>5, <1>6 DEF ApplyMove, TypeOK
<1>8. TypeOK'
  <2>. HIDE DEF q, m
  <2>1. game' \in [Peers -> [Rows -> 0..255]]
    <3>1. /\ game \in [Peers -> [Rows -> 0..255]]
          /\ game' = [game EXCEPT ![p] = update_game(game[p], m)]
          /\ game[q] \in [Rows -> 0..255]
      BY <1>1, <1>2, <1>5 DEF ApplyMove, TypeOK
    <3>. QED  BY <1>6, <3>1
  <2>2. chan' \in [Peers -> Seq(Moves)]
    BY <1>2, <1>5 DEF TypeOK
  <2>3. /\ pc' \in [Peers -> {"move", "send", "check", "recv", "win", "lose"}]
        /\ status' \in [Peers -> {"running", "done", "exited", "died"}]
    <3>1. /\ pc \in [Peers -> {"move", "send", "check", "recv", "win", "lose"}]
          /\ status \in [Peers -> {"running", "done", "exited", "died"}]
      BY <1>2 DEF TypeOK
    <3>2. /\ \E x \in {"lose", "move"} : pc' = [pc EXCEPT ![p] = x]
          /\ status' = status \/ status' = [status EXCEPT ![p] = "done"]
      BY <1>5, Zenon DEF ApplyMove
    <3>. QED  BY <3>1, <3>2
  <2>4. move' \in [Peers -> Moves]
    BY <1>2, <1>5 DEF TypeOK
  <2>. QED  BY <2>1, <2>2, <2>3, <2>4, Zenon DEF TypeOK
<1>9. StatusOK'
  <2>. HIDE DEF q, m
  <2>1. /\ \/ pc' = [pc EXCEPT ![p] = "lose"] /\ status' = [status EXCEPT ![p] = "done"]
           \/ pc' = [pc EXCEPT ![p] = "move"] /\ status' = status
    BY <1>5, Zenon DEF ApplyMove
  <2>2. /\ pc'[q] = pc[q] /\ status'[q] = status[q]
        /\ \/ pc'[p] = "lose" /\ status'[p] = "done"
           \/ pc'[p] = "move" /\ status'[p] = "running"
    BY <1>1, <1>2, <2>1 DEF TypeOK
  <2>3. /\ status[q] = "done" <=> pc[q] \in {"win", "lose"}
        /\ status[q] = "died" => status[p] = "exited"
    BY <1>1, <1>2 DEF StatusOK
  <2>4. status[q] # "died"
    BY <1>2, <2>3
  <2>5. \A r \in Peers : r = p \/ r = q
    BY TwoPeers DEF q
  <2>. QED  BY <2>2, <2>3, <2>4, <2>5 DEF StatusOK
<1>10. CASE game_over(game'[p])
  <2>1. pc' = [pc EXCEPT ![p] = "lose"]
    BY <1>5, <1>10 DEF ApplyMove
  <2>2. Ended(q)'
    BY <1>1, <1>2, <1>3, <1>5, <1>7, <1>10, <2>1
       DEF Ended, InFlight, Ahead, TypeOK
  <2>. QED  BY <1>1, <1>3, <1>7, <1>8, <1>9, <2>2 DEF IInv, Phase
<1>11. CASE ~game_over(game'[p])
  <2>1. pc' = [pc EXCEPT ![p] = "move"]
    BY <1>5, <1>11 DEF ApplyMove
  <2>2. Thinking(p)'
    BY <1>1, <1>2, <1>3, <1>5, <1>7, <1>11, <2>1
       DEF Thinking, InFlight, Ahead, Waiting, TypeOK
  <2>. QED  BY <1>1, <1>3, <1>7, <1>8, <1>9, <2>2 DEF IInv, Phase
<1>. QED  BY <1>10, <1>11

\* Every state the two processes reach is in one of the four phases.
THEOREM Invariance == Spec => []IInv
<1>1. ASSUME IInv, [Next]_vars
      PROVE  IInv'
  <2>1. CASE UNCHANGED vars
    BY <1>1, <2>1
       DEF IInv, TypeOK, StatusOK, Phase, Thinking, Unsent, InFlight, Ended,
           Ahead, Waiting, vars
  <2>2. CASE Next
    <3>1. PICK p \in Peers : RequestMove(p) \/ Proceed(p) \/ Interrupt(p)
      BY <2>2 DEF Next
    <3>. QED
      BY <1>1, <3>1, RequestMoveKeepsIInv, SendMoveKeepsIInv, SendFailsKeepsIInv,
         CheckGameKeepsIInv, GetMoveKeepsIInv, GetMoveFailsKeepsIInv,
         InterruptKeepsIInv
         DEF Proceed
  <2>. QED  BY <1>1, <2>1, <2>2
<1>. QED  BY InitIInv, <1>1, PTL DEF Spec

-----------------------------------------------------------------------------
LEMMA PhasesImplySafety ==
    ASSUME IInv
    PROVE  /\ OneMoveInFlight
           /\ ReceivedMoveIsValid
           /\ BoardsAgree
           /\ OneWinner
           /\ DiesOnlyOfInterrupt
<1>1. PICK p \in Peers : Phase(p)
  BY DEF IInv
<1>2. /\ Other(p) \in Peers /\ Other(p) # p /\ Other(Other(p)) = p
      /\ \A r \in Peers : r = p \/ r = Other(p)
      /\ \/ p = "guest" /\ Other(p) = "host"
         \/ p = "host" /\ Other(p) = "guest"
  BY OtherPeer, TwoPeers DEF Peers, Other
<1>3. /\ chan[p] = <<>>
      /\ chan[Other(p)] # <<>> =>
            /\ InFlight(p)
            /\ Len(chan[Other(p)]) = 1
            /\ Head(chan[Other(p)]) = chan[Other(p)][1]
  <2>1. chan[Other(p)] \in Seq(Moves)
    BY <1>2 DEF IInv, TypeOK
  <2>2. chan[p] = <<>>
    BY <1>1 DEF Phase, Thinking, Unsent, InFlight, Ended, Ahead
  <2>3. chan[Other(p)] # <<>> => InFlight(p)
    BY <1>1 DEF Phase, Thinking, Unsent, Ended
  <2>. QED  BY <2>1, <2>2, <2>3 DEF InFlight
<1>4. OneMoveInFlight
  <2>1. Len(chan[p]) = 0
    BY <1>3
  <2>2. Len(chan[Other(p)]) \in {0, 1}
    BY <1>3
  <2>3. \A i \in {0}, j \in {0, 1} : i + j <= 1 /\ j + i <= 1
    OBVIOUS
  <2>4. /\ Len(chan[p]) + Len(chan[Other(p)]) <= 1
        /\ Len(chan[Other(p)]) + Len(chan[p]) <= 1
    BY <2>1, <2>2, <2>3
  <2>. QED  BY <1>2, <2>4, Zenon DEF OneMoveInFlight
<1>5. ReceivedMoveIsValid
  BY <1>2, <1>3 DEF ReceivedMoveIsValid, InFlight, Ahead
<1>6. BoardsAgree
  <2>1. ~Pending(p)
    BY <1>1, <1>3 DEF Pending, Phase, Thinking, Unsent, InFlight, Ended, Ahead, Waiting
  <2>2. Pending(Other(p)) =>
          game[p] = update_game(game[Other(p)], PendingMove(Other(p)))
    BY <1>1, <1>2, <1>3
       DEF Pending, PendingMove, Phase, Thinking, Unsent, InFlight, Ended, Ahead
  <2>3. ~Pending(Other(p)) => game[p] = game[Other(p)]
    BY <1>1, <1>2, <1>3 DEF Pending, Phase, Thinking, Unsent, InFlight, Ended
  <2>. QED  BY <1>2, <2>1, <2>2, <2>3 DEF BoardsAgree
<1>7. OneWinner
  BY <1>1, <1>2
     DEF OneWinner, Phase, Thinking, Unsent, InFlight, Ended, Ahead, Waiting
<1>8. DiesOnlyOfInterrupt
  BY DEF IInv, StatusOK, DiesOnlyOfInterrupt
<1>. QED  BY <1>4, <1>5, <1>6, <1>7, <1>8

\* Every list, location, status and message keeps its shape, whatever the
\* users type.
THEOREM TypeCorrect == Spec => []TypeOK
<1>1. IInv => TypeOK
  BY DEF IInv
<1>. QED  BY <1>1, Invariance, PTL

\* No recv() can return two moves at once.
THEOREM NoCoalescedMoves == Spec => []OneMoveInFlight
<1>1. IInv => OneMoveInFlight
  BY PhasesImplySafety
<1>. QED  BY <1>1, Invariance, PTL

\* A received move that get_move() does not check would have passed the
\* check.
THEOREM UncheckedMovesAreValid == Spec => []ReceivedMoveIsValid
<1>1. IInv => ReceivedMoveIsValid
  BY PhasesImplySafety
<1>. QED  BY <1>1, Invariance, PTL

\* The two copies of GAME differ by the pending move and by nothing else.
THEOREM BoardsInStep == Spec => []BoardsAgree
<1>1. IInv => BoardsAgree
  BY PhasesImplySafety
<1>. QED  BY <1>1, Invariance, PTL

\* The banners of the two processes never contradict each other.
THEOREM BannersAgree == Spec => []OneWinner
<1>1. IInv => OneWinner
  BY PhasesImplySafety
<1>. QED  BY <1>1, Invariance, PTL

\* Only a Ctrl-C on one side makes the other side die of an exception.
THEOREM NoExceptionByItself == Spec => []DiesOnlyOfInterrupt
<1>1. IInv => DiesOnlyOfInterrupt
  BY PhasesImplySafety
<1>. QED  BY <1>1, Invariance, PTL

-----------------------------------------------------------------------------
(***************************************************************************)
(* Refinement.  The abstract state in terms of the phase: only the process *)
(* that is ahead knows the whole game.                                     *)
(***************************************************************************)
WinnerIf(over, p) == IF over THEN p ELSE "none"

AbstractState ==
    \A p \in Peers :
        /\ Thinking(p) => Turn = p /\ Board = game[p] /\ Winner = "none"
        /\ Unsent(p) \/ InFlight(p) \/ Ended(p) =>
              /\ Turn = Other(p)
              /\ Board = game[p]
              /\ Winner = WinnerIf(game_over(game[p]), p)

LEMMA PhaseGivesAbstractState == IInv => AbstractState
<1>. SUFFICES ASSUME IInv, NEW p \in Peers
     PROVE  /\ Thinking(p) => Turn = p /\ Board = game[p] /\ Winner = "none"
            /\ Unsent(p) \/ InFlight(p) \/ Ended(p) =>
                  /\ Turn = Other(p)
                  /\ Board = game[p]
                  /\ Winner = WinnerIf(game_over(game[p]), p)
  BY DEF AbstractState
<1>0. \/ p = "guest" /\ Other(p) = "host"
      \/ p = "host" /\ Other(p) = "guest"
  BY DEF Peers, Other
<1>1. ASSUME Thinking(p)
      PROVE  Turn = p /\ Board = game[p] /\ Winner = "none"
  <2>1. ~Won("guest") /\ ~Won("host")
    BY <1>0, <1>1 DEF Thinking, Won
  <2>2. Turn = p
    BY <1>0, <1>1 DEF Thinking, Waiting, Turn, Pending, Other
  <2>. QED  BY <1>0, <1>1, <2>1, <2>2 DEF Thinking, Board, Winner
<1>2. ASSUME Unsent(p) \/ InFlight(p) \/ Ended(p)
      PROVE  /\ Turn = Other(p)
             /\ Board = game[p]
             /\ Winner = WinnerIf(game_over(game[p]), p)
  <2>1. ~Won(Other(p)) /\ (Won(p) <=> game_over(game[p]))
    BY <1>2 DEF Unsent, InFlight, Ended, Ahead, Waiting, Won
  <2>2. Turn = Other(p)
    <3>1. CASE Unsent(p)
      BY <1>0, <3>1 DEF Unsent, Ahead, Waiting, Turn, Pending, Other
    <3>2. CASE InFlight(p)
      <4>1. chan[Other(p)] # <<>>
        BY <3>2 DEF InFlight
      <4>. QED
        BY <1>0, <3>2, <4>1 DEF InFlight, Ahead, Waiting, Turn, Pending, Other
    <3>3. CASE Ended(p)
      BY <1>0, <3>3 DEF Ended, Turn, Pending, Other
    <3>. QED  BY <1>2, <3>1, <3>2, <3>3
  <2>. QED  BY <1>0, <2>1, <2>2 DEF Board, Winner, WinnerIf
<1>. QED  BY <1>1, <1>2

LEMMA InitRefines == Init => Nim!Init
<1>. SUFFICES ASSUME Init PROVE Nim!Init
  OBVIOUS
<1>1. IInv /\ AbstractState
  BY InitIInv, PhaseGivesAbstractState
<1>2. PICK p \in Peers : Thinking(p)
  BY <1>1 DEF IInv, Phase, Unsent, InFlight, Ended, Init, Other, Peers
<1>3. p = "guest"
  BY <1>2 DEF Thinking, Init, Peers
<1>. QED  BY <1>1, <1>2, <1>3 DEF AbstractState, Init, Nim!Init

LEMMA StepRefines ==
    ASSUME IInv, AbstractState, AbstractState', [Next]_vars
    PROVE  Nim!Next \/ UNCHANGED Nim!vars
<1>1. CASE UNCHANGED vars
  BY <1>1 DEF vars, Nim!vars, Board, Turn, Winner, Won, Pending
<1>2. ASSUME NEW p \in Peers, RequestMove(p)
      PROVE  Nim!Next
  <2>1. /\ Thinking(p) /\ Unsent(p)'
        /\ Turn = p /\ Board = game[p] /\ Winner = "none"
        /\ Turn' = Other(p) /\ Board' = game'[p]
        /\ Winner' = WinnerIf(game_over(game'[p]), p)
    BY <1>2, RequestMoveKeepsIInv DEF AbstractState
  <2>2. PICK row, num_remove :
          /\ valid_move(game[p], row, num_remove)
          /\ move' = [move EXCEPT ![p] = [row |-> row, num_remove |-> num_remove]]
    BY <1>2 DEF RequestMove
  <2>3. game'[p] = update_game(game[p], [row |-> row, num_remove |-> num_remove])
    BY <1>2, <2>2 DEF RequestMove, IInv, TypeOK
  <2>4. row \in Rows /\ num_remove \in 0..game[p][row]
    BY <2>2 DEF valid_move
  <2>5. Nim!Move(p)
    BY <2>1, <2>2, <2>3, <2>4
       DEF Nim!Move, Nim!Other, Other, WinnerIf, Nim!Rows, Rows, Nim!valid_move,
           valid_move, Nim!update_game, update_game, Nim!game_over, game_over,
           Nim!tokens_remaining, tokens_remaining
  <2>. QED  BY <2>5 DEF Nim!Next, Nim!Players, Peers
<1>3. ASSUME NEW p \in Peers, SendMove(p)
      PROVE  UNCHANGED Nim!vars
  <2>1. Unsent(p) /\ InFlight(p)' /\ game' = game
    BY <1>3, SendMoveKeepsIInv DEF SendMove
  <2>. QED  BY <2>1 DEF AbstractState, Nim!vars
<1>4. ASSUME NEW p \in Peers, CheckGame(p)
      PROVE  UNCHANGED Nim!vars
  <2>1. \A r \in Peers :
          /\ pc'[r] = pc[r] \/ (pc[r] = "check" /\ pc'[r] \in {"win", "recv"})
          /\ Won(r)' <=> Won(r)
    <3>. TAKE r \in Peers
    <3>1. CASE r # p
      BY <1>4, <3>1 DEF CheckGame, Won, IInv, TypeOK
    <3>2. CASE r = p /\ game_over(game[p])
      BY <1>4, <3>2 DEF CheckGame, At, Won, IInv, TypeOK
    <3>3. CASE r = p /\ ~game_over(game[p])
      BY <1>4, <3>3 DEF CheckGame, At, Won, IInv, TypeOK
    <3>. QED  BY <3>1, <3>2, <3>3
  <2>. QED
    BY <1>4, <2>1
       DEF CheckGame, Nim!vars, Board, Turn, Winner, Pending, Peers, Other
<1>5. ASSUME NEW p \in Peers, GetMove(p)
      PROVE  UNCHANGED Nim!vars
  <2>. DEFINE q == Other(p)
  <2>1. /\ q \in Peers /\ Other(q) = p
        /\ IInv' /\ InFlight(q) /\ game'[q] = game[q]
        /\ Thinking(p)' \/ Ended(q)'
    BY <1>5, GetMoveKeepsIInv, OtherPeer
  <2>2. Turn = p /\ Board = game[q] /\ Winner = WinnerIf(game_over(game[q]), q)
    BY <2>1 DEF AbstractState
  <2>3. CASE Thinking(p)'
    <3>1. game'[p] = game'[q] /\ ~game_over(game'[q])
      BY <2>3 DEF Thinking
    <3>2. Turn' = p /\ Board' = game'[p] /\ Winner' = "none"
      BY <2>3 DEF AbstractState
    <3>. QED  BY <2>1, <2>2, <3>1, <3>2 DEF Nim!vars, WinnerIf
  <2>4. CASE Ended(q)'
    <3>1. Turn' = p /\ Board' = game'[q] /\ Winner' = WinnerIf(game_over(game'[q]), q)
      BY <2>1, <2>4 DEF AbstractState
    <3>. QED  BY <2>1, <2>2, <3>1 DEF Nim!vars
  <2>. QED  BY <2>1, <2>3, <2>4
<1>6. ASSUME NEW p \in Peers, SendFails(p) \/ GetMoveFails(p) \/ Interrupt(p)
      PROVE  UNCHANGED Nim!vars
  BY <1>6
     DEF SendFails, GetMoveFails, Interrupt, Nim!vars, Board, Turn, Winner, Won,
         Pending
<1>. QED
  BY <1>1, <1>2, <1>3, <1>4, <1>5, <1>6 DEF Next, Proceed

\* Two processes that share nothing but one connection, without
\* acknowledgements, play one game of NIM.
THEOREM Refinement == Spec => ImplementsNim
<1>1. ASSUME IInv, AbstractState, AbstractState', [Next]_vars
      PROVE  [Nim!Next]_Nim!vars
  BY <1>1, StepRefines
<1>. QED
  BY <1>1, InitRefines, PhaseGivesAbstractState, Invariance, PTL
     DEF Spec, ImplementsNim, Nim!Spec
=============================================================================
