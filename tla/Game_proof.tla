------------------------------- MODULE Game_proof -------------------------------
(***************************************************************************)
(* Proofs about Game for every set of points a click can have and every    *)
(* bound of the queue.                                                     *)
(***************************************************************************)
EXTENDS Game, FiniteSetTheorems, TLAPS

\* The three things a step can do to the game: nothing, a new one, one move.
Stays   == board' = board /\ player_x_turn' = player_x_turn
NewGame == state = "MENU" /\ board' = EmptyBoard /\ player_x_turn' = TRUE
Mover   == IF player_x_turn THEN "X" ELSE "O"
Move(c) == /\ ~Ended(board) /\ board[c] = Blank
           /\ board' = [board EXCEPT ![c] = Mover]
           /\ player_x_turn' = ~player_x_turn

\* What a step does to the game: nothing, a new game or a move.
LEMMA GameStep ==
    ASSUME Next \/ UNCHANGED vars
    PROVE  Stays \/ NewGame \/ \E c \in Cell : Move(c)
<1>1. CASE Timer \/ Ignored \/ CloseDisplay \/ Escape
  BY <1>1 DEF Stays, Timer, Ignored, CloseDisplay, Escape
<1>2. ASSUME NEW p \in Point, Click(p)
      PROVE  Stays \/ NewGame \/ \E c \in Cell : Move(c)
  <2>1. CASE ClickPlay(p)
    BY <2>1 DEF NewGame, ClickPlay
  <2>2. CASE ClickExit(p) \/ ClickEnded(p)
    BY <2>2 DEF Stays, ClickExit, ClickEnded
  <2>3. CASE ClickCell(p)
    <3>1. CellsAt[p] \subseteq Cell
      BY DEF CellsAt
    <3>2. PICK c \in CellsAt[p] : /\ IsFree(c)
                                  /\ board' = [board EXCEPT ![c] = IF player_x_turn THEN "X" ELSE "O"]
      BY <2>3 DEF ClickCell
    <3>3. ~Ended(board) /\ player_x_turn' = ~player_x_turn
      BY <2>3 DEF ClickCell
    <3> QED BY <3>1, <3>2, <3>3 DEF Move, Mover, IsFree
  <2> QED BY <1>2, <2>1, <2>2, <2>3 DEF Click
<1>3. ASSUME NEW kind \in {"timer", "input"}, Occurs(kind)
      PROVE  Stays
  BY <1>3 DEF Occurs, Stays
<1>4. CASE UNCHANGED vars
  BY <1>4 DEF vars, Stays
<1> QED BY <1>1, <1>2, <1>3, <1>4 DEF Next, Loop

-----------------------------------------------------------------------------
\* Taking an event leaves a queue of events, no longer than it was.
LEMMA QueueStep ==
    ASSUME TypeOK, Next \/ UNCHANGED vars
    PROVE  queue' \in Seq({"timer", "input"}) /\ Len(queue') <= MaxQueue
<1> USE QueueAssumption
<1>1. ASSUME NEW kind, Takes(kind)
      PROVE  queue' \in Seq({"timer", "input"}) /\ Len(queue') <= MaxQueue
  BY <1>1 DEF TypeOK, Takes
<1>2. ASSUME NEW kind \in {"timer", "input"}, Occurs(kind)
      PROVE  queue' \in Seq({"timer", "input"}) /\ Len(queue') <= MaxQueue
  BY <1>2 DEF TypeOK, Occurs
<1>3. Loop => Takes("timer") \/ Takes("input")
  BY DEF Loop, Timer, Ignored, CloseDisplay, Escape, Click, ClickPlay, ClickExit, ClickEnded,
         ClickCell
<1>4. CASE UNCHANGED vars
  BY <1>4 DEF TypeOK, vars
<1> QED BY <1>1, <1>2, <1>3, <1>4 DEF Next

\* A callback leaves the flags of the window Boolean.
LEMMA RedrawsType ==
    ASSUME TypeOK, NEW kind, Redraws(kind)
    PROVE  redraw' \in BOOLEAN /\ fresh' \in BOOLEAN
BY Zenon DEF TypeOK, Redraws, AsksForRedraw

\* The rest of the state.
LEMMA LoopStep ==
    ASSUME TypeOK, Next \/ UNCHANGED vars
    PROVE  /\ state' \in {"MENU", "PLAYING", "QUIT"}
           /\ redraw' \in BOOLEAN /\ fresh' \in BOOLEAN
<1>1. ASSUME Loop PROVE \E kind : Redraws(kind)
  BY <1>1 DEF Loop, Timer, Ignored, CloseDisplay, Escape, Click, ClickPlay, ClickExit,
              ClickEnded, ClickCell
<1>2. ASSUME Loop PROVE state' \in {"MENU", "PLAYING", "QUIT"}
  BY <1>2 DEF TypeOK, Loop, Timer, Ignored, CloseDisplay, Escape, Click, ClickPlay, ClickExit,
              ClickEnded, ClickCell
<1>3. ASSUME NEW kind, Occurs(kind) PROVE UNCHANGED <<state, redraw, fresh>>
  BY <1>3 DEF Occurs
<1>4. UNCHANGED vars => UNCHANGED <<state, redraw, fresh>>
  BY DEF vars
<1>5. UNCHANGED <<state, redraw, fresh>> =>
        /\ state' \in {"MENU", "PLAYING", "QUIT"}
        /\ redraw' \in BOOLEAN /\ fresh' \in BOOLEAN
  BY DEF TypeOK
<1> QED BY <1>1, <1>2, <1>3, <1>4, <1>5, RedrawsType DEF Next

\* Each of the three leaves a board and a turn.
LEMMA BoardType ==
    ASSUME TypeOK, Stays \/ NewGame \/ \E c \in Cell : Move(c)
    PROVE  board' \in [Cell -> Player \cup {Blank}] /\ player_x_turn' \in BOOLEAN
<1>1. CASE Stays
  BY <1>1 DEF TypeOK, Stays
<1>2. CASE NewGame
  BY <1>2 DEF NewGame, EmptyBoard
<1>3. CASE \E c \in Cell : Move(c)
  BY <1>3 DEF TypeOK, Move, Mover, Player
<1> QED BY <1>1, <1>2, <1>3

\* The types at the start.
LEMMA TypeInit == Init => TypeOK
<1> SUFFICES ASSUME Init PROVE TypeOK
  OBVIOUS
<1>1. board \in [Cell -> Player \cup {Blank}]
  BY DEF Init, EmptyBoard
<1>2. queue \in Seq({"timer", "input"}) /\ Len(queue) <= MaxQueue
  BY QueueAssumption DEF Init
<1>3. player_x_turn \in BOOLEAN /\ redraw \in BOOLEAN /\ fresh \in BOOLEAN
  BY Zenon DEF Init
<1> QED BY <1>1, <1>2, <1>3 DEF Init, TypeOK

\* Every callback keeps the types.
LEMMA TypeStep == TypeOK /\ [Next]_vars => TypeOK'
<1> SUFFICES ASSUME TypeOK, Next \/ UNCHANGED vars PROVE TypeOK'
  OBVIOUS
<1> QED BY GameStep, QueueStep, LoopStep, BoardType DEF TypeOK

(***************************************************************************)
(* Type correctness: whatever is clicked, a cell holds a player's mark or  *)
(* none, and nothing is written outside of the board.                      *)
(***************************************************************************)
THEOREM TypeCorrect == Spec => []TypeOK
BY TypeInit, TypeStep, PTL DEF Spec

-----------------------------------------------------------------------------
\* Every line has cells, all of them on the board.
LEMMA LineCells == \A l \in Line : l # {} /\ l \subseteq Cell
<1>1. \A i, j \in 0..2 : <<i, j>> \in Cell
  BY DEF Cell
<1>2. \A i \in 0..2 : 2 - i \in 0..2
  OBVIOUS
<1>3. 0 \in 0..2
  OBVIOUS
<1>4. ASSUME NEW l \in {{<<i, j>> : j \in 0..2} : i \in 0..2} PROVE l # {} /\ l \subseteq Cell
  <2>1. PICK i \in 0..2 : l = {<<i, j>> : j \in 0..2}
    BY Zenon
  <2>2. <<i, 0>> \in l
    BY <1>3, <2>1, Zenon
  <2>3. \A c \in l : c \in Cell
    BY <1>1, <2>1, Zenon
  <2> QED BY <2>2, <2>3
<1>5. ASSUME NEW l \in {{<<i, j>> : i \in 0..2} : j \in 0..2} PROVE l # {} /\ l \subseteq Cell
  <2>1. PICK j \in 0..2 : l = {<<i, j>> : i \in 0..2}
    BY Zenon
  <2>2. <<0, j>> \in l
    BY <1>3, <2>1, Zenon
  <2>3. ASSUME NEW c \in l PROVE c \in Cell
    <3>1. PICK i \in 0..2 : c = <<i, j>>
      BY <2>1, Zenon
    <3> QED BY <1>1, <3>1
  <2> QED BY <2>2, <2>3
<1>6. ASSUME NEW l \in {{<<i, i>> : i \in 0..2}, {<<i, 2 - i>> : i \in 0..2}}
      PROVE  l # {} /\ l \subseteq Cell
  BY <1>1, <1>2, <1>3, Zenon
<1> QED BY <1>4, <1>5, <1>6, Zenon DEF Line

\* Nobody has a line on an empty board.
LEMMA EmptyHasNoWinner == Winners(EmptyBoard) = {}
<1>1. \A l \in Line : \E c \in l : EmptyBoard[c] = Blank
  BY LineCells DEF EmptyBoard
<1>2. \A x \in Player : x # Blank
  BY DEF Player, Blank
<1> QED BY <1>1, <1>2 DEF Winners

\* A move gives a line to nobody but the mover: a line of the other player has
\* none of the cell that was marked, so it was there before.
LEMMA OnlyMoverWins ==
    ASSUME TypeOK, NEW c \in Cell, Move(c)
    PROVE  Winners(board') \subseteq {Mover}
<1>1. Winners(board) = {}
  BY DEF Move, Ended
<1>2. SUFFICES ASSUME NEW x \in Winners(board'), x # Mover PROVE FALSE
  OBVIOUS
<1>3. PICK l \in Line : \A d \in l : board'[d] = x
  BY <1>2 DEF Winners
<1>4. \A d \in l : d \in Cell
  BY LineCells
<1>5. board'[c] = Mover
  BY DEF TypeOK, Move
<1>6. \A d \in l : d # c
  BY <1>2, <1>3, <1>5
<1>7. \A d \in l : board[d] = x
  BY <1>3, <1>4, <1>6 DEF TypeOK, Move
<1> QED BY <1>1, <1>2, <1>7 DEF Winners

\* No player has won at the start.
LEMMA WinnerInit == Init => WinnerMovedLast
BY EmptyHasNoWinner DEF Init, WinnerMovedLast

\* Only the move that wins changes who has won.
LEMMA WinnerStep ==
    ASSUME TypeOK, WinnerMovedLast, Stays \/ NewGame \/ \E c \in Cell : Move(c)
    PROVE  WinnerMovedLast'
<1>1. CASE Stays
  BY <1>1 DEF Stays, WinnerMovedLast
<1>2. CASE NewGame
  BY <1>2, EmptyHasNoWinner DEF NewGame, WinnerMovedLast
<1>3. CASE \E c \in Cell : Move(c)
  <2>1. PICK c \in Cell : Move(c)
    BY <1>3
  <2>2. Winners(board') \subseteq {Mover}
    BY <2>1, OnlyMoverWins
  <2>3. player_x_turn' = ~player_x_turn
    BY <2>1 DEF Move
  <2>4. Mover = IF player_x_turn' THEN "O" ELSE "X"
    BY <2>3 DEF Mover, TypeOK
  <2> QED BY <2>2, <2>4 DEF WinnerMovedLast
<1> QED BY <1>1, <1>2, <1>3

-----------------------------------------------------------------------------
\* The board has finitely many cells.
LEMMA CellsFinite == IsFiniteSet(Cell)
<1>1. IsFiniteSet(0..2)
  BY FS_Interval, 0 \in Int, 2 \in Int
<1> QED BY <1>1, FS_Product DEF Cell

\* The cells marked x on a board, counted.
Count(b, x) == Cardinality({c \in Cell : b[c] = x})

\* A count is a number.
LEMMA CountType == \A b, x : IsFiniteSet({c \in Cell : b[c] = x}) /\ Count(b, x) \in Nat
BY CellsFinite, FS_Subset, FS_CardinalityType DEF Count

\* Nothing is marked on an empty board.
LEMMA EmptyCounts == \A x \in Player : Count(EmptyBoard, x) = 0
<1>1. ASSUME NEW x \in Player PROVE {c \in Cell : EmptyBoard[c] = x} = {}
  <2>1. x # Blank
    BY DEF Player, Blank
  <2> QED BY <2>1 DEF EmptyBoard
<1> QED BY <1>1, FS_EmptySet DEF Count

\* A new game is balanced.
LEMMA BalancedInit == board = EmptyBoard /\ player_x_turn = TRUE => Balanced
BY EmptyCounts DEF Balanced, Marked, Count, Player

\* A move adds its cell to the mover's and leaves the other player's as they were.
LEMMA MoveCounts ==
    ASSUME TypeOK, NEW c \in Cell, Move(c), NEW x \in Player
    PROVE  Count(board', x) = Count(board, x) + IF x = Mover THEN 1 ELSE 0
<1> DEFINE before == {d \in Cell : board[d] = x}
           after  == {d \in Cell : board'[d] = x}
<1>1. board[c] = Blank /\ x # Blank
  BY DEF Move, Player, Blank
<1>2. \A d \in Cell : board'[d] = IF d = c THEN Mover ELSE board[d]
  BY DEF TypeOK, Move
<1>3. IsFiniteSet(before) /\ Count(board, x) \in Nat
  BY CountType
<1>4. CASE x = Mover
  <2>1. after = before \cup {c} /\ c \notin before
    BY <1>1, <1>2, <1>4
  <2> QED BY <1>3, <1>4, <2>1, FS_AddElement DEF Count
<1>5. CASE x # Mover
  <2>1. after = before
    BY <1>1, <1>2, <1>5
  <2> QED BY <1>3, <1>5, <2>1 DEF Count
<1> QED BY <1>4, <1>5

\* A move keeps the game balanced, since the players take turns.
LEMMA BalancedStep ==
    ASSUME TypeOK, Balanced, Stays \/ NewGame \/ \E c \in Cell : Move(c)
    PROVE  Balanced'
<1>1. CASE Stays
  BY <1>1 DEF Stays, Balanced, Marked
<1>2. CASE NewGame
  BY <1>2, EmptyCounts DEF NewGame, Balanced, Marked, Count, Player
<1>3. CASE \E c \in Cell : Move(c)
  <2>1. PICK c \in Cell : Move(c)
    BY <1>3
  <2>2. /\ Count(board', "X") = Count(board, "X") + IF "X" = Mover THEN 1 ELSE 0
        /\ Count(board', "O") = Count(board, "O") + IF "O" = Mover THEN 1 ELSE 0
    BY <2>1, MoveCounts DEF Player
  <2>3. Count(board, "X") \in Nat /\ Count(board, "O") \in Nat
    BY CountType
  <2>4. Count(board, "X") = Count(board, "O") + IF player_x_turn THEN 0 ELSE 1
    BY DEF Balanced, Marked, Count
  <2>5. player_x_turn' = ~player_x_turn /\ player_x_turn \in BOOLEAN
    BY <2>1 DEF Move, TypeOK
  <2>6. Count(board', "X") = Count(board', "O") + IF player_x_turn' THEN 0 ELSE 1
    BY <2>2, <2>3, <2>4, <2>5 DEF Mover
  <2> QED BY <2>6 DEF Balanced, Marked, Count
<1> QED BY <1>1, <1>2, <1>3

-----------------------------------------------------------------------------
(***************************************************************************)
(* Fair play: the turns alternate and at most one player, the one who      *)
(* moved last, has a line, on every board any clicks lead to.              *)
(***************************************************************************)
THEOREM FairPlayHolds == Spec => []FairPlay
<1>1. Init => TypeOK /\ FairPlay
  BY TypeInit, WinnerInit, BalancedInit DEF Init, FairPlay
<1>2. (TypeOK /\ FairPlay) /\ [Next]_vars => (TypeOK /\ FairPlay)'
  <2> SUFFICES ASSUME TypeOK, FairPlay, Next \/ UNCHANGED vars
               PROVE  TypeOK' /\ FairPlay'
    OBVIOUS
  <2>1. Stays \/ NewGame \/ \E c \in Cell : Move(c)
    BY GameStep
  <2> QED BY <2>1, TypeStep, WinnerStep, BalancedStep DEF FairPlay
<1> QED BY <1>1, <1>2, PTL DEF Spec

(***************************************************************************)
(* A mark is never taken back, nor a finished game played on: only Play in *)
(* the menu clears the board.                                              *)
(***************************************************************************)
THEOREM MovesStandHolds == Spec => MovesStand
<1> DEFINE A == \/ board' = board
                \/ state = "MENU" /\ board' = EmptyBoard
                \/ ~Ended(board) /\ \A c \in Cell : board[c] # Blank => board'[c] = board[c]
<1>1. TypeOK /\ [Next]_vars => [A]_vars
  <2> SUFFICES ASSUME TypeOK, Next \/ UNCHANGED vars PROVE A
    OBVIOUS
  <2>1. CASE Stays \/ NewGame
    BY <2>1 DEF Stays, NewGame
  <2>2. ASSUME NEW c \in Cell, Move(c) PROVE A
    BY <2>2 DEF TypeOK, Move
  <2> QED BY <2>1, <2>2, GameStep
<1> QED BY <1>1, TypeCorrect, PTL DEF Spec, MovesStand
==============================================================================
