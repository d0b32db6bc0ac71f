---------------------------------- MODULE Game ----------------------------------
(***************************************************************************)
(* The tic-tac-toe game, 35_game/main.c: a menu, a board for two players   *)
(* at one mouse, and the main loop, which takes events from the queue of   *)
(* Allegro one by one and draws when a timer event asked for it and the    *)
(* queue is empty.                                                         *)
(*                                                                         *)
(* Timer events and input events enter the queue at any time.  What an     *)
(* input event is (a click and where, Escape, the closing of the window)   *)
(* is chosen when it is handled: nothing looks at it before.  A click is   *)
(* a point of the screen, the same for the menu and the board.             *)
(***************************************************************************)
EXTENDS Integers, Sequences, FiniteSets

CONSTANTS Point,      \* where clicks land: pairs of coordinates
          MaxQueue    \* bound: events in the queue

ASSUME PointAssumption == Point \subseteq Int \X Int
ASSUME QueueAssumption == MaxQueue \in Nat \ {0}

VARIABLES
    board,            \* the mark of each cell, a row and a column
    player_x_turn,
    state,            \* "MENU", "PLAYING" or "QUIT"
    queue, redraw,
    fresh             \* history: nothing shown has changed since it was drawn

vars == <<board, player_x_turn, state, queue, redraw, fresh>>

Cell  == (0..2) \X (0..2)
Blank == "0"
Player == {"X", "O"}

\* Mutant: the cells are filled with spaces.
SpaceBoard == [c \in Cell |-> " "]
\* The board of reset_game.
EmptyBoard == [c \in Cell |-> Blank]

Line == {{<<i, j>> : j \in 0..2} : i \in 0..2} \cup {{<<i, j>> : i \in 0..2} : j \in 0..2}
          \cup {{<<i, i>> : i \in 0..2}, {<<i, 2 - i>> : i \in 0..2}}

\* Those check_winner could name: it returns one of them, or 0.
Winners(b) == {x \in Player : \E l \in Line : \A c \in l : b[c] = x}

\* is_board_full
Full(b) == \A c \in Cell : b[c] # Blank

\* Mutant: only a full board ends a game.
EndedWhenFull(b) == Full(b)
\* The game is over.
Ended(b) == Winners(b) # {} \/ Full(b)

Column == <<100..265, 266..532, 533..700>>
Row    == <<100..232, 233..365, 366..500>>

\* The cells whose part of the screen a point is in: one or none.
CellsAt == [p \in Point |-> {c \in Cell : p[1] \in Column[c[2] + 1] /\ p[2] \in Row[c[1] + 1]}]

OnPlay(p) == p[1] \in 350..450 /\ p[2] \in 300..350
OnExit(p) == p[1] \in 350..450 /\ p[2] \in 400..450

Init ==
    /\ board = EmptyBoard /\ player_x_turn = TRUE /\ state = "MENU"
    /\ queue = <<>> /\ redraw = TRUE /\ fresh = FALSE

-----------------------------------------------------------------------------
\* An event enters the queue.
Occurs(kind) ==
    /\ state # "QUIT" /\ Len(queue) < MaxQueue
    /\ queue' = Append(queue, kind)
    /\ UNCHANGED <<board, player_x_turn, state, redraw, fresh>>

\* What is drawn in state s.
View(s, b, x) == IF s = "MENU" THEN <<s>> ELSE <<s, b, x>>

\* Mutant: timer events are dropped.
AsksForRedrawNever(kind) == FALSE
AsksForRedraw(kind) == kind = "timer"

\* The loop takes an event of this kind from the queue ...
Takes(kind) ==
    /\ state # "QUIT" /\ queue # <<>> /\ Head(queue) = kind
    /\ queue' = Tail(queue)

\* ... and when it has been handled, draws if that is due.
Redraws(kind) ==
    LET due == redraw \/ AsksForRedraw(kind) IN
    IF due /\ queue' = <<>>
    THEN redraw' = FALSE /\ fresh' = TRUE
    ELSE /\ redraw' = due
         /\ fresh' = (fresh /\ View(state', board', player_x_turn')
                                 = View(state, board, player_x_turn))

Timer ==
    /\ Takes("timer")
    /\ UNCHANGED <<board, player_x_turn, state>>
    /\ Redraws("timer")

\* An input event that does nothing: another key or button, a click outside of
\* the buttons or the free cells.
Ignored ==
    /\ Takes("input")
    /\ UNCHANGED <<board, player_x_turn, state>>
    /\ Redraws("input")

CloseDisplay ==
    /\ Takes("input")
    /\ state' = "QUIT" /\ UNCHANGED <<board, player_x_turn>>
    /\ Redraws("input")

Escape ==
    /\ Takes("input")
    /\ state' = IF state = "PLAYING" THEN "MENU" ELSE "QUIT"
    /\ UNCHANGED <<board, player_x_turn>>
    /\ Redraws("input")

-----------------------------------------------------------------------------
\* A click on Play: reset_game and a new game.
ClickPlay(p) ==
    /\ Takes("input")
    /\ state = "MENU" /\ OnPlay(p) /\ state' = "PLAYING"
    /\ board' = EmptyBoard /\ player_x_turn' = TRUE
    /\ Redraws("input")

ClickExit(p) ==
    /\ Takes("input")
    /\ state = "MENU" /\ OnExit(p) /\ state' = "QUIT"
    /\ UNCHANGED <<board, player_x_turn>>
    /\ Redraws("input")

\* handle_board_click after the end of the game: back to the menu.
ClickEnded(p) ==
    /\ Takes("input")
    /\ state = "PLAYING" /\ Ended(board) /\ state' = "MENU"
    /\ UNCHANGED <<board, player_x_turn>>
    /\ Redraws("input")

\* Mutant: a cell that is taken is taken again.
MayTake(c) == TRUE
\* The cell c can be marked.
IsFree(c) == board[c] = Blank

\* handle_board_click on a free cell: the player's mark, and the turn passes.
ClickCell(p) ==
    /\ Takes("input")
    /\ state = "PLAYING" /\ ~Ended(board)
    /\ \E c \in CellsAt[p] :
          /\ IsFree(c)
          /\ board' = [board EXCEPT ![c] = IF player_x_turn THEN "X" ELSE "O"]
    /\ player_x_turn' = ~player_x_turn
    /\ UNCHANGED state
    /\ Redraws("input")

Click(p) == ClickPlay(p) \/ ClickExit(p) \/ ClickEnded(p) \/ ClickCell(p)

-----------------------------------------------------------------------------
\* One turn of the main loop.
Loop == Timer \/ Ignored \/ CloseDisplay \/ Escape \/ \E p \in Point : Click(p)

Next == Loop \/ \E kind \in {"timer", "input"} : Occurs(kind)

\* A turn that leaves the queue empty.
Catches == Loop /\ queue' = <<>>

\* The timer ticks (the bound on the queue does not keep it out for ever), the
\* loop turns, and it is faster than its events come: it finds the queue empty
\* again and again.
Fairness == SF_vars(Occurs("timer")) /\ WF_vars(Loop) /\ SF_vars(Catches)

Spec == Init /\ [][Next]_vars /\ Fairness

-----------------------------------------------------------------------------
TypeOK ==
    /\ board \in [Cell -> Player \cup {Blank}]
    /\ player_x_turn \in BOOLEAN /\ state \in {"MENU", "PLAYING", "QUIT"}
    /\ queue \in Seq({"timer", "input"}) /\ Len(queue) <= MaxQueue
    /\ redraw \in BOOLEAN /\ fresh \in BOOLEAN

Marked(x) == {c \in Cell : board[c] = x}

(***************************************************************************)
(* The board is one that fair play leads to: the marks differ by the turn, *)
(* and nobody has a line beside the other's, so that the winner that       *)
(* check_winner finds does not depend on the order it looks in, and is the *)
(* player who moved last.                                                  *)
(***************************************************************************)
Balanced ==
    Cardinality(Marked("X")) = Cardinality(Marked("O")) + IF player_x_turn THEN 0 ELSE 1

WinnerMovedLast == Winners(board) \subseteq {IF player_x_turn THEN "O" ELSE "X"}

FairPlay == Balanced /\ WinnerMovedLast

(***************************************************************************)
(* A mark stands, and a board on which the game is over changes no more,   *)
(* until a new game is begun in the menu.                                  *)
(***************************************************************************)
MovesStand ==
    [][ \/ board' = board
        \/ state = "MENU" /\ board' = EmptyBoard
        \/ ~Ended(board) /\ \A c \in Cell : board[c] # Blank => board'[c] = board[c] ]_vars

(***************************************************************************)
(* Whatever is clicked before the screen is drawn again, the screen shows  *)
(* the game as it is in the end, or the program ends.                      *)
(***************************************************************************)
ScreenCatchesUp == ~fresh ~> (fresh \/ state = "QUIT")
==============================================================================
