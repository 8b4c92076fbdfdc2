-------------------------------- MODULE Snake --------------------------------
(***************************************************************************)
(* The game of snake (src/snake/snake.toy).  The program does not store    *)
(* the snake as a list: each cell of its body holds the direction of the   *)
(* next one, towards the head, and the other cells hold their index, plus  *)
(* 4, in an array of the free cells, from which the apple is drawn.        *)
(*                                                                         *)
(* The seed of the random numbers is a field of the game that is never     *)
(* initialised: the apple is any free cell.  The text of the score is left *)
(* out.                                                                    *)
(***************************************************************************)
EXTENDS Integers, Sequences

CONSTANTS
  Width, Height,  \* WIDTH, HEIGHT: cells of the board (50, 29)
  TailOffset      \* cells from the head to the tail when the game starts (5)

FirstHead == <<Width \div 2, Height \div 2>>

SnakeAssumption ==
  /\ Width \in Nat /\ Height \in Nat /\ TailOffset \in Nat \ {0}
  /\ FirstHead[1] + TailOffset < Width
  /\ FirstHead[2] < Height - 1

ASSUME SnakeAssumption

Cells == (0 .. Width - 1) \X (0 .. Height - 1)

LEFT == 0
RIGHT == 1
UP == 2
DOWN == 3
Directions == {LEFT, RIGHT, UP, DOWN}

BLACK == "black"
GREEN == "green"
RED == "red"

VARIABLES
  board,      \* board.state: cell_states; board.free: the free cells, that
              \* is, the num_free_cells first coordinates of free_cells
  head, tail, apple, direction, score,
  screen,     \* the color of each cell
  running     \* whether main is in its loop

vars == <<board, head, tail, apple, direction, score, screen, running>>

-----------------------------------------------------------------------------
\* An index of free_cells is one less than the place in the sequence.
game_free_cell(b, c) ==
  [state |-> [b.state EXCEPT ![c] = Len(b.free) + 4], free |-> Append(b.free, c)]

\* The cell that takes the place of c in the list is not told.
WrongUseCell(b, c, d) ==
  LET index == b.state[c] - 4
      last == b.free[Len(b.free)]
  IN [state |-> [b.state EXCEPT ![c] = d],
      free |-> SubSeq([b.free EXCEPT ![index + 1] = last], 1, Len(b.free) - 1)]

\* When c is the last free cell its state is set twice: it looks free, until
\* the next update gives it a direction.
game_use_cell(b, c, d) ==
  LET index == b.state[c] - 4
      last == b.free[Len(b.free)]
  IN [state |-> [b.state EXCEPT ![c] = d, ![last] = index + 4],
      free |-> SubSeq([b.free EXCEPT ![index + 1] = last], 1, Len(b.free) - 1)]

game_new ==
  [state |-> [c \in Cells |-> c[1] + c[2] * Width + 4],
   free |-> [i \in 1 .. Width * Height |-> <<(i - 1) % Width, (i - 1) \div Width>>]]

FirstCells == [k \in 0 .. TailOffset |-> <<FirstHead[1] + k, FirstHead[2]>>]

FirstBoard ==
  LET use[k \in 0 .. TailOffset] ==
        game_use_cell(IF k = 0 THEN game_new ELSE use[k - 1], FirstCells[k], LEFT)
  IN use[TailOffset]

\* game_new_apple: the apple is one of the free cells of board b.
NewApple(b) == \E i \in DOMAIN b.free : apple' = b.free[i]

FirstScreen ==
  [c \in Cells |-> IF \E k \in DOMAIN FirstCells : c = FirstCells[k] THEN GREEN ELSE BLACK]

\* game_init, after game_new.
Init ==
  /\ board = FirstBoard
  /\ head = FirstHead
  /\ tail = FirstCells[TailOffset]
  /\ direction = LEFT
  /\ score = 0
  /\ \E i \in DOMAIN board.free : apple = board.free[i]
  /\ screen = [FirstScreen EXCEPT ![apple] = RED]
  /\ running = TRUE

-----------------------------------------------------------------------------
(***************************************************************************)
(* game_update, for a direction that the player may have just changed.     *)
(***************************************************************************)
Neighbor(c, d) ==
  CASE d = LEFT  -> <<c[1] - 1, c[2]>>
    [] d = RIGHT -> <<c[1] + 1, c[2]>>
    [] d = UP    -> <<c[1], c[2] - 1>>
    [] d = DOWN  -> <<c[1], c[2] + 1>>
    [] OTHER     -> c

Turn(d) == running /\ direction' = d

HitWall(d) ==
  /\ Turn(d)
  /\ Neighbor(head, d) \notin Cells
  /\ running' = FALSE
  /\ UNCHANGED <<board, head, tail, apple, score, screen>>

\* The head has moved when the function finds the body there.
HitBody(d) ==
  LET next == Neighbor(head, d) IN
  /\ Turn(d)
  /\ next \in Cells /\ board.state[next] < 4
  /\ head' = next
  /\ running' = FALSE
  /\ UNCHANGED <<board, tail, apple, score, screen>>

\* The head moves to a free cell, on the board and on the screen.
Advanced(d) ==
  game_use_cell([board EXCEPT !.state[head] = d], Neighbor(head, d), LEFT)

CanAdvance(d) ==
  LET next == Neighbor(head, d) IN
  /\ Turn(d)
  /\ next \in Cells /\ board.state[next] >= 4
  /\ head' = next

EatApple(d) ==
  LET b == Advanced(d) IN
  /\ CanAdvance(d) /\ head' = apple
  /\ board' = b
  /\ UNCHANGED tail
  /\ \/ /\ b.free = <<>>
        /\ running' = FALSE
        /\ screen' = [screen EXCEPT ![head'] = GREEN]
        /\ UNCHANGED <<apple, score>>
     \/ /\ b.free # <<>>
        /\ NewApple(b)
        /\ screen' = [screen EXCEPT ![head'] = GREEN, ![apple'] = RED]
        /\ score' = score + 1
        /\ UNCHANGED running

\* The tail is erased where it goes to.
WrongMoveTail(d) ==
  LET b == Advanced(d) IN
  /\ CanAdvance(d) /\ head' # apple
  /\ board' = game_free_cell(b, tail)
  /\ tail' = Neighbor(tail, b.state[tail])
  /\ screen' = [screen EXCEPT ![head'] = GREEN, ![tail'] = BLACK]
  /\ UNCHANGED <<apple, score, running>>

\* The tail follows the direction of the head.
WrongDirectionMoveTail(d) ==
  LET b == Advanced(d) IN
  /\ CanAdvance(d) /\ head' # apple
  /\ board' = game_free_cell(b, tail)
  /\ tail' = Neighbor(tail, d)
  /\ screen' = [screen EXCEPT ![head'] = GREEN, ![tail] = BLACK]
  /\ UNCHANGED <<apple, score, running>>

MoveTail(d) ==
  LET b == Advanced(d) IN
  /\ CanAdvance(d) /\ head' # apple
  /\ board' = game_free_cell(b, tail)
  /\ tail' = Neighbor(tail, b.state[tail])
  /\ screen' = [screen EXCEPT ![head'] = GREEN, ![tail] = BLACK]
  /\ UNCHANGED <<apple, score, running>>

\* The escape key.
Escape ==
  /\ running
  /\ running' = FALSE
  /\ UNCHANGED <<board, head, tail, apple, direction, score, screen>>

Next ==
  \/ \E d \in Directions : HitWall(d) \/ HitBody(d) \/ EatApple(d) \/ MoveTail(d)
  \/ Escape

Spec == Init /\ [][Next]_vars

-----------------------------------------------------------------------------
(***************************************************************************)
(* Properties.                                                             *)
(***************************************************************************)
(***************************************************************************)
(* The list of free cells and the indices in the cells agree: a cell is    *)
(* free if and only if it is in the list, once, at its index.  The state   *)
(* of the head is not in use.                                              *)
(***************************************************************************)
FreeListExact ==
  /\ \A i \in DOMAIN board.free : board.state[board.free[i]] = i + 3
  /\ running => \A c \in Cells \ {head} :
       board.state[c] >= 4 =>
         /\ board.state[c] - 3 \in DOMAIN board.free
         /\ board.free[board.state[c] - 3] = c

(***************************************************************************)
(* The program plays by the rules of SnakeGame.  The body is made of the   *)
(* cells found from the tail, following the directions: this uses neither  *)
(* head, which no longer matters after the end, nor the free cells.        *)
(***************************************************************************)
Length == score + TailOffset + 1

\* The n cells found from t on, following the directions in state, the last one first.
Follow(t, state, n) ==
  LET from[k \in 1 .. n] ==
        IF k = 1 THEN t ELSE Neighbor(from[k - 1], state[from[k - 1]])
  IN [k \in 1 .. n |-> from[n + 1 - k]]

Body == Follow(tail, board.state, Length)

Game == INSTANCE SnakeGame WITH
  FirstBody <- [k \in 1 .. TailOffset + 1 |-> FirstCells[k - 1]],
  body <- Body, over <- ~ running

GameSpec == Game!Spec

(***************************************************************************)
(* The screen is only ever changed where something moves: it shows the     *)
(* snake, the apple and nothing else, until the game is over.              *)
(***************************************************************************)
ScreenShowsGame ==
  running => screen =
    [c \in Cells |-> IF c \in Game!CellsOf(Body) THEN GREEN
                     ELSE IF c = apple THEN RED ELSE BLACK]

(***************************************************************************)
(* What makes these inductive: the body is made of different cells of the  *)
(* board, none of them in the list of free cells; every cell is in one of  *)
(* them, until the game is over; the apple is free.                        *)
(***************************************************************************)
States == [Cells -> Nat]
Boards == [state : States, free : Seq(Cells)]

TypeOK ==
  /\ board \in Boards
  /\ head \in Cells /\ tail \in Cells /\ apple \in Cells
  /\ direction \in Directions
  /\ score \in Nat
  /\ screen \in [Cells -> {BLACK, GREEN, RED}]
  /\ running \in BOOLEAN

\* The cells in a list, and a board whose list agrees with its states.
Listed(list) == {list[i] : i \in DOMAIN list}
ListSound(b) == \A i \in DOMAIN b.free : b.state[b.free[i]] = i + 3

\* b is a body that ends at t, and follows the directions in state.
IsBody(b, t, state) ==
  /\ b \in Seq(Cells) /\ Len(b) > 1
  /\ b[Len(b)] = t
  /\ \A k \in 2 .. Len(b) : state[b[k]] \in Directions /\ b[k - 1] = Neighbor(b[k], state[b[k]])
  /\ \A j, k \in 1 .. Len(b) : b[j] = b[k] => j = k

SnakeInvariant ==
  /\ TypeOK
  /\ ListSound(board)
  /\ IsBody(Body, tail, board.state)
  /\ Len(Body) = Length
  /\ Game!CellsOf(Body) \cap Listed(board.free) = {}
  /\ running => /\ head = Body[1]
                /\ Game!CellsOf(Body) \cup Listed(board.free) = Cells
                /\ apple \in Listed(board.free)
                /\ ScreenShowsGame
=============================================================================
