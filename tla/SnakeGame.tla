------------------------------ MODULE SnakeGame ------------------------------
(***************************************************************************)
(* The rules of the game of snake, as a player sees them.  The module      *)
(* Snake shows that src/snake/snake.toy plays by these rules.              *)
(***************************************************************************)
EXTENDS Integers, Sequences

CONSTANTS
  Width, Height,  \* cells of the board
  FirstBody       \* the snake when the game starts, from its head to its tail

Cells == (0 .. Width - 1) \X (0 .. Height - 1)

LEFT == 0
RIGHT == 1
UP == 2
DOWN == 3
Directions == {LEFT, RIGHT, UP, DOWN}

\* The cell next to c in a direction; it may be outside of the board.
Neighbor(c, d) ==
  CASE d = LEFT  -> <<c[1] - 1, c[2]>>
    [] d = RIGHT -> <<c[1] + 1, c[2]>>
    [] d = UP    -> <<c[1], c[2] - 1>>
    [] d = DOWN  -> <<c[1], c[2] + 1>>

CellsOf(b) == {b[i] : i \in DOMAIN b}

VARIABLES
  body,   \* the cells of the snake, from its head to its tail
  apple,  \* the cell of the apple
  over    \* whether the game is over

Init ==
  /\ body = FirstBody
  /\ apple \in Cells \ CellsOf(FirstBody)
  /\ over = FALSE

\* The snake hits a wall or itself, its tail included.
Die(d) ==
  /\ Neighbor(body[1], d) \notin Cells \ CellsOf(body)
  /\ over' = TRUE
  /\ UNCHANGED <<body, apple>>

\* The snake grows, unless it fills the board.
Eat(d) ==
  LET longer == <<apple>> \o body IN
  /\ Neighbor(body[1], d) = apple
  /\ \/ /\ CellsOf(longer) = Cells
        /\ over' = TRUE
        /\ UNCHANGED <<body, apple>>
     \/ /\ apple' \in Cells \ CellsOf(longer)
        /\ body' = longer
        /\ UNCHANGED over

Move(d) ==
  LET head == Neighbor(body[1], d) IN
  /\ head \in Cells \ (CellsOf(body) \cup {apple})
  /\ body' = <<head>> \o SubSeq(body, 1, Len(body) - 1)
  /\ UNCHANGED <<apple, over>>

Quit == over' = TRUE /\ UNCHANGED <<body, apple>>

Next == ~ over /\ (Quit \/ \E d \in Directions : Die(d) \/ Eat(d) \/ Move(d))

Spec == Init /\ [][Next]_<<body, apple, over>>
=============================================================================
