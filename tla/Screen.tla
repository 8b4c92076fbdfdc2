------------------------------- MODULE Screen -------------------------------
(***************************************************************************)
(* The screen driver (src/toys/drivers.toy), as the programs call it       *)
(* through src/gpu.toy.  Its state is a record gpu, with two screens: the  *)
(* one on which the driver draws, and the one that is visible.             *)
(*                                                                         *)
(* A color is a pair, the background and the foreground.  (The definitions *)
(* whose name starts with wrong are mutated forms of the next one.)        *)
(***************************************************************************)
EXTENDS Integers

CONSTANTS
  NumCols, NumRows,  \* NUM_COLS, NUM_ROWS: the characters of the screen
  Space              \* the character ' '

ASSUME ScreenAssumption ==
  NumCols \in Nat \ {0} /\ NumRows \in Nat \ {0}

BLACK == 0
GREEN == 2
YELLOW == 14
Foreground(color) == <<BLACK, color>>

\* The framebuffer: position c + r * NumCols for the column c of the row r.
Positions == 0 .. NumCols * NumRows - 1
At(col, row) == col + row * NumCols
OnScreen(col, row) == col \in 0 .. NumCols - 1 /\ row \in 0 .. NumRows - 1

Blank == [p \in Positions |-> [char |-> Space, color |-> <<BLACK, BLACK>>]]

gpu_new ==
  [col |-> 0, row |-> 0, color |-> Foreground(GREEN), draw |-> Blank, shown |-> Blank]

gpu_set_cursor(gpu, c, r) ==
  IF OnScreen(c, r) THEN [gpu EXCEPT !.col = c, !.row = r] ELSE gpu

\* The character keeps its place; its colors become the current ones, swapped.
gpu_draw_cursor(gpu, c, r) ==
  IF OnScreen(c, r)
    THEN [gpu EXCEPT !.draw[At(c, r)].color = <<gpu.color[2], gpu.color[1]>>]
    ELSE gpu

gpu_set_color(gpu, color) == [gpu EXCEPT !.color = color]

\* The visible screen is cleared, the other one keeps its characters.
wrong_gpu_clear_screen(gpu) == [gpu EXCEPT !.shown = Blank]

gpu_clear_screen(gpu) == [gpu EXCEPT !.draw = Blank]

\* After the last column comes the next row, after the last row the first.
gpu_draw_char(gpu, c) ==
  LET next == (At(gpu.col, gpu.row) + 1) % (NumCols * NumRows) IN
  [gpu EXCEPT !.draw[At(gpu.col, gpu.row)] = [char |-> c, color |-> gpu.color],
              !.col = next % NumCols,
              !.row = next \div NumCols]

gpu_switch_buffer(gpu) == [gpu EXCEPT !.shown = gpu.draw]
=============================================================================
