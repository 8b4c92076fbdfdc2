------------------------------ MODULE MCSnake ------------------------------
(***************************************************************************)
(* Small boards for TLC, on which a snake of two cells can grow until it   *)
(* fills the board.                                                        *)
(***************************************************************************)
EXTENDS Snake, TLC
=============================================================================
