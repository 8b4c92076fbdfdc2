------------------------------ MODULE MCBlockFS ------------------------------
(***************************************************************************)
(* Small instances of BlockFS for TLC.  A block has 4 cells: the first one *)
(* of a file has room for one byte of data, or for none when the name has  *)
(* the largest size, and each other one has room for 3.                    *)
(***************************************************************************)
EXTENDS BlockFS, TLC

MCNameSize == [n \in Names |-> IF n = 1 THEN 1 ELSE 2]
MCWrites == {<<2, 1, 2>>}
MCBytes == 0 .. 3
=============================================================================
