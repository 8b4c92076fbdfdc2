------------------------------ MODULE MCImages ------------------------------
(***************************************************************************)
(* Small instances of Images for TLC: blocks of 4 cells, as in MCBlockFS,  *)
(* 3 of them for data.  Files with nothing, with a sector, with all that   *)
(* their blocks can hold and with more than the disk can.                  *)
(***************************************************************************)
EXTENDS Images, TLC

MCNameSize == [n \in Names |-> 1]
\* 4 is not the number of a block.
MCWrites == {<<2, 4, 1, 2>>}
MCBytes == 0 .. 4

MCFileNumber == ("base" :> 1) @@ ("bin/toys" :> 2) @@ ("src/LICENSE" :> 3)
MCPaths == {"bin/base", "bin/toys", "LICENSE", "bin/"}
\* Lines that end at the end of a sector, or cross it.
MCData(size, k) == [i \in 1 .. size |-> IF i % 4 = k THEN 3 ELSE 1 + (i % 2)]
MCFiles(sizes, k) == {[path |-> p, data |-> MCData(s, k)] : p \in MCPaths, s \in sizes}
MCArguments ==
  {<<f>> : f \in MCFiles({0, 4, 7, 8}, 0)}
    \cup {<<f, g>> : f \in MCFiles({0, 4, 7}, 0), g \in MCFiles({0, 4, 8}, 1)}

\* Boot loaders and Toys file systems: empty, too large, not in whole sectors,
\* in one cluster or in several, too many for the table or for makefatfs.
MCOtherFiles ==
  {<<0, 16>>, <<17, 16>>, <<16, 15>>, <<7, 0>>, <<1, 4>>, <<16, 16>>, <<9, 36>>, <<16, 48>>,
   <<16, 64>>, <<4, 96>>, <<16, 240>>}
=============================================================================
