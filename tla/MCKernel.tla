------------------------------ MODULE MCKernel ------------------------------
(***************************************************************************)
(* Small instances of Kernel for TLC.  A page has 4 bytes, a word and the  *)
(* smallest stack 1 byte; the kernel heap ends at address 4, the memory at *)
(* address 20; pages 0 to 3, and 4 to 7, have one upper level entry.       *)
(***************************************************************************)
EXTENDS Kernel, TLC

MCTableOf == [a \in Pages |-> a \div 4]
MCOneBuffer == {[ptr |-> 13, size |-> 1]}
MCShortWrites == {<<>>, <<0>>}
MCNoFirstChunk == [n \in Names |-> 0]
MCOneSpawn ==
  {[dst |-> 11, name |-> 2, namePtr |-> 9, args |-> 9, argsLength |-> 0,
    outputAt |-> 18, output |-> 11, stackPointer |-> 18]}
MCManySpawns ==
  {[dst |-> d, name |-> 2, namePtr |-> 13, args |-> a, argsLength |-> l,
    outputAt |-> w, output |-> o, stackPointer |-> s] :
     d \in {8, 11}, s \in {7, 19, 20, 27}, o \in {4, 8, 11},
     a \in {10, 16}, l \in {0, 2, 3}, w \in {9, 19}}
MCGoodAndBadBuffers == {[ptr |-> 13, size |-> 1], [ptr |-> 13, size |-> 2],
  [ptr |-> 13, size |-> 0], [ptr |-> 2, size |-> 1]}
MCShellOnly == 1 :> [name |-> 2, data |-> <<0>>]

\* Results are not looked at by the system calls: two states that differ in
\* them only have the same steps.  (TLC checks each step, not each new state,
\* against the action properties.)
MCView ==
  <<mode, [i \in DOMAIN procs |-> [procs[i] EXCEPT !.r8 = OK]],
    heap, userPages, userTables, honest, files>>
=============================================================================
