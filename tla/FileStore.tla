------------------------------ MODULE FileStore ------------------------------
(***************************************************************************)
(* What the Toys file system promises to its clients: a set of named       *)
(* files, each a sequence of bytes that only grows at its end, listed in   *)
(* name order.  A file is known by its number, the first disk block of     *)
(* the file in filesystem.toy; 0 (NoFile) is the null block number.        *)
(*                                                                         *)
(* The kernel (module Kernel) is written on top of this store, and the     *)
(* block level file system (module BlockFS) implements it.                 *)
(***************************************************************************)
EXTENDS Naturals, Sequences

CONSTANTS
  FileIds,     \* the numbers a file can have: blocks other than the super block
  Names,       \* the file names; their byte order is the order of numbers
  Bytes,       \* the values a byte of a file can have
  FirstChunk,  \* FirstChunk[n]: bytes in the first block of a file named n
  Chunk,       \* bytes in every other block of a file
  Writes,      \* the sequences of bytes a client can ask to write
  Image        \* the files of the disk image the system is installed with

NoFile == 0

File == [name : Names, data : Seq(Bytes)]

StoreAssumption ==
  /\ FileIds \subseteq Nat \ {NoFile}
  /\ Names \subseteq Nat
  /\ FirstChunk \in [Names -> Nat]
  /\ Chunk \in Nat \ {0}
  /\ Writes \subseteq Seq(Bytes)
  /\ \E S \in SUBSET FileIds : Image \in [S -> File]
  /\ \A f, g \in DOMAIN Image : Image[f].name = Image[g].name => f = g

VARIABLE files  \* files[f], for each existing file f: its name and its bytes

Live == DOMAIN files

StoreTypeOK == \E S \in SUBSET FileIds : files \in [S -> File]

(***************************************************************************)
(* Two existing files never have the same name.                            *)
(***************************************************************************)
UniqueNames == \A f, g \in Live : files[f].name = files[g].name => f = g

-----------------------------------------------------------------------------
(***************************************************************************)
(* Queries.  Each says which file (or NoFile) is an answer.                *)
(***************************************************************************)

\* f is the file named n, or NoFile if there is none.
IsFile(n, f) ==
  \/ f \in Live /\ files[f].name = n
  \/ f = NoFile /\ \A g \in Live : files[g].name # n

\* f is the first of the files of S in name order, or NoFile if S is empty.
IsFirst(S, f) ==
  \/ f \in S /\ \A g \in S : files[f].name <= files[g].name
  \/ f = NoFile /\ S = {}

\* The files whose name comes after that of file f.
After(f) == {g \in Live : files[g].name > files[f].name}

\* A file of len bytes named n ends at the end of one of its blocks.
FillsItsBlocks(n, len) ==
  \E k \in 0 .. len : len = FirstChunk[n] + k * Chunk

\* Where the data in the last block of a file of len bytes named n begins.
LastBlockStart(n, len) ==
  IF len <= FirstChunk[n]
    THEN 0
    ELSE FirstChunk[n] + ((len - FirstChunk[n] - 1) \div Chunk) * Chunk

-----------------------------------------------------------------------------
(***************************************************************************)
(* Updates.                                                                *)
(***************************************************************************)

\* Make an empty file f named n.
Create(f, n) ==
  /\ f \in FileIds \ Live
  /\ \A g \in Live : files[g].name # n
  /\ files' = [g \in Live \cup {f} |->
                 IF g = f THEN [name |-> n, data |-> <<>>] ELSE files[g]]

\* Remove every byte of file f.
Clear(f) ==
  /\ f \in Live
  /\ files' = [files EXCEPT ![f].data = <<>>]

\* Add the bytes src at the end of file f.
Extend(f, src) ==
  /\ f \in Live
  /\ files' = [files EXCEPT ![f].data = @ \o src]

\* Start adding the bytes src and run out of blocks: either no block was
\* left and the file is as before, or the file keeps the bytes that fill its
\* blocks but the last, whose bytes were never written: it keeps whatever was
\* on the disk there.
ExtendShort(f, src) ==
  \/ f \in Live /\ Len(src) > 0 /\ UNCHANGED files
  \/ \E n \in 0 .. Len(src) - 1, junk \in [1 .. Chunk -> Bytes] :
       /\ f \in Live
       /\ FillsItsBlocks(files[f].name, Len(files[f].data) + n)
       /\ files' = [files EXCEPT ![f].data =
                      @ \o (SubSeq(src, 1, n) \o junk)]

\* Remove file f.
Delete(f) ==
  /\ f \in Live
  /\ files' = [g \in Live \ {f} |-> files[g]]

-----------------------------------------------------------------------------
Init == files = Image

Next ==
  \/ \E f \in FileIds, n \in Names : Create(f, n)
  \/ \E f \in Live : Clear(f) \/ Delete(f)
  \/ \E f \in Live, src \in Writes : Extend(f, src) \/ ExtendShort(f, src)

Spec == Init /\ [][Next]_files
=============================================================================
