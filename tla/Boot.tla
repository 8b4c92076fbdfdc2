-------------------------------- MODULE Boot --------------------------------
(***************************************************************************)
(* The boot loader (src/boot/boot.toy) on the disks that BlockFS leaves:   *)
(* the machine stops at any point, between two calls or between two writes *)
(* of a call, then the loader looks for the kernel in the list of files    *)
(* and loads its blocks, one after the other, each over the last word of   *)
(* the one before.                                                         *)
(*                                                                         *)
(* The memory of the loader is smaller than the disk, and the loader does  *)
(* not compare the file with it: a kernel that is too large goes over the  *)
(* memory that follows.                                                    *)
(*                                                                         *)
(* The model ends when the loader jumps to the kernel, or overruns its     *)
(* memory.  The UEFI services that locate the disk and allocate the memory *)
(* are left out.                                                           *)
(***************************************************************************)
EXTENDS BlockFS

CONSTANTS
  KernelName,  \* KERNEL_NAME: the name of the file that contains the kernel
  MemorySize   \* cells of the memory that the loader allocates

BootAssumption ==
  /\ KernelName \in Names
  /\ MemorySize \in Nat /\ MemorySize >= BlockSize

ASSUME BootAssumption

VARIABLES
  step,    \* "off", the next step of the loader, "run", "error" or "overrun"
  memory,  \* the memory from ptr
  block,   \* the block to read, as a number or as found in next_block
  at       \* disk_block: where the last block read is in memory

loader == <<step, memory, block, at>>
system == <<disk, buffer, pc, call, writer, reader>>
bootVars == <<vars, loader>>

\* The memory with the contents of a block of the disk at address a.
Loaded(b, a) ==
  [i \in DOMAIN memory |-> IF i \in a .. a + BlockSize - 1 THEN disk[b][i - a] ELSE memory[i]]

-----------------------------------------------------------------------------
\* The machine stops, whatever it does, and starts again.
Restart ==
  /\ step = "off"
  /\ step' = "find"
  /\ block' = SUPER_BLOCK
  /\ UNCHANGED <<memory, at, system>>

\* The list of files is followed by next_block.
WrongFindKernel ==
  LET b == disk[block] IN
  /\ step = "find" /\ block \in Blocks
  /\ memory' = Loaded(block, 0)
  /\ at' = 0
  /\ \/ Name(b) = KernelName /\ step' = "load" /\ block' = b[0]
     \/ Name(b) # KernelName /\ step' = "find" /\ block' = block_get_next(b)
  /\ UNCHANGED system

\* One block of the list of files, from the super block.  At the end of the
\* list, next_file is the number of the super block: the loader goes on.
FindKernel ==
  LET b == disk[block] IN
  /\ step = "find" /\ block \in Blocks
  /\ memory' = Loaded(block, 0)
  /\ at' = 0
  /\ \/ Name(b) = KernelName /\ step' = "load" /\ block' = b[0]
     \/ Name(b) # KernelName /\ step' = "find" /\ block' = NextFile(b)
  /\ UNCHANGED system

\* A block that is not on the disk: the loader stops, with a message.  The list of
\* files goes through old data only after a crash in step fill (see HalfLinked).
FindError ==
  /\ step = "find" /\ block \notin Blocks
  /\ step' = "error"
  /\ UNCHANGED <<memory, block, at, system>>

\* A block at address a is in the memory of the loader.
HasRoom(a) == a + BlockSize <= MemorySize

\* The word that the next block overwrites is not put back.
WrongLoadBlock ==
  LET next == at + BlockSize - 1
      image == Loaded(block - BlockSize, next)
  IN
  /\ step = "load" /\ block > BlockSize
  /\ HasRoom(next)
  /\ block' = image[next]
  /\ memory' = image
  /\ at' = next
  /\ UNCHANGED <<step, system>>

\* The word at the end of a block, which the next block overwrites, is kept
\* and put back.
LoadBlock ==
  LET next == at + BlockSize - 1
      backup == memory[next]
      image == Loaded(block - BlockSize, next)
  IN
  /\ step = "load" /\ block > BlockSize
  /\ HasRoom(next)
  /\ block' = image[next]
  /\ memory' = [image EXCEPT ![next] = backup]
  /\ at' = next
  /\ UNCHANGED <<step, system>>

\* The next block goes beyond the end of the memory.  What follows is left open.
LoadPast ==
  /\ step = "load" /\ block > BlockSize
  /\ ~ HasRoom(at + BlockSize - 1)
  /\ step' = "overrun"
  /\ UNCHANGED <<memory, block, at, system>>

\* The kernel is given its own code and the memory after it, its heap.
RunKernel ==
  /\ step = "load" /\ block <= BlockSize
  /\ step' = "run"
  /\ UNCHANGED <<memory, block, at, system>>

BootInit ==
  /\ Init
  /\ step = "off" /\ memory = [i \in 0 .. MemorySize - 1 |-> 0]
  /\ block = SUPER_BLOCK /\ at = 0

Loader == FindKernel \/ FindError \/ LoadBlock \/ LoadPast \/ RunKernel

BootNext ==
  \/ step = "off" /\ Next /\ UNCHANGED loader
  \/ Restart
  \/ Loader

\* The loader has the machine for itself.
BootSpec == BootInit /\ [][BootNext]_bootVars /\ WF_bootVars(Loader)

-----------------------------------------------------------------------------
(***************************************************************************)
(* Properties.                                                             *)
(***************************************************************************)
code == HeaderSize(KernelName)
heap == at + block
Kernels == {f \in Listed(disk) : Name(disk[f]) = KernelName}

(***************************************************************************)
(* The memory from code to heap is the kernel file, for all the sizes of   *)
(* this file: the one found on the disk, and the one that was there before *)
(* the interrupted call, if this call is not about the kernel.  The list   *)
(* of files goes through old data after a crash in step fill only, and the *)
(* loader may then start this data, even with a heap before the code.  The *)
(* loader overruns its memory only with a kernel that does not fit in it,  *)
(* its last block whole.                                                   *)
(***************************************************************************)
KernelLoaded ==
  /\ step = "run" =>
       \E f \in Kernels :
         LET image == [i \in 1 .. heap - code |-> memory[code + i - 1]] IN
         /\ image = Data(disk, f)
         /\ f \in DOMAIN call.before \ {call.file} => image = call.before[f].data
         /\ ~ HalfLinked => heap >= code
  /\ step = "overrun" =>
       \E f \in Kernels : MemorySize < code + Len(Data(disk, f)) + BlockSize

(***************************************************************************)
(* The loader starts the kernel, or finds that its memory is too small for *)
(* it, whenever it is in the list of files. It is there after any crash in *)
(* a call about another file, except when this file was being put before   *)
(* it in the list (see OthersSurvive).                                     *)
(***************************************************************************)
KernelWasThere ==
  \E f \in DOMAIN call.before \ {call.file} : call.before[f].name = KernelName

KernelStarts ==
  step = "find" /\ (Kernels # {} \/ (KernelWasThere /\ ~ HalfLinked))
    ~> step \in {"run", "overrun"}
=============================================================================
