------------------------------- MODULE BlockFS -------------------------------
(***************************************************************************)
(* The Toys file system on its disk blocks: the functions of               *)
(* tools/toys/filesystem.c, used by the host programs, are those of        *)
(* src/toys/filesystem.toy, used by the kernel, whose system calls are     *)
(* reduced to their file system part.  The disk of a host program is an    *)
(* image in its memory.                                                    *)
(*                                                                         *)
(* A block is an array of cells, the unit of the model for the 512 bytes   *)
(* of the code: cell 0 is next_block, cell 1 is next_file and the name,    *)
(* with its length, starts at cell 2.  These are cells of the same array   *)
(* as the data, as in the code: what is read as a header may be the data   *)
(* of an old file.  There is one block buffer, shared by all functions.    *)
(*                                                                         *)
(* A call runs alone, but the machine can stop between two of its writes   *)
(* to the disk.  A step of the model is a part of a function with at most  *)
(* one write, or one iteration of a loop; the invariants about the disk    *)
(* hold after each step, when the disk is what a reboot would find.        *)
(***************************************************************************)
EXTENDS Integers, Sequences

CONSTANTS
  NumBlocks,  \* number of blocks of the disk, the super block included
  BlockSize,  \* cells in a block (512)
  Names,      \* the file names; their byte order is the order of numbers
  NameSize,   \* NameSize[n]: cells of a name and its length
  Bytes,      \* the values of a cell that is read as data: those that clients
              \* write, and the names and the numbers of old headers
  Writes,     \* input: the sequences of bytes a client writes
  ReadSizes,  \* input: the sizes a client reads
  Ops         \* bound: the calls that clients make

BlockFSAssumption ==
  /\ NumBlocks \in Nat \ {0}
  /\ BlockSize \in Nat /\ BlockSize > 2
  /\ Names \subseteq Nat \ {0}
  /\ NameSize \in [Names -> Nat \ {0}]
  /\ \A n \in Names : 2 + NameSize[n] <= BlockSize
  /\ Bytes \subseteq Nat
  /\ 0 .. NumBlocks - 1 \subseteq Bytes /\ Names \subseteq Bytes
  /\ Writes \subseteq Seq(Bytes)
  /\ ReadSizes \subseteq Nat \ {0}
  /\ Ops \subseteq {"stat", "open_read", "open_write", "delete", "read", "write",
                   "create"}

ASSUME BlockFSAssumption

VARIABLES
  disk,    \* the blocks of the disk
  buffer,  \* the block buffer
  pc,      \* the next step of the current call, or "idle"
  call,    \* the arguments and the local variables of the current call
  writer,  \* writer[f]: current_block of the stream that writes f, 0 if none
  reader   \* the file and the position of a stream that reads, if any

vars == <<disk, buffer, pc, call, writer, reader>>

-----------------------------------------------------------------------------
(***************************************************************************)
(* Blocks.                                                                 *)
(***************************************************************************)
SUPER_BLOCK == 0
Blocks == SUPER_BLOCK .. NumBlocks - 1
FileIds == Blocks \ {SUPER_BLOCK}
Offsets == 0 .. BlockSize - 1

NextFile(b) == b[1]
Name(b) == b[2]
HeaderSize(n) == 2 + NameSize[n]

block_size(b) == b[0]
block_get_next(b) == IF b[0] <= BlockSize THEN 0 ELSE b[0] - BlockSize
block_set_next(b, next) == [b EXCEPT ![0] = next + BlockSize]

\* The n bytes of block b from offset at.
CopyFrom(b, at, n) == [i \in 1 .. n |-> b[at + i - 1]]

\* Block b with the bytes src at offset at.
CopyTo(b, at, src) ==
  [i \in Offsets |-> IF at <= i /\ i < at + Len(src) THEN src[i - at + 1] ELSE b[i]]

\* Block b as the only block of an empty file named n, before the file next.
FileHeader(b, n, next) ==
  [CopyTo(b, 2, [i \in 1 .. NameSize[n] |-> n])
     EXCEPT ![0] = HeaderSize(n), ![1] = next]

ReadBlock(block) == buffer' = disk[block] /\ UNCHANGED disk
WriteBlock(block, b) == buffer' = b /\ disk' = [disk EXCEPT ![block] = b]

-----------------------------------------------------------------------------
(***************************************************************************)
(* What a disk contains.                                                   *)
(***************************************************************************)

\* A block number found on the disk; other values are not followed.
Valid(block) == IF block \in FileIds THEN block ELSE 0

\* The blocks from a first one along next_block, and the files along next_file.
Chain(d, first) ==
  LET walk[k \in 0 .. NumBlocks] ==
        IF k = 0 THEN Valid(first)
        ELSE IF walk[k - 1] = 0 THEN 0
        ELSE Valid(block_get_next(d[walk[k - 1]]))
  IN walk

FileChain(d) ==
  LET walk[k \in 0 .. NumBlocks] ==
        IF k = 0 THEN Valid(NextFile(d[SUPER_BLOCK]))
        ELSE IF walk[k - 1] = 0 THEN 0
        ELSE Valid(NextFile(d[walk[k - 1]]))
  IN walk

Members(walk) == {walk[k] : k \in DOMAIN walk} \ {0}

FreeBlocks(d) == Members(Chain(d, block_get_next(d[SUPER_BLOCK])))
Listed(d) == Members(FileChain(d))

FirstChunk == [n \in Names |-> BlockSize - HeaderSize(n)]
Chunk == BlockSize - 1

\* Where the data of block number k of a file begins, in the data of the file.
ChunkStart(n, k) == IF k = 0 THEN 0 ELSE FirstChunk[n] + (k - 1) * Chunk

\* Where the data begins in block number k of a file.
DataStart(n, k) == IF k = 0 THEN HeaderSize(n) ELSE 1

\* The bytes of the file whose first block is f.
Data(d, f) ==
  LET n == Name(d[f])
      chain == Chain(d, f)
      last == CHOOSE k \in DOMAIN chain :
                chain[k] # 0 /\ (k = NumBlocks \/ chain[k + 1] = 0)
      length == ChunkStart(n, last) + block_size(d[chain[last]]) - DataStart(n, last)
      number(i) == IF i <= FirstChunk[n] THEN 0 ELSE (i - FirstChunk[n] - 1) \div Chunk + 1
  IN  [i \in 1 .. length |->
         LET k == number(i)
         IN  d[chain[k]][DataStart(n, k) + i - ChunkStart(n, k) - 1]]

Files(d) == [f \in Listed(d) |-> [name |-> Name(d[f]), data |-> Data(d, f)]]

-----------------------------------------------------------------------------
(***************************************************************************)
(* Calls.  call holds the local variables of all the functions of a call;  *)
(* those not in use are 0.  before, from and written are history           *)
(* variables: what the disk contained and where the reader was when the    *)
(* call began, and the bytes to write.                                     *)
(* (The definitions whose name starts with Wrong are mutated forms of the  *)
(* next one, which the properties must tell from it.)                      *)
(***************************************************************************)
OK == 0
INVALID_STATE == 2
NOT_FOUND == 3
ALREADY_EXISTS == 4
OUT_OF_MEMORY == 5

NoReader == [file |-> 0, block |-> 0, offset |-> 0]

NoCall ==
  [op |-> "none", name |-> 0, file |-> 0, previous |-> 0, next |-> 0,
   newFile |-> 0, newFirst |-> 0, newFree |-> 0, oldFree |-> 0, block |-> 0,
   used |-> 0, bytes |-> <<>>, size |-> 0, status |-> OK,
   before |-> <<>>, from |-> NoReader, written |-> <<>>]

Streams == <<writer, reader>>

\* process_can_open.
CanRead(f) == writer[f] = 0
CanWrite(f) == writer[f] = 0 /\ reader.file # f

\* c is the call that begins.
Begin(c) ==
  /\ pc = "idle"
  /\ c.op \in Ops
  /\ call' = [c EXCEPT !.before = Files(disk), !.from = reader]

\* The call continues at step label with the local variables c, or ends.
Goto(label, c) == pc' = label /\ call' = c
Done(status, c) == pc' = "done" /\ call' = [c EXCEPT !.status = status]

-----------------------------------------------------------------------------
(***************************************************************************)
(* disk_find_file, the first part of the calls that get a file name.       *)
(***************************************************************************)
Find(op, n) ==
  /\ Begin([NoCall EXCEPT !.op = op, !.name = n, !.next = NextFile(disk[SUPER_BLOCK])])
  /\ pc' = "find"
  /\ ReadBlock(SUPER_BLOCK)
  /\ UNCHANGED Streams

FindStep ==
  LET file == call.next
      name == Name(disk[file])
  IN
  /\ pc = "find"
  /\ UNCHANGED Streams
  /\ \/ file = 0 /\ Goto("found", call) /\ UNCHANGED <<disk, buffer>>
     \/ /\ file # 0
        /\ ReadBlock(file)
        /\ \/ name = call.name /\ Goto("found", [call EXCEPT !.file = file])
           \/ name > call.name /\ Goto("found", call)
           \/ /\ name < call.name
              /\ Goto("find", [call EXCEPT !.next = NextFile(disk[file]),
                                 !.previous = IF call.op = "delete" THEN file ELSE 0])

\* The file is not there, or a stream forbids the call.
FindFails ==
  /\ pc = "found"
  /\ \/ call.op \in {"stat", "open_read", "delete"} /\ call.file = 0
        /\ Done(NOT_FOUND, call)
     \/ /\ call.file # 0
        /\ \/ call.op \in {"open_write", "delete"} /\ ~ CanWrite(call.file)
           \/ call.op = "open_read" /\ ~ CanRead(call.file)
        /\ Done(INVALID_STATE, call)
  /\ UNCHANGED <<disk, buffer, Streams>>

(***************************************************************************)
(* disk_get_file_size.                                                     *)
(***************************************************************************)
SizeStart ==
  /\ pc = "found" /\ call.op = "stat" /\ call.file # 0
  /\ ReadBlock(call.file)
  /\ Goto("size", [call EXCEPT !.used = HeaderSize(Name(disk[call.file]))])
  /\ UNCHANGED Streams

\* The header of every block is taken to be that of the first one.
WrongSizeStep ==
  LET next == block_get_next(buffer) IN
  /\ pc = "size"
  /\ UNCHANGED Streams
  /\ \/ /\ next = 0
        /\ Done(OK, [call EXCEPT !.size = @ + block_size(buffer) - call.used])
        /\ UNCHANGED <<disk, buffer>>
     \/ /\ next # 0
        /\ ReadBlock(next)
        /\ Goto("size", [call EXCEPT !.size = @ + BlockSize - call.used])

SizeStep ==
  LET next == block_get_next(buffer) IN
  /\ pc = "size"
  /\ UNCHANGED Streams
  /\ \/ /\ next = 0
        /\ Done(OK, [call EXCEPT !.size = @ + block_size(buffer) - call.used])
        /\ UNCHANGED <<disk, buffer>>
     \/ /\ next # 0
        /\ ReadBlock(next)
        /\ Goto("size", [call EXCEPT !.size = @ + BlockSize - call.used, !.used = 1])

(***************************************************************************)
(* Opening an existing file to read it, and disk_read_file.                *)
(***************************************************************************)
OpenRead ==
  /\ pc = "found" /\ call.op = "open_read" /\ call.file # 0 /\ CanRead(call.file)
  /\ ReadBlock(call.file)
  /\ reader' = [file |-> call.file, block |-> call.file,
                offset |-> HeaderSize(Name(disk[call.file]))]
  /\ Done(OK, call)
  /\ UNCHANGED writer

Read(size) ==
  /\ reader.file # 0
  /\ Begin([NoCall EXCEPT !.op = "read", !.size = size])
  /\ pc' = "read"
  /\ UNCHANGED <<disk, buffer, Streams>>

\* The data of every block is taken to start where that of the first one does.
WrongReadStep ==
  LET b == disk[reader.block]
      next == block_get_next(b)
      available == (IF next = 0 THEN block_size(b) ELSE BlockSize) - reader.offset
      Got(n) == [call EXCEPT !.bytes = @ \o CopyFrom(b, reader.offset, n),
                             !.size = @ - n]
  IN
  /\ pc = "read"
  /\ ReadBlock(reader.block)
  /\ UNCHANGED writer
  /\ \/ /\ available >= call.size
        /\ reader' = [reader EXCEPT !.offset = @ + call.size]
        /\ Done(OK, Got(call.size))
     \/ /\ available < call.size /\ next = 0
        /\ UNCHANGED reader
        /\ Done(OK, Got(available))
     \/ /\ available < call.size /\ next # 0
        /\ reader' = [reader EXCEPT !.block = next,
                                   !.offset = HeaderSize(Name(disk[reader.file]))]
        /\ Goto("read", Got(available))

\* One block of the loop: what the call still has to read is in size.
ReadStep ==
  LET b == disk[reader.block]
      next == block_get_next(b)
      available == (IF next = 0 THEN block_size(b) ELSE BlockSize) - reader.offset
      Got(n) == [call EXCEPT !.bytes = @ \o CopyFrom(b, reader.offset, n),
                             !.size = @ - n]
  IN
  /\ pc = "read"
  /\ ReadBlock(reader.block)
  /\ UNCHANGED writer
  /\ \/ /\ available >= call.size
        /\ reader' = [reader EXCEPT !.offset = @ + call.size]
        /\ Done(OK, Got(call.size))
     \/ /\ available < call.size /\ next = 0
        /\ UNCHANGED reader
        /\ Done(OK, Got(available))
     \/ /\ available < call.size /\ next # 0
        /\ reader' = [reader EXCEPT !.block = next, !.offset = 1]
        /\ Goto("read", Got(available))

(***************************************************************************)
(* disk_create_file: the new file is put in the list of files, then its    *)
(* header is written, then its block is removed from the free blocks.  The *)
(* tool that makes the disk image (tools/maketoysfs.c) calls this function *)
(* without looking for the file first.                                     *)
(***************************************************************************)
Create(n) ==
  /\ Begin([NoCall EXCEPT !.op = "create", !.name = n])
  /\ pc' = "found"
  /\ UNCHANGED <<disk, buffer, Streams>>

CreateStart ==
  LET b == disk[SUPER_BLOCK] IN
  /\ pc = "found" /\ call.op \in {"open_write", "create"} /\ call.file = 0
  /\ ReadBlock(SUPER_BLOCK)
  /\ UNCHANGED Streams
  /\ \/ block_get_next(b) = 0 /\ Done(OUT_OF_MEMORY, call)
     \/ /\ block_get_next(b) # 0
        /\ Goto("scan", [call EXCEPT !.newFile = block_get_next(b),
                           !.newFirst = NextFile(b), !.next = NextFile(b)])

\* The new file is put at the end of the list.
WrongCreateScan ==
  /\ pc = "scan"
  /\ UNCHANGED Streams
  /\ \/ call.next = 0 /\ Goto("link", call) /\ UNCHANGED <<disk, buffer>>
     \/ /\ call.next # 0
        /\ ReadBlock(call.next)
        /\ Goto("scan", [call EXCEPT !.previous = call.next,
                            !.next = NextFile(disk[call.next])])

CreateScan ==
  LET name == Name(disk[call.next]) IN
  /\ pc = "scan"
  /\ UNCHANGED Streams
  /\ \/ call.next = 0 /\ Goto("link", call) /\ UNCHANGED <<disk, buffer>>
     \/ /\ call.next # 0
        /\ ReadBlock(call.next)
        /\ \/ name = call.name /\ Done(ALREADY_EXISTS, call)
           \/ name > call.name /\ Goto("link", call)
           \/ /\ name < call.name
              /\ Goto("scan", [call EXCEPT !.previous = call.next,
                                 !.next = NextFile(disk[call.next])])

\* The first file is published before its header is written.
WrongCreateLink ==
  /\ pc = "link"
  /\ UNCHANGED Streams
  /\ \/ /\ call.previous # 0
        /\ WriteBlock(call.previous, [disk[call.previous] EXCEPT ![1] = call.newFile])
        /\ Goto("fill", call)
     \/ /\ call.previous = 0
        /\ WriteBlock(SUPER_BLOCK, [disk[SUPER_BLOCK] EXCEPT ![1] = call.newFile])
        /\ Goto("fill", [call EXCEPT !.newFirst = call.newFile])

CreateLink ==
  /\ pc = "link"
  /\ UNCHANGED Streams
  /\ \/ /\ call.previous # 0
        /\ WriteBlock(call.previous, [disk[call.previous] EXCEPT ![1] = call.newFile])
        /\ Goto("fill", call)
     \/ /\ call.previous = 0
        /\ UNCHANGED <<disk, buffer>>
        /\ Goto("fill", [call EXCEPT !.newFirst = call.newFile])

CreateFill ==
  LET b == disk[call.newFile] IN
  /\ pc = "fill"
  /\ WriteBlock(call.newFile, FileHeader(b, call.name, call.next))
  /\ Goto("publish", [call EXCEPT !.newFree = block_get_next(b)])
  /\ UNCHANGED Streams

CreatePublish ==
  /\ pc = "publish"
  /\ WriteBlock(SUPER_BLOCK,
       block_set_next([disk[SUPER_BLOCK] EXCEPT ![1] = call.newFirst], call.newFree))
  /\ writer' = [writer EXCEPT ![call.newFile] = call.newFile]
  /\ Done(OK, call)
  /\ UNCHANGED reader

(***************************************************************************)
(* disk_write_file: full blocks are written as long as the bytes do not    *)
(* fit, each linked to the next free block, then the last one.             *)
(***************************************************************************)
Write(f, src) ==
  /\ writer[f] # 0
  /\ LET free == block_get_next(disk[SUPER_BLOCK]) IN
     Begin([NoCall EXCEPT !.op = "write", !.file = f, !.bytes = src, !.written = src,
              !.oldFree = free, !.newFree = free,
              !.used = block_size(disk[writer[f]])])
  /\ pc' = "write"
  /\ ReadBlock(writer[f])
  /\ UNCHANGED Streams

\* The next bytes fill the block, and block next follows it.
FillBlock(next) ==
  [CopyTo(buffer, call.used, SubSeq(call.bytes, 1, BlockSize - call.used))
     EXCEPT ![0] = next + BlockSize]

\* The bytes of the full block are written again in the next one.
WrongBytesWriteStep ==
  LET file == call.file
      size == Len(call.bytes)
      free == BlockSize - call.used
      next == call.newFree
  IN
  /\ pc = "write"
  /\ UNCHANGED reader
  /\ \/ /\ size <= free
        /\ WriteBlock(writer[file],
             [CopyTo(buffer, call.used, call.bytes) EXCEPT ![0] = call.used + size])
        /\ Goto("commit", call)
        /\ UNCHANGED writer
     \/ /\ size > free /\ next = 0
        /\ Goto("commit", [call EXCEPT !.status = OUT_OF_MEMORY])
        /\ UNCHANGED <<disk, buffer, writer>>
     \/ /\ size > free /\ next # 0
        /\ disk' = [disk EXCEPT ![writer[file]] = FillBlock(next)]
        /\ buffer' = disk[next]
        /\ writer' = [writer EXCEPT ![file] = next]
        /\ Goto("write", [call EXCEPT !.newFree = block_get_next(disk[next]),
                            !.bytes = SubSeq(@, 1, size - free), !.used = 1])

WriteStep ==
  LET file == call.file
      size == Len(call.bytes)
      free == BlockSize - call.used
      next == call.newFree
  IN
  /\ pc = "write"
  /\ UNCHANGED reader
  /\ \/ /\ size <= free
        /\ WriteBlock(writer[file],
             [CopyTo(buffer, call.used, call.bytes) EXCEPT ![0] = call.used + size])
        /\ Goto("commit", call)
        /\ UNCHANGED writer
     \/ /\ size > free /\ next = 0
        /\ Goto("commit", [call EXCEPT !.status = OUT_OF_MEMORY])
        /\ UNCHANGED <<disk, buffer, writer>>
     \/ /\ size > free /\ next # 0
        /\ disk' = [disk EXCEPT ![writer[file]] = FillBlock(next)]
        /\ buffer' = disk[next]
        /\ writer' = [writer EXCEPT ![file] = next]
        /\ Goto("write", [call EXCEPT !.newFree = block_get_next(disk[next]),
                            !.bytes = SubSeq(@, free + 1, size), !.used = 1])

WriteCommit ==
  /\ pc = "commit"
  /\ IF call.newFree # call.oldFree
       THEN WriteBlock(SUPER_BLOCK, block_set_next(disk[SUPER_BLOCK], call.newFree))
       ELSE UNCHANGED <<disk, buffer>>
  /\ Done(call.status, call)
  /\ UNCHANGED Streams

(***************************************************************************)
(* disk_delete_file_blocks: the free blocks are put after the last of the  *)
(* blocks that follow block first.  The caller continues with step return. *)
(***************************************************************************)
FreeStart(first, c) ==
  /\ Goto("free", [c EXCEPT !.block = first,
                     !.oldFree = block_get_next(disk[SUPER_BLOCK])])
  /\ ReadBlock(first)

\* The old free blocks are lost.
WrongFreeStep ==
  LET next == block_get_next(buffer) IN
  /\ pc = "free"
  /\ UNCHANGED Streams
  /\ \/ next # 0 /\ ReadBlock(next) /\ Goto("free", [call EXCEPT !.block = next])
     \/ /\ next = 0
        /\ WriteBlock(call.block, block_set_next(buffer, 0))
        /\ Goto(IF call.op = "delete" THEN "unlink" ELSE "freed", call)

\* The next block is not read.
WrongLoopFreeStep ==
  LET next == block_get_next(buffer) IN
  /\ pc = "free"
  /\ UNCHANGED Streams
  /\ \/ /\ next # 0
        /\ UNCHANGED <<disk, buffer>>
        /\ Goto("free", [call EXCEPT !.block = next])
     \/ /\ next = 0
        /\ WriteBlock(call.block, block_set_next(buffer, call.oldFree))
        /\ Goto(IF call.op = "delete" THEN "unlink" ELSE "freed", call)

FreeStep ==
  LET next == block_get_next(buffer) IN
  /\ pc = "free"
  /\ UNCHANGED Streams
  /\ \/ next # 0 /\ ReadBlock(next) /\ Goto("free", [call EXCEPT !.block = next])
     \/ /\ next = 0
        /\ WriteBlock(call.block, block_set_next(buffer, call.oldFree))
        /\ Goto(IF call.op = "delete" THEN "unlink" ELSE "freed", call)

(***************************************************************************)
(* disk_clear_file, when an existing file is opened to write it.           *)
(***************************************************************************)
ClearStart ==
  LET second == block_get_next(disk[call.file]) IN
  /\ pc = "found" /\ call.op = "open_write" /\ call.file # 0 /\ CanWrite(call.file)
  /\ UNCHANGED Streams
  /\ \/ second # 0 /\ FreeStart(second, [call EXCEPT !.newFree = second])
     \/ second = 0 /\ ReadBlock(call.file) /\ Goto("clear", call)

ClearFreed ==
  /\ pc = "freed"
  /\ WriteBlock(SUPER_BLOCK, block_set_next(disk[SUPER_BLOCK], call.newFree))
  /\ Goto("clear", call)
  /\ UNCHANGED Streams

ClearSize ==
  LET b == disk[call.file] IN
  /\ pc = "clear"
  /\ WriteBlock(call.file, [b EXCEPT ![0] = HeaderSize(Name(b))])
  /\ writer' = [writer EXCEPT ![call.file] = call.file]
  /\ Done(OK, call)
  /\ UNCHANGED reader

(***************************************************************************)
(* disk_delete_file.                                                       *)
(***************************************************************************)
DeleteStart ==
  /\ pc = "found" /\ call.op = "delete" /\ call.file # 0 /\ CanWrite(call.file)
  /\ FreeStart(call.file, [call EXCEPT !.next = NextFile(disk[call.file]),
                                       !.newFirst = NextFile(disk[SUPER_BLOCK])])
  /\ UNCHANGED Streams

DeleteUnlink ==
  /\ pc = "unlink"
  /\ UNCHANGED Streams
  /\ \/ /\ call.previous # 0
        /\ WriteBlock(call.previous, [disk[call.previous] EXCEPT ![1] = call.next])
        /\ Goto("deleted", call)
     \/ /\ call.previous = 0
        /\ UNCHANGED <<disk, buffer>>
        /\ Goto("deleted", [call EXCEPT !.newFirst = call.next])

DeletePublish ==
  /\ pc = "deleted"
  /\ WriteBlock(SUPER_BLOCK,
       [block_set_next(disk[SUPER_BLOCK], call.file) EXCEPT ![1] = call.newFirst])
  /\ Done(OK, call)
  /\ UNCHANGED Streams

-----------------------------------------------------------------------------
\* The call gives its result to the client.
Return ==
  /\ pc = "done"
  /\ pc' = "idle"
  /\ call' = NoCall
  /\ UNCHANGED <<disk, buffer, Streams>>

CloseWriter(f) ==
  /\ pc = "idle" /\ writer[f] # 0
  /\ writer' = [writer EXCEPT ![f] = 0]
  /\ UNCHANGED <<disk, buffer, pc, call, reader>>

CloseReader ==
  /\ pc = "idle" /\ reader # NoReader
  /\ reader' = NoReader
  /\ UNCHANGED <<disk, buffer, pc, call, writer>>

\* disk_format (tools/maketoysfs.c): all the blocks are free.
Formatted ==
  [b \in Blocks |->
     [i \in Offsets |-> IF i = 0 THEN BlockSize + ((b + 1) % NumBlocks) ELSE 0]]

Init ==
  /\ disk = Formatted
  /\ buffer = Formatted[SUPER_BLOCK]
  /\ pc = "idle"
  /\ call = NoCall
  /\ writer = [f \in FileIds |-> 0]
  /\ reader = NoReader

\* What the file system does by itself once it is called.
Step ==
  \/ FindStep \/ FindFails
  \/ SizeStart \/ SizeStep
  \/ OpenRead \/ ReadStep
  \/ CreateStart \/ CreateScan \/ CreateLink \/ CreateFill \/ CreatePublish
  \/ WriteStep \/ WriteCommit
  \/ FreeStep
  \/ ClearStart \/ ClearFreed \/ ClearSize
  \/ DeleteStart \/ DeleteUnlink \/ DeletePublish
  \/ Return

\* What clients ask.  The model has one stream that reads.
Client ==
  \/ \E n \in Names : Find("stat", n) \/ Find("open_write", n) \/ Find("delete", n)
  \/ \E n \in Names : Create(n)
  \/ \E n \in Names : reader = NoReader /\ Find("open_read", n)
  \/ \E size \in ReadSizes : Read(size)
  \/ \E f \in FileIds, src \in Writes : Write(f, src)
  \/ \E f \in FileIds : CloseWriter(f)
  \/ CloseReader

Next == Step \/ Client

Spec == Init /\ [][Next]_vars

\* A call runs until it returns: nothing else runs in the meantime.
FairSpec == Spec /\ WF_vars(Step)

-----------------------------------------------------------------------------
(***************************************************************************)
(* Properties.                                                             *)
(***************************************************************************)
Resting == pc \in {"idle", "done"}

(***************************************************************************)
(* Between two calls no block is lost or shared: each one but the super    *)
(* block is either free or in exactly one file, once.                      *)
(***************************************************************************)
FileBlocks(d, f) == Members(Chain(d, f))

\* The blocks of a chain are distinct, so that the chain ends.
Ends(walk) == walk[NumBlocks] = 0

BlocksPartitioned ==
  Resting =>
    /\ Ends(Chain(disk, block_get_next(disk[SUPER_BLOCK])))
    /\ \A f \in Listed(disk) :
         /\ Ends(Chain(disk, f))
         /\ FileBlocks(disk, f) \cap FreeBlocks(disk) = {}
         /\ \A g \in Listed(disk) \ {f} : FileBlocks(disk, f) \cap FileBlocks(disk, g) = {}
    /\ FileIds = FreeBlocks(disk) \cup UNION {FileBlocks(disk, f) : f \in Listed(disk)}

(***************************************************************************)
(* The file system does what FileStore says, in one step per call, the     *)
(* last one; Store is the FileStore state of the block level.              *)
(***************************************************************************)
Store == IF Resting THEN Files(disk) ELSE call.before

FS == INSTANCE FileStore WITH files <- Store, Image <- <<>>

StoreSpec == FS!Spec

(***************************************************************************)
(* The kernel lists the files along next_file, and relies on the order of  *)
(* the names: the file after f is the first one of those after it.         *)
(***************************************************************************)
FilesInOrder ==
  Resting =>
    /\ FS!IsFirst(FS!Live, NextFile(disk[SUPER_BLOCK]))
    /\ \A f \in FS!Live : FS!IsFirst(FS!After(f), NextFile(disk[f]))

\* The position of reader s in the data of its file.
Position(s) ==
  LET n == Name(disk[s.file])
      chain == Chain(disk, s.file)
      k == CHOOSE j \in DOMAIN chain : chain[j] = s.block
  IN  ChunkStart(n, k) + s.offset - DataStart(n, k)

(***************************************************************************)
(* A read gives the bytes that follow the position of the stream: as many  *)
(* as asked, or all those left.  The new position is the one that Kernel   *)
(* computes (ReadFile), at or before the end of the bytes read.            *)
(***************************************************************************)
ReadIsRight ==
  pc = "done" /\ call.op = "read" =>
    LET file == Store[reader.file]
        start == Position(call.from)
        n == Len(call.bytes)
        last == FS!LastBlockStart(file.name, Len(file.data))
    IN  /\ call.bytes = SubSeq(file.data, start + 1, start + n)
        /\ IF call.size = 0
             THEN Position(reader) = start + n
             ELSE /\ start + n = Len(file.data)
                  /\ Position(reader) = IF start < last THEN last ELSE start

(***************************************************************************)
(* The result of a call: an open for writing that succeeds gives an empty  *)
(* file, a delete leaves no file of that name, a write adds its bytes, the *)
(* size is that of the file, a call fails for lack of blocks only when all *)
(* are used, and a call that fails changes no file, but for that write.    *)
(***************************************************************************)
ResultIsRight ==
  LET files == Files(disk) IN
  pc = "done" =>
    /\ call.status = OK =>
         /\ call.op \in {"open_write", "create"} =>
              \E f \in DOMAIN files :
                /\ files[f] = [name |-> call.name, data |-> <<>>]
                /\ writer[f] = f
         /\ call.op = "delete" => \A f \in DOMAIN files : files[f].name # call.name
         /\ call.op = "write" =>
              files[call.file].data = call.before[call.file].data \o call.written
         /\ call.op = "stat" => call.size = Len(files[call.file].data)
    /\ call.status = OUT_OF_MEMORY => FreeBlocks(disk) = {}
    /\ call.status = ALREADY_EXISTS => call.op = "create"
    /\ call.status # OK /\ call.op # "write" => files = call.before

(***************************************************************************)
(* Whatever the point where the machine stops, the files that the call is  *)
(* not about are on the disk, and their blocks are not free.  They are in  *)
(* the list of files too, but for one point: while a file is created after *)
(* another, and its header is not written, the list goes through a free    *)
(* block, and the next files are lost.                                     *)
(***************************************************************************)
HalfLinked == pc = "fill" /\ call.previous # 0

OthersSurvive ==
  ~ Resting => \A f \in DOMAIN call.before \ {call.file} :
    /\ Name(disk[f]) = call.before[f].name
    /\ Data(disk, f) = call.before[f].data
    /\ FileBlocks(disk, f) \cap FreeBlocks(disk) = {}
    /\ ~ HalfLinked => f \in Listed(disk)

(***************************************************************************)
(* Every call returns: the loops end, along the chain they walk.           *)
(***************************************************************************)
CallsReturn == pc # "idle" ~> pc = "idle"
=============================================================================
