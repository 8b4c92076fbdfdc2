------------------------------- MODULE Kernel -------------------------------
(***************************************************************************)
(* The Toys kernel: the stack of processes, their memory regions and the   *)
(* page protection, the kernel heap, the file streams and the ten system   *)
(* calls (src/toys/{processes,systemcalls,toys}.toy), above the file       *)
(* store of module FileStore.                                              *)
(*                                                                         *)
(* Toys is monotasking: only the last process of the stack runs, and a     *)
(* system call or an exception handler runs to its end with interrupts     *)
(* disabled.  A system call is therefore one action, syscall_handler and   *)
(* os_sysret included.  User memory is abstracted to the addresses that    *)
(* the kernel compares; what programs compute is left open, every call     *)
(* with arguments from the input sets can come next.                       *)
(*                                                                         *)
(* The kernel takes two things for granted, that a program can break (see  *)
(* Honest).  It may then overwrite memory that is not its own: the model   *)
(* says nothing of what follows (Lost).                                    *)
(***************************************************************************)
EXTENDS Integers, Sequences

CONSTANTS
  FileIds, Names, Bytes, FirstChunk, Chunk, Writes, Image,  \* see FileStore
  ValidNames,   \* the names made of 1 to 488 printable characters
  Shell,        \* the name of the shell program
  MaxFileSize,  \* bound: files do not grow beyond this size
  PageSize,     \* bytes in a page
  Pages,        \* the pages of the machine, page p starts at p * PageSize
  TableOf,      \* TableOf[p]: the upper level page table entry above page p
  HeapEnd,      \* kernel.heap_limit, where the root process starts
  MemLimit,     \* kernel.mem_limit
  WordSize,     \* bytes in a word
  MinStack,     \* MIN_STACK_SIZE
  HeapUnits,    \* room for Process and FileStream records in the kernel heap
  ErrorBase,    \* 2^56: valid results are below, error_result(e) is above
  ExitCodes,    \* input: the values passed to exit
  SpawnCalls,   \* input: the arguments passed to spawn
  Buffers,      \* input: the address and size of the buffers passed to calls
  StreamIds     \* input: the stream numbers passed to calls

VARIABLES
  mode,        \* what the processor executes: "boot", "user", "fault", "halt",
               \* or "lost" when memory that the program does not own is damaged
  procs,       \* the process stack, from the root to the current process
  heap,        \* kernel.heap, in units of sizeof(FileStream) from its start
  userPages,   \* the pages with the user bit in their page table entry
  userTables,  \* the upper level entries with the user bit
  honest,      \* a history variable: each spawn since the boot was Honest
  files        \* the file system, a FileStore

vars == <<mode, procs, heap, userPages, userTables, honest, files>>

FS == INSTANCE FileStore

EmptyName == 0   \* the name of length 0, which lists the files

KernelAssumption ==
  /\ FS!StoreAssumption
  /\ PageSize \in Nat \ {0} /\ WordSize \in Nat /\ MinStack \in Nat
  /\ Pages \subseteq Nat
  /\ HeapEnd \in Nat /\ MemLimit \in Nat /\ HeapEnd <= MemLimit
  /\ HeapUnits \in Nat
  /\ ErrorBase \in Nat
  /\ EmptyName \notin Names /\ ValidNames \subseteq Names /\ Shell \in Names
  /\ ExitCodes \subseteq Nat
  /\ Buffers \subseteq [ptr : Nat, size : Nat]
  /\ StreamIds \subseteq Nat
  /\ SpawnCalls \subseteq
       [dst : Nat, name : Names, namePtr : Nat, args : Nat, argsLength : Nat,
        outputAt : Nat, output : Nat, stackPointer : Nat]

ASSUME KernelAssumption

(***************************************************************************)
(* Results of system calls.  A valid result is a natural number, an error  *)
(* code e is returned as error_result(e), here the negative number -e.     *)
(***************************************************************************)
OK == 0
INVALID_ARGUMENT == 1
INVALID_STATE == 2
NOT_FOUND == 3
OUT_OF_MEMORY == 5
INTERNAL_ERROR == 6
Error(e) == -e

-----------------------------------------------------------------------------
(***************************************************************************)
(* Process and FileStream records.  parent is the previous process of the  *)
(* stack; next is the next stream of the sequence.  current_block and      *)
(* current_offset are abstracted to an offset in the bytes of the file,    *)
(* for a stream in MODE_READ; a stream in MODE_WRITE is at the end of its  *)
(* file.  saved_r9, saved_stack_pointer and saved_return_address are       *)
(* restored verbatim and left out.                                         *)
(***************************************************************************)
UNUSED == "unused"
LIST == "list"
READ == "read"
WRITE == "write"
Modes == {UNUSED, LIST, READ, WRITE}

Stream == [mode : Modes, file : Nat, offset : Nat]
Unused == [mode |-> UNUSED, file |-> FS!NoFile, offset |-> 0]

Process ==
  [begin : Nat, end : Nat,             \* the memory region of the process
   base : Nat,                         \* the address of its Process record
   r8 : Int,                           \* saved_r8
   output : Nat, outputLimit : Nat,    \* *output_p and output_limit
   streams : Seq(Stream)]

ProcessSize == 2   \* sizeof(Process) and
StreamSize == 1    \* sizeof(FileStream), in units of 40 bytes

STANDARD_INPUT == 0
STANDARD_OUTPUT == 1
KEYBOARD == 2
GPU == 3
FIRST_FILE_STREAM_ID == 4

Depth == Len(procs)
Current == procs[Depth]
SetCurrent(p) == [procs EXCEPT ![Depth] = p]

Contains(p, ptr, size) ==
  /\ p.begin <= ptr /\ ptr < p.end
  /\ size <= p.end - ptr

\* The pages that user code can access.
Accessible == {a \in userPages : TableOf[a] \in userTables}

PagesOf(p) == {a \in Pages : p.begin <= a * PageSize /\ a * PageSize < p.end}
TablesOf(S) == {TableOf[a] : a \in S}

-----------------------------------------------------------------------------
(***************************************************************************)
(* The end of a system call.  syscall_handler stores the result in the     *)
(* process that made the call, number i of the stack, which it fetched     *)
(* before the call; after an exit that record is no longer on the stack.   *)
(* (The definitions whose name starts with Wrong are mutated forms of the  *)
(* next one, which the properties must tell from it.)                      *)
(***************************************************************************)
\* The process is fetched after the call.
WrongReturn(stack, i, result) ==
  procs' = [stack EXCEPT ![Len(stack)] = [@ EXCEPT !.r8 = result]]

Return(stack, i, result) ==
  procs' = IF i \in DOMAIN stack
             THEN [stack EXCEPT ![i] = [@ EXCEPT !.r8 = result]]
             ELSE stack

Fail(error) ==
  /\ Return(procs, Depth, Error(error))
  /\ UNCHANGED <<mode, heap, userPages, userTables, honest, files>>

Lose ==
  /\ mode' = "lost"
  /\ UNCHANGED <<procs, heap, userPages, userTables, honest, files>>

Succeed(p, result) ==
  /\ Return(SetCurrent(p), Depth, result)
  /\ UNCHANGED <<mode, userPages, userTables, honest>>

\* The entries above the pages of the parent are cleared last.
WrongOrderSetCurrentProcess(stack) ==
  LET last == Len(stack)
      off == IF last > 1 THEN PagesOf(stack[last - 1]) ELSE {}
      on == PagesOf(stack[last])
  IN  /\ userPages' = (userPages \ off) \cup on
      /\ userTables' = (userTables \cup TablesOf(on)) \ TablesOf(off)

\* os_set_current_process: the pages of the parent become inaccessible, then
\* those of the process accessible, each with all the entries above it.
SetCurrentProcess(stack) ==
  LET last == Len(stack)
      off == IF last > 1 THEN PagesOf(stack[last - 1]) ELSE {}
      on == PagesOf(stack[last])
  IN  /\ userPages' = (userPages \ off) \cup on
      /\ userTables' = (userTables \ TablesOf(off)) \cup TablesOf(on)

-----------------------------------------------------------------------------
(***************************************************************************)
(* spawn.                                                                  *)
(***************************************************************************)
PageUp(a) == ((a + PageSize - 1) \div PageSize) * PageSize
PageDown(a) == (a \div PageSize) * PageSize

BadSpawn(c, begin, end) ==
  \/ end < begin
  \/ begin < Current.begin
  \/ ~ Contains(Current, c.namePtr, 1)
  \/ ~ Contains(Current, c.args, c.argsLength)
  \/ c.args + c.argsLength > begin /\ c.args < end
  \/ ~ Contains(Current, c.outputAt, WordSize)
  \/ c.output < Current.begin
  \/ c.output > c.dst

\* The program f, its arguments and the smallest stack fit in the region.
Fits(f, argsLength, begin, end) ==
  LET code == Len(files[f].data) IN
  /\ code <= end - begin
  /\ begin + code + WordSize <= end - MinStack
  /\ argsLength <= end - MinStack - (begin + code + WordSize)

SpawnStatus(c, f, begin, end) ==
  IF ProcessSize > HeapUnits - heap THEN OUT_OF_MEMORY
  ELSE IF BadSpawn(c, begin, end) THEN INVALID_ARGUMENT
  ELSE IF f = FS!NoFile THEN NOT_FOUND
  ELSE IF ~ Fits(f, c.argsLength, begin, end) THEN OUT_OF_MEMORY
  ELSE OK

Child(f, begin, end, output, dst) ==
  [begin |-> begin, end |-> end, base |-> heap,
   r8 |-> begin + Len(files[f].data),
   output |-> output, outputLimit |-> dst, streams |-> <<>>]

Push(p) ==
  /\ heap' = heap + ProcessSize
  /\ SetCurrentProcess(Append(procs, p))
  /\ UNCHANGED files

\* What the kernel relies on and does not check: the region of the child ends
\* in that of its parent, and the word at outputAt, a pointer that the kernel
\* uses as long as the child writes its output, is not overwritten by the child
\* or by this output.
Honest(c, begin, end) ==
  LET apart(from, to) == c.outputAt + WordSize <= from \/ to <= c.outputAt IN
  /\ end <= Current.end
  /\ apart(begin, end)
  /\ apart(c.output, c.dst)

\* The region of the child goes from the first page above dst to the page of
\* the stack pointer of its parent, which may be anywhere above: the program
\* is then loaded, maybe over memory that is not that of Toys, or nowhere.
Spawn(c) ==
  LET begin == PageUp(c.dst)
      end == PageDown(c.stackPointer)
  IN
  /\ mode = "user"
  /\ \E f \in FS!Live \cup {FS!NoFile} :
       /\ FS!IsFile(c.name, f)
       /\ LET status == SpawnStatus(c, f, begin, end)
              p == Child(f, begin, end, c.output, c.dst)
          IN  \/ status # OK /\ Fail(status)
              \/ /\ status = OK
                 /\ Push(p)
                 /\ Return(Append(procs, p), Depth, OK)
                 /\ honest' = (honest /\ Honest(c, begin, end))
                 /\ UNCHANGED mode
              \/ status = OK /\ end > MemLimit /\ Lose

(***************************************************************************)
(* os_init and os_spawn_shell: the root process gets the memory from the   *)
(* end of the kernel heap to the end of memory.  Its standard output       *)
(* buffer is empty.  When the shell can not be loaded the kernel returns   *)
(* to the boot loader and the machine stops.                               *)
(***************************************************************************)
SpawnShell ==
  LET ready == {f \in FS!Live : FS!IsFile(Shell, f)
                                /\ Fits(f, 0, HeapEnd, MemLimit)
                                /\ ProcessSize <= HeapUnits - heap}
  IN
  /\ mode = "boot"
  /\ \/ \E f \in ready :
          LET p == Child(f, HeapEnd, MemLimit, HeapEnd, HeapEnd) IN
          /\ Push(p)
          /\ procs' = Append(procs, p)
          /\ mode' = "user"
          /\ UNCHANGED honest
     \/ /\ ready = {}
        /\ mode' = "halt"
        /\ UNCHANGED <<procs, heap, userPages, userTables, honest, files>>

-----------------------------------------------------------------------------
(***************************************************************************)
(* exit, and the exception handler that calls it.                          *)
(***************************************************************************)

\* The status os_exit returns.
ExitStatus(result) ==
  IF Depth = 1 THEN INVALID_STATE
  ELSE IF result >= ErrorBase THEN INVALID_ARGUMENT
  ELSE OK

\* The stack without the current process, its parent resumed with result.
Pop(result) ==
  [SubSeq(procs, 1, Depth - 1) EXCEPT ![Depth - 1] = [@ EXCEPT !.r8 = result]]

\* The records of the streams are not freed.
WrongOsExit(result) ==
  /\ heap' = heap - ProcessSize
  /\ SetCurrentProcess(Pop(result))
  /\ UNCHANGED files

OsExit(result) ==
  /\ heap' = Current.base
  /\ SetCurrentProcess(Pop(result))
  /\ UNCHANGED files

Exit(result) ==
  /\ mode = "user"
  /\ \/ ExitStatus(result) # OK /\ Fail(ExitStatus(result))
     \/ /\ ExitStatus(result) = OK
        /\ OsExit(result)
        /\ Return(Pop(result), Depth, OK)
        /\ UNCHANGED <<mode, honest>>

\* The current process causes an exception.
Fault ==
  /\ mode = "user"
  /\ mode' = "fault"
  /\ UNCHANGED <<procs, heap, userPages, userTables, honest, files>>

\* The machine stops when the root process causes an exception.
WrongHandleFault ==
  /\ mode = "fault"
  /\ IF ExitStatus(INTERNAL_ERROR) = OK
       THEN /\ mode' = "user" /\ UNCHANGED honest
            /\ OsExit(INTERNAL_ERROR) /\ procs' = Pop(INTERNAL_ERROR)
       ELSE /\ mode' = "halt"
            /\ UNCHANGED <<procs, heap, userPages, userTables, honest, files>>

\* hard_fault_handler ignores the status of os_exit: the root process, which
\* can not exit, continues where its last system call returned.
HandleFault ==
  /\ mode = "fault"
  /\ mode' = "user"
  /\ IF ExitStatus(INTERNAL_ERROR) = OK
       THEN /\ OsExit(INTERNAL_ERROR) /\ procs' = Pop(INTERNAL_ERROR)
            /\ UNCHANGED honest
       ELSE UNCHANGED <<procs, heap, userPages, userTables, honest, files>>

-----------------------------------------------------------------------------
(***************************************************************************)
(* File streams.  Stream number FIRST_FILE_STREAM_ID + k - 1 is streams[k].*)
(***************************************************************************)

\* process_get_unused_file_stream: the first unused stream of the current
\* process, or else a new one at the end of its list.
IsFreeSlot(k) ==
  LET streams == Current.streams IN
  /\ \A j \in 1 .. k - 1 : streams[j].mode # UNUSED
  /\ k <= Len(streams) => streams[k].mode = UNUSED

NewSlot(k) == k > Len(Current.streams)

\* The current process with its stream k, maybe new, set to s.
UseSlot(k, s, result) ==
  /\ Succeed([Current EXCEPT !.streams =
                IF NewSlot(k) THEN Append(@, s) ELSE [@ EXCEPT ![k] = s]],
             result)
  /\ heap' = IF NewSlot(k) THEN heap + StreamSize ELSE heap

Slot(id) == id - FIRST_FILE_STREAM_ID + 1
StreamId(k) == FIRST_FILE_STREAM_ID + k - 1

\* process_get_file_stream finds a stream, and it is in use.
IsOpen(id) ==
  Slot(id) \in DOMAIN Current.streams /\ Current.streams[Slot(id)].mode # UNUSED

SetStream(id, s) ==
  [Current EXCEPT !.streams = [@ EXCEPT ![Slot(id)] = s]]

\* The streams of the suspended processes are not looked at.
WrongCanOpen(f, m) ==
  \A k \in DOMAIN Current.streams :
    LET s == Current.streams[k] IN
    s.file = f /\ s.mode # LIST => s.mode # WRITE /\ m # WRITE

\* A file which is read can be opened for writing.
WrongCanOpenRead(f, m) ==
  \A i \in DOMAIN procs : \A k \in DOMAIN procs[i].streams :
    LET s == procs[i].streams[k] IN
    s.file = f /\ s.mode # LIST => s.mode # WRITE

\* process_can_open: a file can be written if no live process reads or writes
\* it, and read if none writes it.
CanOpen(f, m) ==
  \A i \in DOMAIN procs : \A k \in DOMAIN procs[i].streams :
    LET s == procs[i].streams[k] IN
    s.file = f /\ s.mode # LIST => s.mode # WRITE /\ m # WRITE

(***************************************************************************)
(* open.  A stream allocated for a call that then fails stays in the list, *)
(* unused.  Whether a block is left for a new file depends on the sizes of *)
(* all the files and is left open.                                         *)
(***************************************************************************)
OpenFailure(k, error) ==
  UseSlot(k, Unused, Error(error)) /\ UNCHANGED files

OpenSuccess(k, m, f) ==
  UseSlot(k, [mode |-> m, file |-> f, offset |-> 0], StreamId(k))

OpenList(k, m) ==
  \/ m # READ /\ OpenFailure(k, INVALID_ARGUMENT)
  \/ /\ m = READ
     /\ \E f \in FS!Live \cup {FS!NoFile} :
          FS!IsFirst(FS!Live, f) /\ OpenSuccess(k, LIST, f)
     /\ UNCHANGED files

OpenMissing(k, n, m) ==
  \/ m = READ /\ OpenFailure(k, NOT_FOUND)
  \/ m = WRITE /\ n \notin ValidNames /\ OpenFailure(k, INVALID_ARGUMENT)
  \/ m = WRITE /\ n \in ValidNames /\ OpenFailure(k, OUT_OF_MEMORY)
  \/ /\ m = WRITE /\ n \in ValidNames
     /\ \E f \in FileIds : FS!Create(f, n) /\ OpenSuccess(k, WRITE, f)

OpenExisting(k, f, m) ==
  \/ ~ CanOpen(f, m) /\ OpenFailure(k, INVALID_STATE)
  \/ /\ CanOpen(f, m)
     /\ OpenSuccess(k, m, f)
     /\ IF m = WRITE THEN FS!Clear(f) ELSE UNCHANGED files

Open(n, buffer, m) ==
  LET bad == ~ Contains(Current, buffer.ptr, 1) \/ m \notin {READ, WRITE} IN
  /\ mode = "user"
  /\ \/ bad /\ Fail(INVALID_ARGUMENT)
     \/ /\ ~ bad
        /\ \E k \in 1 .. Len(Current.streams) + 1 :
             /\ IsFreeSlot(k)
             /\ IF NewSlot(k) /\ heap + StreamSize > HeapUnits
                  THEN Fail(OUT_OF_MEMORY)
                  ELSE IF n = EmptyName
                  THEN OpenList(k, m)
                  ELSE \E f \in FS!Live \cup {FS!NoFile} :
                         /\ FS!IsFile(n, f)
                         /\ IF f = FS!NoFile
                              THEN OpenMissing(k, n, m)
                              ELSE OpenExisting(k, f, m)

-----------------------------------------------------------------------------
(***************************************************************************)
(* read.                                                                   *)
(***************************************************************************)
Smaller(x, y) == IF x < y THEN x ELSE y
Larger(x, y) == IF x < y THEN y ELSE x

\* A call that changes nothing but its own process.
Local(p, result) == Succeed(p, result) /\ UNCHANGED <<heap, files>>

ReadStatus(id, buffer) ==
  IF buffer.size = 0 \/ ~ Contains(Current, buffer.ptr, buffer.size)
    THEN INVALID_ARGUMENT
  ELSE IF id \in {STANDARD_INPUT, KEYBOARD} THEN OK
  ELSE IF id \in {STANDARD_OUTPUT, GPU} THEN INVALID_STATE
  ELSE IF ~ IsOpen(id) THEN NOT_FOUND
  ELSE IF Current.streams[Slot(id)].mode = WRITE THEN INVALID_STATE
  ELSE OK

\* A listing gives the name of the file at the cursor, here a name of one
\* byte, and moves the cursor to the next file in name order.
ReadList(id, s, size) ==
  IF s.file = FS!NoFile
    THEN Local(Current, 0)
    ELSE \E f \in FS!Live \cup {FS!NoFile} :
           /\ FS!IsFirst(FS!After(s.file), f)
           /\ Local(SetStream(id, [s EXCEPT !.file = f]), Smaller(size, 1))

\* disk_read_file: a read that asks for more than what is left gives what is
\* left, and leaves the offset in the last block where it was when the read
\* entered that block.
ReadFile(id, s, size) ==
  LET file == files[s.file]
      left == Len(file.data) - s.offset
      last == FS!LastBlockStart(file.name, Len(file.data))
  IN  IF size <= left
        THEN Local(SetStream(id, [s EXCEPT !.offset = @ + size]), size)
        ELSE Local(SetStream(id, [s EXCEPT !.offset = Larger(@, last)]), left)

Read(id, buffer) ==
  LET status == ReadStatus(id, buffer)
      s == Current.streams[Slot(id)]
  IN
  /\ mode = "user"
  /\ \/ status # OK /\ Fail(status)
     \/ status = OK /\ id < FIRST_FILE_STREAM_ID /\ Local(Current, 1)
     \/ /\ status = OK /\ id >= FIRST_FILE_STREAM_ID
        /\ \/ s.mode = LIST /\ ReadList(id, s, buffer.size)
           \/ s.mode = READ /\ ReadFile(id, s, buffer.size)

(***************************************************************************)
(* write.  The output goes where the word at output_p points to.  For the  *)
(* root process this word is a local variable of os_spawn_shell, gone with *)
(* its stack frame; when a spawn was not Honest it is what programs made   *)
(* of it.  In both cases the copy goes anywhere: to user memory, any part  *)
(* of the bytes, or over other memory.                                     *)
(***************************************************************************)
WriteStatus(id, buffer) ==
  IF ~ Contains(Current, buffer.ptr, buffer.size) THEN INVALID_ARGUMENT
  ELSE IF id \in {STANDARD_OUTPUT, GPU} THEN OK
  ELSE IF id \in {STANDARD_INPUT, KEYBOARD} THEN INVALID_STATE
  ELSE IF ~ IsOpen(id) THEN NOT_FOUND
  ELSE IF Current.streams[Slot(id)].mode # WRITE THEN INVALID_STATE
  ELSE OK

OutputKnown == honest /\ Depth > 1

\* The limit of the output buffer is not looked at.
WrongWriteOutput(size) ==
  OutputKnown /\ Local([Current EXCEPT !.output = @ + size], size)

WriteOutput(size) ==
  \/ /\ OutputKnown
     /\ LET n == Smaller(size, Current.outputLimit - Current.output)
        IN Local([Current EXCEPT !.output = @ + n], n)
  \/ ~ OutputKnown /\ \E n \in 0 .. size : Local(Current, n)
  \/ ~ OutputKnown /\ size > 0 /\ Lose

\* The registers of the screen are written three bytes at a time.
WriteGpu(size) == Local(Current, (size \div 3) * 3)

WriteFile(f, size) ==
  \E src \in Writes :
    /\ Len(src) = size
    /\ \/ FS!Extend(f, src) /\ Succeed(Current, size)
       \/ FS!ExtendShort(f, src) /\ Succeed(Current, Error(OUT_OF_MEMORY))
    /\ Len(files'[f].data) <= MaxFileSize
    /\ UNCHANGED heap

Write(id, buffer) ==
  LET status == WriteStatus(id, buffer) IN
  /\ mode = "user"
  /\ \/ status # OK /\ Fail(status)
     \/ status = OK /\ id = STANDARD_OUTPUT /\ WriteOutput(buffer.size)
     \/ status = OK /\ id = GPU /\ WriteGpu(buffer.size)
     \/ /\ status = OK /\ id >= FIRST_FILE_STREAM_ID
        /\ WriteFile(Current.streams[Slot(id)].file, buffer.size)

-----------------------------------------------------------------------------
(***************************************************************************)
(* close, delete, stat, sleep, reboot and invalid calls.                   *)
(***************************************************************************)
Close(id) ==
  /\ mode = "user"
  /\ IF IsOpen(id) THEN Local(SetStream(id, Unused), OK) ELSE Fail(NOT_FOUND)

\* The listings of the suspended processes are left on file f.
WrongMoveCursors(f, next) ==
  [procs EXCEPT ![Depth].streams =
     [k \in DOMAIN @ |->
        IF @[k].mode = LIST /\ @[k].file = f
          THEN [@[k] EXCEPT !.file = next]
          ELSE @[k]]]

\* Every listing moves.
WrongMoveAllCursors(f, next) ==
  [i \in DOMAIN procs |->
     [procs[i] EXCEPT !.streams =
        [k \in DOMAIN @ |->
           IF @[k].mode = LIST THEN [@[k] EXCEPT !.file = next] ELSE @[k]]]]

\* Every listing, of any live process, whose cursor is on file f moves on to
\* the next file.
MoveCursors(f, next) ==
  [i \in DOMAIN procs |->
     [procs[i] EXCEPT !.streams =
        [k \in DOMAIN @ |->
           IF @[k].mode = LIST /\ @[k].file = f
             THEN [@[k] EXCEPT !.file = next]
             ELSE @[k]]]]

DeleteStatus(f, buffer) ==
  IF ~ Contains(Current, buffer.ptr, 1) THEN INVALID_ARGUMENT
  ELSE IF f = FS!NoFile THEN NOT_FOUND
  ELSE IF ~ CanOpen(f, WRITE) THEN INVALID_STATE
  ELSE OK

Delete(n, buffer) ==
  /\ mode = "user"
  /\ \E f \in FS!Live \cup {FS!NoFile} :
       /\ FS!IsFile(n, f)
       /\ LET status == DeleteStatus(f, buffer) IN
          \/ status # OK /\ Fail(status)
          \/ /\ status = OK
             /\ \E next \in FS!Live \cup {FS!NoFile} :
                  /\ FS!IsFirst(FS!After(f), next)
                  /\ Return(MoveCursors(f, next), Depth, OK)
             /\ FS!Delete(f)
             /\ UNCHANGED <<mode, heap, userPages, userTables, honest>>

StatStatus(f, buffer) ==
  IF ~ Contains(Current, buffer.ptr, 1) THEN INVALID_ARGUMENT
  ELSE IF f = FS!NoFile THEN NOT_FOUND
  ELSE OK

Stat(n, buffer) ==
  /\ mode = "user"
  /\ \E f \in FS!Live \cup {FS!NoFile} :
       /\ FS!IsFile(n, f)
       /\ LET status == StatStatus(f, buffer) IN
          IF status = OK THEN Local(Current, Len(files[f].data)) ELSE Fail(status)

Sleep == mode = "user" /\ Local(Current, OK)

\* An unknown call number, or arguments outside of the process memory.
BadCall == mode = "user" /\ Fail(INVALID_ARGUMENT)

\* The reboot call, or the user turning the machine off and on between two
\* system calls: the memory is lost, the files are not.
Reboot ==
  /\ mode \in {"user", "halt"}
  /\ mode' = "boot"
  /\ procs' = <<>>
  /\ heap' = 0
  /\ userPages' = {}
  /\ userTables' = {}
  /\ honest' = TRUE
  /\ UNCHANGED files

\* A program writes to memory that it can access and that is not that of Toys.
Overwrite ==
  /\ mode = "user"
  /\ \E a \in Accessible : MemLimit <= a * PageSize
  /\ Lose

\* The model ends.
Lost == mode = "lost" /\ UNCHANGED vars

-----------------------------------------------------------------------------
Init ==
  /\ mode = "boot"
  /\ procs = <<>>
  /\ heap = 0
  /\ userPages = {}
  /\ userTables = {}
  /\ honest = TRUE
  /\ FS!Init

Next ==
  \/ SpawnShell
  \/ \E c \in SpawnCalls : Spawn(c)
  \/ \E r \in ExitCodes : Exit(r)
  \/ Fault
  \/ HandleFault
  \/ \E n \in Names \cup {EmptyName}, b \in Buffers :
       \E m \in {READ, WRITE, UNUSED} : Open(n, b, m)  \* UNUSED: any other mode
  \/ \E id \in StreamIds, b \in Buffers : Read(id, b) \/ Write(id, b)
  \/ \E id \in StreamIds : Close(id)
  \/ \E n \in Names \cup {EmptyName}, b \in Buffers : Delete(n, b) \/ Stat(n, b)
  \/ Sleep
  \/ BadCall
  \/ Reboot
  \/ Overwrite
  \/ Lost

Spec == Init /\ [][Next]_vars

-----------------------------------------------------------------------------
(***************************************************************************)
(* Properties.                                                             *)
(***************************************************************************)

TypeOK ==
  /\ mode \in {"boot", "user", "fault", "halt", "lost"}
  /\ procs \in Seq(Process)
  /\ heap \in Nat
  /\ userPages \subseteq Pages
  /\ userTables \subseteq TablesOf(Pages)
  /\ honest \in BOOLEAN
  /\ FS!StoreTypeOK
  /\ Depth = 0 <=> mode \in {"boot", "halt"}

Streams(i) == procs[i].streams

Cursor(i, k) == Streams(i)[k].file

IsStream(i, k, m) ==
  i \in DOMAIN procs /\ k \in DOMAIN Streams(i) /\ Streams(i)[k].mode = m

(***************************************************************************)
(* A file that a live process writes is neither read nor written through   *)
(* another stream, of this process or of any other (process_can_open).     *)
(***************************************************************************)
WriterExclusive ==
  \A i, j \in DOMAIN procs :
    \A k \in DOMAIN Streams(i), l \in DOMAIN Streams(j) :
      /\ Streams(i)[k].mode = WRITE
      /\ Streams(j)[l].mode \in {READ, WRITE}
      /\ Streams(i)[k].file = Streams(j)[l].file
      => <<i, k>> = <<j, l>>

(***************************************************************************)
(* The streams that read or write denote existing files, and a reader is   *)
(* within its file; a listing is on an existing file or at its end; a      *)
(* stream that is not used denotes no file.  A stream left on a deleted    *)
(* file would use disk blocks that are free, or those of another file.     *)
(***************************************************************************)
SoundIn(store, s) ==
  /\ s.mode = UNUSED => s.file = FS!NoFile
  /\ s.mode = LIST => s.file \in DOMAIN store \cup {FS!NoFile}
  /\ s.mode = WRITE => s.file \in DOMAIN store
  /\ s.mode = READ => /\ s.file \in DOMAIN store
                      /\ s.offset <= Len(store[s.file].data)

StreamsSound ==
  \A i \in DOMAIN procs : \A k \in DOMAIN Streams(i) :
    SoundIn(files, Streams(i)[k])

(***************************************************************************)
(* No process region reaches into the kernel, or begins before that of its *)
(* parent.  As long as each spawn was Honest, each region is inside that   *)
(* of the parent, and the part of the output buffer still to be filled is  *)
(* in the parent memory, out of the region of the process.                 *)
(***************************************************************************)
Nested(p, parent) ==
  /\ parent.begin <= p.output
  /\ p.output <= p.outputLimit
  /\ p.outputLimit <= p.begin
  /\ p.end <= parent.end

RegionsNested ==
  /\ \A i \in DOMAIN procs : HeapEnd <= procs[i].begin
  /\ \A i \in 2 .. Depth :
       procs[i - 1].begin <= procs[i].begin /\ procs[i].begin <= procs[i].end
  /\ honest => /\ \A i \in DOMAIN procs : procs[i].end <= MemLimit
               /\ \A i \in 2 .. Depth : Nested(procs[i], procs[i - 1])

(***************************************************************************)
(* User code can access the pages of the current process, and never those  *)
(* of the kernel, whatever programs ask.  As long as each spawn was Honest *)
(* it can access no other page: neither its ancestors' nor those that are  *)
(* not pages of Toys.  A page can be accessed when all the page table      *)
(* entries that lead to it have the user bit.                              *)
(***************************************************************************)
MemoryIsolated ==
  mode = "user" =>
    /\ PagesOf(Current) \subseteq Accessible
    /\ \A a \in Accessible : HeapEnd <= a * PageSize
    /\ honest => Accessible \subseteq PagesOf(Current)

(***************************************************************************)
(* What makes MemoryIsolated inductive: the lowest level of the page table *)
(* alone is exact, os_set_current_process leaves no user bit behind when   *)
(* regions are nested.                                                     *)
(***************************************************************************)
UserBitsExact ==
  /\ Depth = 0 => userPages = {}
  /\ \A a \in userPages : HeapEnd <= a * PageSize
  /\ Depth > 0 => PagesOf(Current) \subseteq Accessible
  /\ Depth > 0 /\ honest => userPages \subseteq PagesOf(Current)

(***************************************************************************)
(* The kernel heap holds the records of the live processes and of their    *)
(* streams, one after the other, and nothing else: no two records overlap, *)
(* and exit frees exactly what was allocated since the matching spawn.     *)
(***************************************************************************)
HeapExact ==
  /\ heap <= HeapUnits
  /\ Depth = 0 => heap = 0
  /\ Depth > 0 => procs[1].base = 0
  /\ \A i \in DOMAIN procs :
       procs[i].base + ProcessSize + StreamSize * Len(Streams(i)) =
         IF i = Depth THEN heap ELSE procs[i + 1].base

\* The inductive invariant of the proofs.
KernelInvariant ==
  /\ TypeOK
  /\ WriterExclusive
  /\ StreamsSound
  /\ RegionsNested
  /\ UserBitsExact
  /\ HeapExact

-----------------------------------------------------------------------------
(***************************************************************************)
(* As long as a stream reads a file, the bytes of this file do not change. *)
(***************************************************************************)
FrozenFilesStep ==
  \A i \in DOMAIN procs \cap DOMAIN procs' : \A k \in DOMAIN Streams(i) :
    IsStream(i, k, READ) /\ IsStream(i, k, READ)' =>
      /\ Cursor(i, k) \in FS!Live'
      /\ files'[Cursor(i, k)] = files[Cursor(i, k)]

ReadersSeeFrozenFiles == [][FrozenFilesStep]_vars

(***************************************************************************)
(* A listing never skips a file: the files that it has still to give stay  *)
(* ahead of its cursor, until they are deleted or, the first of them only, *)
(* given to the process that reads the listing.                            *)
(***************************************************************************)
Ahead(f) == IF f = FS!NoFile THEN {} ELSE {f} \cup FS!After(f)
ToList(i, k) == Ahead(Cursor(i, k))

ListingsStep ==
  \A i \in DOMAIN procs \cap DOMAIN procs' : \A k \in DOMAIN Streams(i) :
    IsStream(i, k, LIST) /\ IsStream(i, k, LIST)' =>
      /\ (ToList(i, k) \cap FS!Live') \ {Cursor(i, k)} \subseteq ToList(i, k)'
      /\ Cursor(i, k) \in FS!Live' /\ Cursor(i, k)' # Cursor(i, k) =>
           i = Depth /\ Depth' = Depth /\ procs'[i].r8 > 0

ListingsSkipNothing == [][ListingsStep]_vars

(***************************************************************************)
(* A process starts with the address of its heap in r8, and the process    *)
(* that spawned it resumes with the code passed to exit in r8, not with    *)
(* the result of spawn or of exit, or with INTERNAL_ERROR after a fault.   *)
(***************************************************************************)
Pops == Depth > 1 /\ Len(procs') = Depth - 1

ResultsStep ==
  /\ Len(procs') = Depth + 1 /\ Depth > 0 =>
       procs'[Depth].r8 = OK /\ procs'[Depth + 1].r8 >= procs'[Depth + 1].begin
  /\ mode = "user" /\ Pops => \E r \in ExitCodes : r < ErrorBase /\ Exit(r)
  /\ \A r \in ExitCodes : Exit(r) /\ Pops => procs'[Depth - 1].r8 = r
  /\ mode = "fault" /\ Pops => procs'[Depth - 1].r8 = INTERNAL_ERROR

ResultsDelivered == [][ResultsStep]_vars

(***************************************************************************)
(* doc/toys.md: "Toys terminates this process and resumes its parent".     *)
(***************************************************************************)
FaultTerminates == [][mode = "fault" => Len(procs') = Depth - 1]_vars

(***************************************************************************)
(* doc/toys.md: "a process can only acces its own memory".                 *)
(***************************************************************************)
OwnMemoryOnly == mode = "user" => Accessible \subseteq PagesOf(Current)
=============================================================================
