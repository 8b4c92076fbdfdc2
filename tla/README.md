# Verification of Toys and of the Toy compiler

Toys is a small monotasking operating system for x86-64 PCs, written in its own language,
Toy, and compiled by its own compiler. This directory holds TLA+ modules that model the
file system, the kernel, the boot loader, the programs, the compiler and the tools that build
the disk image; configurations with which TLC checks them on small instances; and proofs, checked
by TLAPS, of what the kernel, the file system, snake and the shell keep, for all instances. Paths below are relative to `src/` of the repository, where the
operating system is in `src/`, the tools of the host in `tools/` and the documentation in `doc/`.
The file system, the compiler and the scanner exist twice, in Toy and in C, with the same
functions; each is modelled once, and the model holds for both.

## 1. Inventory

| Component | Source | State it keeps | Operations |
|---|---|---|---|
| File system | `src/toys/filesystem.toy`, `tools/toys/filesystem.c` | the disk; one block buffer; open streams | find, create, clear, delete, open, read, write, size |
| Processes, memory | `src/toys/processes.toy` | the stack of processes, their regions, page user bits, the kernel heap | push, pop (spawn, exit), set the current process |
| System calls | `src/toys/systemcalls.toy` | the file streams of each process | open, read, write, close, delete, stat, sleep, spawn, exit, reboot |
| Kernel entry | `src/toys/toys.toy` | the kernel record, saved results | system call handler, exception handler, start of the shell |
| Drivers | `src/toys/drivers.toy`, `src/gpu.toy` | screen buffers, cursor, color; keyboard | draw, clear, move the cursor, switch buffers |
| Boot loader | `src/boot/boot.toy` | where it is in the list of files and in memory | find the kernel, load its blocks, run it |
| Shell | `src/shell/shell.toy` | ring of commands, output buffer | edit a line, history, run a program, run a script |
| Editor | `src/edit/edit.toy` | buffer with a gap, first line shown | move, insert, erase, draw, open, save |
| Snake | `src/snake/snake.toy` | board of directions and free cells | turn, advance, eat, start again |
| File programs | `src/{copy,stat,list,delete,reboot}` | buffers and counters | one run each |
| Compiler | `tools/toyc/{parser,backend,toyc}.c`, `src/toyc/{parser,backend,base,toyc}.toy` | symbols, values, code, registers in use, frame size | parse, check types, generate code, in one pass |
| Scanner | `tools/toyc/scanner.c`, `src/toyc/scanner.toy` | place in the source, next token | read a token |
| Toys disk tools | `tools/maketoysfs.c`, `tools/dumptoysfs.c` | a disk in memory, the file being copied | write files to a new disk; save its files as TAR or CSV |
| Image tools | `tools/makebootefi.c`, `tools/makefatfs.c`, `tools/maketoysimg.c` | the file being copied | wrap the boot loader in an executable; put it and the disk in a FAT12 file system; put that in a partition |

How they interact. A program runs until it makes a system call or an exception; the kernel
runs that to its end with interrupts disabled, then resumes a process: the caller, the child
just spawned, or the parent of the process that exits. Only the last process of the stack
runs; the others are suspended in `spawn`, with their streams open. The kernel calls the file
system with the streams of the current process; all streams of all live processes share the
disk and the single block buffer. The shell spawns the other programs, gives them the rest of
its memory and an output buffer, and shares the screen with them. The boot loader reads what
the file system left on the disk, possibly when the machine stopped in the middle of a call.
The tools run one after the other, each on the files of the one before, until the image is made;
the firmware, the boot loader and the kernel then look for their parts of it at places that the
tools chose with constants of their own. `dumptoysfs` reads what the machine left.

What is hard, component by component, and what makes each correct:

- *File system.* The machine stops between two disk writes; blocks move between files and
  the free blocks without any being lost or shared; a full disk fails a write halfway; names
  that fill the header and blocks exactly full are at the edge of encodings that pack a
  pointer or a size in one field. Correct if it is a store of named byte sequences, in name
  order, and a stop damages no file other than the one that is written.
- *Kernel.* Suspended ancestors keep streams open while descendants open, write and delete
  files; region arithmetic at page boundaries; page user bits of upper level entries shared
  by parent and child; a heap that is freed by moving one pointer; a result that must reach
  the process that waits for it. Correct if no file changes under a reader, streams denote
  existing files, user code reaches exactly its own pages, the heap holds exactly the live
  records.
- *Boot loader.* Correct if it loads the bytes of the kernel file, from every disk on which a
  stopped file system leaves one, and ends when there is one.
- *Shell, editor, snake.* Long sequences of keys over encoded state (a ring, a gap, an array
  that is board, directions and free list at once), of which the user sees the screen.
  Correct if they behave as a history, a text and a game, and the screen shows these.
- *File programs.* Reads of whole buffers, end of file at a multiple of the buffer.
- *Compiler.* One pass, hence state that is kept between tokens and patched later: registers
  in use, words on the stack, a load that may be erased, chains of jumps to fill; encodings of
  instructions with exceptions for some registers. Correct if the code of a program that is
  accepted computes what the program means.
- *Scanner.* Longest match with one character of lookahead, comments read by pairs of characters.
  Correct if it makes of a text the tokens of the language.
- *Disk and image tools.* Files of sizes next to those of a sector, a block, a cluster; calls to
  the host that fail, and one (`fclose`) that is not checked; links of 12 bits across words and
  sectors; checksums of structures that hold checksums. Correct if what they write is what their
  reader (the file system, the firmware, the boot loader) finds, and what they save is what
  the disk held.

`PROJECT.json` lists the hazards one by one, each at its line.

## 2. Modules

```
FileStore   what the file system promises          SnakeGame -- rules --> Snake
  |  \                                              TextEditor -- text --> Edit --+
  |   Kernel                                        ShellHistory --------> Shell -+-- Screen
  |   Programs
  +-- BlockFS --> Boot --> ToysImage --> Images     Scanner, Compiler, ToyMachine, ToyLanguage
      (implements FileStore)                            --> CompilerRuns

Proofs: BlockFS --> BlockFSProofs --+
        Images -------------------- +--> BlockStoreProofs  Kernel --> KernelProofs
        Snake --> SnakeProofs     Edit --> EditProofs      Shell --> ShellProofs
        Programs --> ProgramsProofs
        (Induction: for loops and lists)
```

**FileStore**: files as names and byte sequences that grow at their end. Operators for
create, clear, append, delete. `Kernel` and `Programs` are built on it, `BlockFS` implements
it (property `StoreSpec`), so what is shown of the kernel holds for the kernel with its disk.

**BlockFS** translates `filesystem.toy` (and its port `filesystem.c`). A block is an array of cells, headers and data in the
same cells, so that reading a stale block as a header does what the code would do. A step is a
part of a function with at most one disk write, or one iteration of a loop; `pc`-like records
(`call`) hold the local variables. Calls do not interleave (interrupts are disabled), but
every intermediate disk is what a reboot may find. `Client` is any sequence of legal calls.

**Kernel** translates `processes.toy`, `systemcalls.toy` and `toys.toy`. The variables are the
processor mode, `procs` (the linked list of Process records as a sequence, root first), `heap`
(the bump pointer, in records), `userPages` and `userTables` (the user bits of the page table
and of its upper level) and `files`. A system call is one action, with the handler and the
return included; which call comes next, and its arguments, are open. User memory is left out
except for the addresses the kernel compares.

**KernelProofs**, **BlockFSProofs**, **BlockStoreProofs**, **SnakeProofs**, **EditProofs**,
**ShellProofs**, **ProgramsProofs** and **Induction** hold the theorems: see section 5.

**Boot** extends `BlockFS`: `Restart` stops the machine in any state; the loader then runs on
the disk that is left.

**ToysImage** extends `Boot` with the host programs that use the file system: `maketoysfs` and
`dumptoysfs` are sequences of steps (`tool` holds their local variables) that call the functions
of `BlockFS` and read or write files of the host by sectors. Each call to the host may fail
(`HostFails`); an unchecked `fclose` may leave the file cut short (`torn`).

**Images** adds `makebootefi`, `makefatfs` and `maketoysimg` and composes the whole life of a
disk: the programs run as the Makefile runs them, the machine is switched on (`SwitchOn`), used,
stopped and restarted as in `Boot`, and its files are saved (`SaveFiles`). A file of the host is
a sequence of sectors: headers and tables are records, the words of the file allocation table and the
code are cells. What the firmware does with the image (find the partition, follow clusters, jump to
the entry point) is at the end of the module, as operators; it is not in the sources.

**SnakeGame / Snake**, **TextEditor / Edit**, **ShellHistory / Shell**: an abstract
specification of what the user plays, edits or recalls, and the program that does it, with
`GameSpec`, `EditorSpec` and `HistorySpec` as refinements. **Screen** is the screen driver,
which Edit and Shell use for all they draw.

**Programs**: `copy`, `stat`, `list`, `delete` above FileStore, from their arguments to their
exit code.

**Compiler** has one operator for each function of the parser and of the back end; its
argument and its result are the Compiler structure; rules of the grammar refer to each other
through `Parse(rule, c)`. The source is a sequence of tokens; the code is the bytes that the
back end writes, so that offsets, chains of references kept in the code, and the forms of operands
are those of the program. **Scanner** makes tokens of characters. **ToyMachine** decodes such
bytes, with the meaning the processor gives them, and executes them on registers and a memory of
words. **ToyLanguage** says what a program means, on its
tokens, without compiling: it splits expressions at the operator that binds the least and
executes statements. **CompilerRuns** writes programs phrase by phrase and compares the two, and
compares the scanner with a definition of tokens by longest match (`Lexemes`).
(The recursive operators of these modules are why they hold no theorem.)

`MC*` modules define the constants of the instances.

## 3. Runs

Each run answers a question of its own.

| Run | Shows | Distinct states |
|---|---|---|
| `kernel_memory` | regions nest, user code reaches exactly its pages, as long as programs keep to what the kernel relies on, and never the kernel; the heap is exact, results reach the right process | 92,497 |
| `kernel_files` | exclusive writers, sound streams, frozen files for readers, complete listings | 665,040 |
| `kernel_isolation` | (violation) a process can reach pages that are not its own | |
| `kernel_fault` | (violation) an exception of the root process does not end it | |
| `block_calls` | blocks partitioned, files in order, crash safety, reads and results right, calls return, the blocks are a FileStore | 162,283 |
| `boot` | the tools make a disk that the firmware, the loader and the kernel find their way in; the loader loads the kernel after any stop; the files can be saved | 353,641 |
| `snake` | the board is consistent, the screen shows the game, the game follows its rules | 624,870 |
| `edit` | the gap buffer is an editor, the screen shows the text | 22,585 |
| `shell` | the ring is a history, the screen is right, scripts run their lines | 57,259 |
| `programs` | copy, stat and list are right, and end | 391 |
| `compiler` | texts become the tokens of the language; accepted programs compile to code that does what they mean, with consistent frames | 47,921 |
| `compiler_load` | (violation) a load from the register r13 does not read what it points to | |

### Bounds, and why they are enough

- *kernel_memory*: pages of 4 bytes, two upper level entries, memory of 20 bytes with the
  heap below 4 and one page above, so that a process starts inside, at the end and beyond a page and shares
  an upper level entry with its parent or not. The arguments of `spawn` cover regions that are
  empty, that overlap the arguments, that leave no room for the stack, and output buffers
  on both sides of each boundary; stack pointers inside the region of the caller, below it, above it and
  above the memory; a word for the output pointer that the child can write, or not. 7 heap units let
  the heap run out both in a process record and in a stream record. Programs exit with 0, the status that
  `spawn` and `exit` return too, with 2, and with 7, which is refused.
- *kernel_files*: 3 files, 3 names, 6 heap units: two processes with a stream each, or
  one with three or four, with files to create or delete between. Three files is the least for a
  listing to stand on one, with one before and one after it, when it is deleted.
- Both use a `VIEW` (`MCView`) that leaves out the results (`r8`): no action depends on them, so states that differ
  in them only have the same future. Properties of steps are checked on all steps, whose results are those
  that the step has just stored.
- *BlockFS*: blocks of 4 cells, 3 data blocks. A name of size 1 leaves data in the first
  block; one of size 2 fills it (the 488 character name). Writes of 3 bytes end
  inside a block, at its end, or, with the disk full, after some bytes or none; they begin in
  all of these places. Three blocks
  are enough for a free list of length 0 to 3, and for two files, one of two blocks. Reads of 1 and 2 bytes reach
  each position of a file and ask for exactly what is left, those of 4 take more than a block or than what is left.
  Bytes 0 to 3 include values that are block numbers, so that data read as a pointer is seen.
- *boot*: blocks, and sectors, of 4 cells; 4 blocks, so that a disk of two files and one of a file
  of two blocks are made, and the machine can write one block more. Files of 0, 4, 7 and 8 bytes
  end at a sector, inside one, or at two; lines end at a sector or cross it. One file has a name
  that is renamed, one that is not; one has a name too long for a TAR entry; one is not a source.
  Boot loaders of 0, 5, 12, 13 and 20 bytes, for at most 12. The file allocation table has 24
  words of 4 bits, 8 clusters, in two sectors: files in one or several clusters, links on both sides of the
  middle of a word pair and of the end of a sector, tables that are full. `makefatfs` is also given
  files alone (`OtherFiles`), of sizes that the other programs do not make. Two sectors of
  partition entries; the least disk has 28 sectors, so that some are raised to it and some not.
  On the machine, `MachineOps` and `MachineNames` bound what clients do: open for writing, write
  and delete two of the three files; the calls that read are in `block_calls`. The memory has 9 cells, less than
  the disk (in the code, 192 KB of 1 MB): kernels of up to two blocks fit in it, those of three overrun it.
- *Snake*: 3 by 3, `TailOffset` 1: the least board where the snake turns on itself, the free
  list shrinks to nothing, and both the last and inner entries of the list are used.
- *Edit*: buffer of 5, words of 2 characters (both loops of the copy run, with and without a
  rest), screen of 3 by 3 (wraps, scrolls).
- *Shell*: commands of 2 characters, ring of 3 (the arrows go around and stop), output of 4
  (fills up in the middle of a message), scripts of 5 characters (two lines and a
  continuation).
- *Programs*: buffer 2, chunk 3, files of 0 to 6 bytes: ends inside and at each boundary.
- *Compiler*: fourteen families of programs, with the number of phrases that makes the shortest
  program in which the pieces interact: three binary operators and brackets, a call as an
  argument of a call with a value saved, three comparisons, a `break` in an `if` in a `loop`
  with an `else`, assignments through two levels of pointers, mutual recursion through a
  forward declaration, static data read by a function in machine code. Three of the families
  (`Deeper`) compute with 4, 5 or 6 values in registers, so that each of the eight registers is used, with its
  own encoding, and they run out; one has a structure and a frame of more than 16 words, whose
  offsets take 4 bytes. Two are written in characters, for the scanner, with up to three phrases
  between a beginning and an end: operators, comments, quoted characters; words and keywords.
  Integers of 11 bits, so that a multiplication or a shift overflows. Code of at most
  380 bytes, at most 200 instructions are run, programs do 10 iterations: loops
  that take longer never end, in the families.

`CHECK_DEADLOCK FALSE` is set where the system stops: a machine that is halted or
rebooted, a game or a program that ended, a program that has all its phrases.

### Fairness

`WF(Step)` in BlockFS, `WF(LoaderStep)` and `WF(ToolStep)` in Images, and `WF(Step)` in Programs:
a call, the loader, a host program or a program of Toys that can take a step takes one, since it
runs alone on a processor that runs (make waits for each host program). Nothing
is assumed of clients, users or other programs, and the kernel, snake, editor and shell have no
liveness property: they wait for input. `ToolsEnd` says that each host program ends, whatever
it is given and even if the host never fails. `ProgramsEnd` excepts `list` when the listing cannot
be opened, which does not end (below).

## 4. What the code does that a reader may not expect

- `kernel_fault`: `doc/toys.md:1213-1215` says an exception terminates the process;
  the root process cannot exit, so it continues where its last system call returned.
- `kernel_isolation`: `doc/toys.md:926-927` says that a process can only access its own memory. The end of the
  region of a child is the page of the stack pointer of its parent (`processes.toy:111`), which the
  parent sets as it likes and which nothing compares with the end of its own region. The child gets the pages in between, those of an
  ancestor or beyond the memory of Toys; when it exits those that are not in the region of its
  grandparent stay accessible, since only that region is closed (`processes.toy:84-90`).
- `os_spawn` does not compare the address of the output pointer with the region of the child either (`processes.toy:120`): a child
  can then write where the kernel reads the place of its output (`systemcalls.toy:163-165`). That of
  the root process is a local variable of `os_spawn_shell`, gone when it runs: its output goes anywhere.
  The shell does none of this.
- The boot loader does not compare the kernel file with the 48 pages that it allocates (`boot.toy:60`).
- `compiler_load`: for the first word of a structure, `tc_write_load_insn` omits the offset
  (`tools/toyc/backend.c:168`, `backend.toy:140`). With r13, the sixth register in use, the
  processor takes this form for another one, relative to the instruction pointer, followed by 4
  bytes of displacement. No source of Toys has six values in use in front of such a load.
- `doc/toys.md:214-215` says the super block's fields hold a block number + 512; its next file is
  a plain block number.
- `makefatfs` compares the clusters with one and a half times the bytes of the table, which
  has room for two thirds of them (`makefatfs.c:149`): a Toys disk of 1.3 to 3 MB
  is accepted, and the links run over what follows the table. The last cluster is
  not in the partition as a whole if the disk is not a multiple of 4 sectors. `DiskBoots` excepts
  both (`FatFits`); the disk of Toys has 1 MB.
- `maketoysimg` raises the size of a small disk to 2048 sectors in the first header, but writes
  the second header after the partition (`maketoysimg.c:143`); `BackupHeader` excepts such disks.
- `makefatfs` says of an empty boot loader file that it can't read it (`makefatfs.c:266`).
- No tool checks `fclose`, and one that fails leaves the file that it was writing; the Makefile has no
  `.DELETE_ON_ERROR`, so make, run again, takes it for a complete one.
- The Makefile has rules for `tools/mkgpt`, which does not exist; `README.md:119` says
  `makefatfs` for `maketoysfs`.
- Create, when the previous file is not the super block, writes the link before the header:
  a stop between them can cut the files after it off. `OthersSurvive` states this exception
  (`HalfLinked`). The list of files then goes through old data: the loader may read a number that
  is not that of a block (`FindError`), or start such data, whose size may even be before its
  code; `KernelLoaded` says what holds then, and what holds otherwise.
- The loader searches for ever if there is no kernel file.
- The editor clears the file before it writes it; any error of open shows an empty text; rows
  that are too long are overdrawn.
- A shell output that fills the screen is overdrawn; a script line that is too long is cut.
- `list` ignores the status of `open`: if it fails, it takes the error for a size.
- The seed of snake is never initialised: the model draws any free cell.
- `doc/toys.md:579-581` says the cursor is drawn as a space; it keeps the character.
- `doc/toyc.md:33` lets shifts follow each other; `parser.toy:376` accepts one. `doc/toyc.md`
  says a function name can be used alone; a forward declared one cannot: its
  members are taken for a type, without the `&` that the types need (error 44, `parser.c:195`), as are those of a structure.
- A cast keeps the origin of a value and loses its slot (`parser.toy:324`): `p.b as T = e` and
  `x as T = e` store at slot 0. A second forward declaration resolves earlier calls to the
  wrong place (`parser.toy:664`). The compiler run leaves such programs out: the sources of
  Toys have none.
- The compiler in C never calls `tc_check_symbols` (`parser.c:733`), as `toyc.toy:82` does: a
  program that calls a function declared and never defined is accepted. `Compile` has the check.
- The scanner reads two characters that may begin an operator together, and refuses pairs
  it could read one by one; no correct program has them (`ScannedRight`).

## 5. Proofs

Each theorem holds for all values of the constants that satisfy the assumptions below. An
invariant that a run checks is seldom inductive; each section says what was added to it and
why. The strengthened invariants were checked by TLC, on the instances of the runs, before they
were proved: `SnakeInvariant`, `EditInvariant`, `KernelInvariant` and `ProgramInvariant` as they are, `BlockInvariant` with the
sets of files and of blocks that it says exist.

| Theorem | States |
|---|---|
| *KernelProofs* | |
| `KernelInvariantHolds` | `Spec => []KernelInvariant` |
| `TypeCorrect` | `Spec => []TypeOK` |
| `WritersAreExclusive` | `Spec => []WriterExclusive` |
| `StreamsStaySound` | `Spec => []StreamsSound` |
| `RegionsStayNested` | `Spec => []RegionsNested` |
| `HeapStaysExact` | `Spec => []HeapExact` |
| `MemoryStaysIsolated` | `Spec => []MemoryIsolated` |
| `NamesStayUnique` | `Spec => []FS!UniqueNames` |
| `KernelUsesStore` | `Spec => FS!Spec`: the kernel changes files by steps of FileStore only |
| `ReadersAreSafe` | `Spec => ReadersSeeFrozenFiles` |
| `ListingsAreComplete` | `Spec => ListingsSkipNothing` |
| `ResultsAreDelivered` | `Spec => ResultsDelivered` |
| *BlockFSProofs* | |
| `BlockInvariantHolds` | `Spec => []BlockInvariant` |
| `NoBlockIsLost` | `Spec => []BlocksPartitioned` |
| `FilesStayInOrder` | `Spec => []FilesInOrder` |
| `OtherFilesSurvive` | `Spec => []OthersSurvive` |
| `BlockFSImplementsStore` | `Spec => StoreSpec`: the calls on blocks implement FileStore |
| *BlockStoreProofs* | |
| `ResultsAreRight` | `Spec => []ResultIsRight` |
| `ReadsAreRight` | `Spec => []ReadIsRight` |
| `BackupHeaderIsRight` | `ImagesSpec => []BackupHeader` |
| `DiskBootsAlways` | `ImagesSpec => []DiskBoots` |
| `KernelIsLoaded` | `BootSpec => []KernelLoaded` |
| `DumpSavesTheFiles` | `ImagesSpec => []DumpIsRight` |
| `ImagesLoadTheKernel` | `ImagesSpec => []KernelLoaded` |
| *SnakeProofs* | |
| `SnakeInvariantHolds` | `Spec => []SnakeInvariant` |
| `FreeListStaysExact` | `Spec => []FreeListExact` |
| `ScreenStaysExact` | `Spec => []ScreenShowsGame` |
| `PlaysByTheRules` | `Spec => GameSpec`: the program implements the game |
| *EditProofs* | |
| `EditInvariantHolds` | `Spec => []EditInvariant`: the gap stays in the buffer |
| `EditImplementsEditor` | `Spec => EditorSpec`: the buffer with a gap implements the editor |
| `ScreenShowsTheText` | `Spec => []ScreenShowsText` |
| *ShellProofs* | |
| `ShellTypes` | `Spec => []ShellTypeOK` |
| `OutputStaysEnded` | `Spec => []OutputEndsLine` |
| `ShellKeepsHistory` | `Spec => HistorySpec`: the ring implements the history |
| `ScriptsRunTheirLines` | `Spec => []ScriptRunsLines` |
| `ScreenShowsTheShell` | `Spec => []ScreenShowsShell` |
| *ProgramsProofs* | |
| `ProgramInvariantHolds` | `ProgramSpec => []ProgramInvariant` |
| `CopiesAreRight` | `ProgramSpec => []CopyIsRight` |
| `StatsAreRight` | `ProgramSpec => []StatIsRight` |
| `ListsAreRight` | `ProgramSpec => []ListIsRight` |

### The kernel

    KernelInvariant == TypeOK /\ WriterExclusive /\ StreamsSound
                       /\ RegionsNested /\ UserBitsExact /\ HeapExact

Most of these are not inductive alone. Streams stay sound only if writers are exclusive (a file
that is cleared or deleted has no reader that could be past its new end). Regions stay nested
only if the region of the current process is a region, since `spawn` cuts the child out of it.

What programs pass to `spawn` is not restricted. The kernel checks some of it, and relies on the rest: `Honest` says
which (the stack pointer is not above the region of the caller; neither the child nor its
output overwrites the word at `outputAt`), and the history variable `honest` that all spawns since the boot were so.
`RegionsNested`, `UserBitsExact` and `MemoryIsolated` have a part that holds whatever
programs do (regions begin beyond the kernel, after the beginning of their parent's, and end after they begin; user code never
reaches the kernel and always reaches its own region), and a part under `honest` (regions end in that of their parent,
output buffers are out of the region of the child, user code reaches nothing else);
`kernel_isolation` shows that the last one needs it. The other theorems do not depend on `honest`. What follows once a program has written to memory that
is not its own, or to a place that only it knows through the kernel, is left open (mode `lost`).

`MemoryIsolated`, what matters to a user, follows
from `UserBitsExact` and `RegionsNested`: the bits of both page table levels are exactly those
of the pages of the last process, which must hold of the levels together, because an entry
cleared for the parent may be one the child needs.

The argument: lemmas say what each operator does to the part it changes (`FileFields` to
`DeleteFile` for files, `StackAfterSpawn` and `StackAfterExit` for the stack, `LocalStep`,
`ExclusiveStep` and `SoundStep` for changes inside one process); one lemma per action (`OpenStep`,
`ReadStep`, ..., `SpawnStep`, `ExitStep`, `FaultStep`) shows it preserves the invariant;
`NextInvariant` collects them, and each theorem is the temporal step.

The second part of `KernelProofs` is about what relates two states. A listing skips nothing because names are
unique: the file after `f` is the first of those with a greater name, so one that is created or
deleted elsewhere does not move it. That names stay unique is an invariant of its own, kept
since `open` creates a file only when it found none. That a reader's file is not changed follows from
`WriterExclusive` before the step: who writes, clears or deletes it has no other stream on it.

### The file system

`BlocksPartitioned`, `FilesInOrder` and `OthersSurvive` are about lists that the code follows, from a
block to the next one of its file or of the free blocks, and from a file to the next one. In the
middle of a call, lists are broken on the disk: a chain goes on into the free blocks, two lists share
their end. `BlockInvariant` says that there are a set `L` of files and a map `own`
from blocks to the file they are in (0 if they are free), such that, at each step of each call,
certain lists have exactly those blocks:

- `Layout(own, s, L, h)`: the free blocks are a list from `h` and those of each file a list from its
  header, along `s`, the links of the disk, or these links but for one that is cut (`Cut`);
- `Directory(d, L, first, nf)`: the files are a list along `nf`, in the order of their names;
- `AtFind`, `AtScan`, ..., `AtDeleted`, one for each value of `pc`: which of these hold there, and what
  the local variables are relative to them (`NewBlock`: the new file is the first free block;
  `Follows`: the place in the list of files).

A list is said without recursion: some function gives a rank to each element, the successor of an
element is the one of least rank beyond it, or 0 if there is none (`Sorted`, `Links`). For the files,
the rank is the name. What a call does to lists are then lemmas on ranks (`ListTail`,
`ListJoin`, `LayoutTake`, `LayoutGrow`, `LayoutClear`, `LayoutDelete`, `DirectoryInsert`,
`DirectoryRemove`), used by one lemma per action (`CreateLinkKeeps`, `NextWriteKeeps`, ...). `WalkOfList`
connects them to what the runs check: the sequence that `Walk` computes from `a` has the
elements of the list from `a`, once each, and ends before the limit of steps because a list
has no more elements than there are blocks (`NoInjection`).

`OthersSurvive` needs more: that no write touches the data of another file. `IsPath` numbers the
blocks of a file, and `PathData` shows that the bytes of `Data`, a sequence made block by block,
are each at one place (`Number`, `PlaceOf`) of one block; so data is unchanged if the
cells of its blocks are, but for the link to the next file (`DataFrame`). `StepFrame` shows that a
step changes only blocks that no other file has (`Changes`), and at most that cell of
other headers. `OthersListed` shows that the list of the disk still reaches all other files,
halfway through a call, but when `HalfLinked`.

`BlockFSImplementsStore` says that a call, seen as one step, is one of FileStore. The files of the disk
before the call (`before`) are compared with those when it ends, so `StoreFacts` says what of the
call remains known on the way: the cells that are read as data are bytes (`ByteCells`), the calls that
only look do not change the files, and the file that is written has its name until the end.
A write is the long part: `WriteGoesOn` says, while blocks are added, that the file from its first
block to the one in the buffer has the old data and the bytes written so far (`IsWriting`), though
the disk does not yet end it there; `WriteEnds` says it of the last block. `PathIsData` computes the
data of a file from any numbering of its blocks, so each write to the disk is a statement on cells,
and `NextWriteData` and `StopWriteData` are the two that append. Each end of a call has then its
lemma (`PublishFiles`, `ClearedFiles`, `DeletedFiles`, `CommittedFiles`, `RestEnds`) and
`StoreStep` collects them.

`BlockStoreProofs` goes on from there. `ResultsAreRight` is about what a call answers. `CallFacts` says what the function knows at each step of
it: while it looks for a name, the files it has passed have smaller names (`Smaller`), so it stops at the
file of that name or there is none (`FoundRight`); a new file is made only for a name that was not
found (`CreateRight`), and a file is cleared or deleted only under its name (`ClosedRight`); `stat` adds the sizes of
the first blocks of the path (`SizeOf`). What the results say of the files comes from `StoreFacts`.

`ReadsAreRight` is about a stream that stays open while calls on other files take, give back and move
blocks. `ReaderRight` says that its place is in a block of the path of its file (`StreamAt`, `InFile`) and, during a read,
that the bytes got so far are those of the file between two places of that path (`ReadGoesOn`).
A step of a read goes from one place to a later one (`ReadContinues`, `ReadFinishes`, `ReadStops`), and the bytes between
places join (`ReadJoins`). For the steps of the other calls, the file that is read is not the
one that the call changes (`Held` lists the steps that change one), as no file is both read and
written; `StepFrame` then gives its path and its cells unchanged (`ReaderFrame`, `ReaderStays`).

### The image of a disk

`HostRight` says of each program that follows `maketoysfs` what it wrote: nothing, then what it writes
first and the sectors copied so far (`Copying`), then all of it; and of each file that it was
given that its size and its sectors agree (`IsFile`). It holds whatever `maketoysfs`, the machine and
`dumptoysfs` do. The rest is about the last output: the places of its sectors (`InImage`,
`InPartition`), the checksums (`CheckedIs`), the words of the file allocation table, which are
sums of bits that several entries could have set (`FatWordIs`, `WordsAre`), the entry that three
words make (`NextClusterIs`), and the chain that the firmware follows from the first cluster of a
file (`ChainOf`, by induction).

### The boot loader

The loader runs on the disk of a call that stopped anywhere, so `LoadRight` adds to the invariants of the file
system what it needs of such a disk: the files that the call is not about keep their data when it ends too
(`EndKept`; `OthersSurvive` says it of the call that runs), and the super block has no name, since the
loader compares it with that of the kernel (`SuperHasNoName`). From these: next_block ends, from any
block and at any step, though it may go on into free blocks (`DiskEnds`: the lists of the step, one after
the other); next_file stays in the list of files that the disk has, old data included
(`ListedNext`, from `WalkComesBack`); a file has room for its header unless `HalfLinked` (`ListedSizes`). `LoaderRight` says that the
loader has the first blocks of a path in memory, each with its last cell, which loading
the next one overwrites (`KernelAt`, `BlockLoads`); at the end these are the bytes of the
file (`ImageIs`, by `PathData`). When
the next block does not fit in the memory, the path has one more block than those, which makes the file larger
than what fits (`OverrunMeans`).

### The programs that use the file system

    ImagesRight == HostRight /\ LoadRight
                   /\ (a program of the host runs => the machine is off)
                   /\ MakeFacts (of maketoysfs) /\ DumpFacts (of dumptoysfs)

The two invariants above hold together, with what each program knows of its call: the programs are
clients of `BlockFS` (`MakeCreates` to `MakeAppends`, `DumpNext` to `DumpSaves`), so `LoadRight` holds after their steps as after
any other client's, and `ImagesLoadTheKernel` is `KernelIsLoaded` for the disks that they make.

`dumptoysfs` follows the list of files that the disk has, which no step of it changes. `Saves(S)`
says that its entries are in the order of their names and are those of the files S; S is the
files that the list has before the next one (`Nexts`, `BeforeNext`), and `Listed(disk)` at
its end. While it saves a file (`Saving`, `Contents`), the stream is after the bytes that it has got (`PositionOn`), which are all
but the `remaining` ones, and `Got` says what they gave. For a TAR file they are whole sectors, which the
next one follows (`Padding`), or the last one is not whole and nothing remains (`SectorsMore`); for a CSV file,
the lines that begin in them, and their last byte (`LinesMore`). `ReadIsDone` takes what a read has got from `ReadIsRight`.

### The programs

`ProgramInvariant` says what the loops have done of their work: `copy` has written the first `offset`
bytes of its source (`CopyOn`), `stat` has counted the lines that begin in them (`StatOn`,
`LineStarts`), `list` has the items of the files that come before the next one (`ListOn`, `Passed`). A buffer
more is then a statement on sequences (`PrefixGoesOn`), on the cardinality of a set of places that is moved (`Moved`,
`LinesGoOn`), or on the order of names: `list` drops an item that is equal to the last one only, so
equal items must follow each other. They do because names are in the order of their characters (`NameOrder`), and
cutting a name (`OrderOfPrefix`), dropping the path (`OrderOfRest`) and stopping at a slash (`OrderOfComponent`)
keep this order, in a weak form; `ItemAdded` concludes from the order being strict (`OrderIsStrict`).

### Snake, the editor and the shell

The board of snake is one array that is read as directions, as cells that are free and as the list
of free cells. `SnakeInvariant` relates the three to the snake (a sequence, `Body`): the cells of the
list and of the snake are disjoint and, while the game runs, are all the cells; each cell of the snake
holds the direction of the next one; each cell of the list holds its own place in it (`ListSound`).
`UseCell` and `FreeCell` show what the two functions do to the list; `FirstBoardFits` and the lemmas
before it show, by induction on cells, that the loops at the start of a game establish
it on any board. `PlaysByTheRules` maps the board to the snake, the fruit and the score of `SnakeGame`.

For the editor, `EditInvariant` is short and the work is in the functions. `CopyIsMove` says that
`mem_copy`, for words of any size and ranges that overlap, gives the buffer with the range
moved: after each word or character, the part that is done is moved as a whole
(`MovedDown`, `MovedUp`), since what is read next was not written before. So the text does not
depend on where the gap is (`CursorMoves`), and what is typed or erased at the gap changes it as it
should (`InsertIs`, `EraseIs`). `BackwardFinds` follows the loop of `ted_move_backward`: its row is the
number of line feeds between its place and the cursor, and never more than the lines to go; so where it
stops is the start of line that `TextEditor` names (`AboveIs`); its column is what is drawn of the line of the cursor. `ForwardFinds` counts from the cursor on.

`ScreenShowsTheText` follows the loop of `ted_draw` over the buffer. After some characters the pen is on the
row with as many line feeds before it (`Drew`), in the column that the part of the line before it takes when
tabs are drawn as two spaces (`ShownTo`), and the screen shows the lines up to there and is blank after (`Shows`).
What is drawn of a part of a line is the beginning of what is drawn of the line (`DrawnBegins`), so a character that
is drawn is the one that the line has there, and falls in the row as long as the line fits (`ShowChar`).
The loop ends after the text or the last row, when the lines are complete (`DrawIsDone`).

For the shell, places in a ring are counted modulo its size; `Places` gives all that the proofs need
of that arithmetic. `PastOf` and `BackOf` read the ring as the past lines and how far back the user
is; each key is then a step of `ShellHistory`. `OutputEndsLine` holds when the buffer is full too
because the last character is written over.

`ScriptInvariant` says, of each prefix of a script: what was run and the line that is being read are the lines
of the prefix once joined (`Join`, `LinesOf`), as long as all of them fit. A character more
adds to the last line, ends it, or takes a backslash from it (`NewLineRead`, `CharRead`). `Join` and `LinesOf` are recursive
functions; `JoinAppends` and `LinesAppend` say what they give of one character more, and the rest follows from that.

What the shell draws is written by a pen, a place on a screen that is clear (`Wrote`): full rows, and the
cells of the row that it is on. `Writes` says the same of characters: the rows before, and those of a text
(`RowsOf`). A character adds a cell, or a row when it falls in the last column (`WritesChar`), the end of a line
starts a row (`WritesNext`), and nothing that is drawn later changes what was, as long as there are rows left.
`OutputWritten` follows the loop of `sh_draw_string` over the lines of an output, `ShellDrawn` the four parts of
`sh_draw`. The proof needs `NumCols > 1`: with a single column, a command would be drawn from the wrong row,
since the column after the character `>` is not compared with the number of columns.

### Induction

The induction theorems of the library have an operator as a parameter, which the
provers cannot instantiate. Module `Induction` proves induction for *sets* of naturals
(`NatInductionSet`, `IntervalInduction`) from `NatLessThanWellFounded`: a lemma on a recursive
function is that the set of numbers for which it holds is all of them. Most loops of the proofs
are done so. `Recursion` gives the function that a recursive definition speaks of, and `RecursionIsOne` says that
there is no other one.

### Assumptions

The named assumptions of the modules, which TLC evaluates in each run: sizes and addresses
are naturals, a page and a chunk are not empty, inputs have their types. Besides:

- The files of an image have different names (`StoreAssumption`): images are made by a file system
  that looks for a name before it creates a file.
- The numbers of blocks and of names are values of bytes (`Bytes` of `BlockFSAssumption`): a cell of
  the model stands for any bytes of a header, and a cell that was a header can be read as data.
- A block has more than two cells (512 bytes in the code), and room for the header of a file with
  the longest name (`2 + NameSize[n] <= BlockSize`: the code accepts names of up to 488 bytes).
- The numbers that stand for names are in the order of the characters of the names (`NameOrder` of
  Programs), as the file system compares names byte by byte.
- The file allocation table has an even number of words in each half, and at most three times 4096 words:
  entries have 12 bits (`NIBBLES`: 2048 in the code).
- Names of files are given different numbers (`FileNumber`).
- The screen of the shell has more than one column, there is a character to type, and the end of a line is neither a
  character of a command, nor a backslash, nor `>` (`ShellAssumption`).
- The memory of the boot loader has room for one block, the first that it reads (`BootAssumption`).
- The guards of `Write`, `Read` and the others of BlockFS's clients are what the kernel guarantees:
  `WritersAreExclusive` is one of them.

### Only model-checked

- Out of the provers' reach: liveness (`CallsReturn`, `ToolsEnd`, `ProgramsEnd`); what is computed
  by the recursive operators of the compiler and of its machine (CompilerRuns).
- Not proved yet: `MakeIsRight`, of the program that makes the disk.
- `UserBitsExact` is proved, as a part of `KernelInvariant`; the runs check what follows
  from it, `MemoryIsolated`.

## 6. Not modelled

- Disk errors: after one, the contents of the buffer are old data and the functions do
  not look at the status.
- The limit of the memory for symbols and values of the compiler; programs in several source
  files, and the input and output of its drivers; values of integers above the bits of the run.
- What happens after the kernel, the loader or a program has written over memory that is not meant for it: the models end
  there (`lost`, `overrun`).
- The UEFI declarations, descriptor tables, exception frames, keyboard and clock: machine
  configuration and inputs. The firmware is external: only what it must find is modelled.
- The wording of messages, the identifiers in the headers of the disk and the metadata of TAR entries.
- The tests.

## 7. Plan

Done: the modules of section 2, with their runs; the proofs of section 5. What remains, in order
of interest:

1. The proof of `MakeIsRight`, along the lines of that of `DumpIsRight`.
2. Disk errors, with the old contents of the buffer; the compiler on several sources, where
   `tc_copy_symbol_names` keeps names valid when the next source is read over the first.
3. The types of ToyLanguage, so that programs that are refused are also shown to be wrong.
