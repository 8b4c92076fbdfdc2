----------------------------- MODULE ToysImage -----------------------------
(***************************************************************************)
(* The host programs that make a Toys file system (tools/maketoysfs.c) and *)
(* that save its files (tools/dumptoysfs.c), with the functions of BlockFS *)
(* (tools/toys/filesystem.c).  Files are read in sectors, of the size of a *)
(* block.                                                                  *)
(*                                                                         *)
(* A call to the host that fails ends a program with status 1; what fclose *)
(* fails to write is lost, without a word.  Messages, the metadata of TAR  *)
(* headers and the totals that are printed are left out.                   *)
(***************************************************************************)
EXTENDS Boot, FiniteSets

CONSTANTS
  Arguments,    \* input: the files given to maketoysfs, as sequences of [path, data]
  FileNumber,   \* the number, in Names, of each valid name of a file
  SourceFiles,  \* the names that end with ".toy"
  LongNames,    \* the names of more than 99 characters
  NEW_LINE      \* 10

ToysImageAssumption ==
  /\ Arguments \subseteq Seq([path : STRING, data : Seq(Bytes)])
  /\ \A i \in DOMAIN FileNumber : FileNumber[i] \in Names
  /\ \A i, j \in DOMAIN FileNumber : FileNumber[i] = FileNumber[j] => i = j
  /\ SourceFiles \subseteq Names /\ LongNames \subseteq Names

ASSUME ToysImageAssumption

VARIABLES
  arguments,  \* those of maketoysfs
  tool,       \* the host program that runs, and its local variables
  output      \* what it wrote in its output file

tools == <<arguments, tool, output>>

NoTool ==
  [name |-> "none", step |-> "exit", status |-> 0, failed |-> FALSE, torn |-> FALSE,
   i |-> 0, at |-> 0, eof |-> FALSE, file |-> 0, size |-> 0, remaining |-> 0,
   tar |-> FALSE, content |-> <<>>, lines |-> 0, last |-> 0]

At(name, phase) == tool.name = name /\ tool.step = phase
GotoStep(phase, t) == tool' = [t EXCEPT !.step = phase]
Exit(status) == tool' = [tool EXCEPT !.step = "exit", !.status = status]

\* The programs test the calls to the host, but for fclose, the last one, and for
\* the writing of a CSV file.
HostFails ==
  /\ \/ tool.step \in {"open", "read", "write"} /\ (At("dumptoysfs", "write") => tool.tar)
     \/ At("dumptoysfs", "next") /\ tool.file = 0 /\ tool.tar
  /\ tool' = [tool EXCEPT !.step = "exit", !.status = 1, !.failed = TRUE]
  /\ UNCHANGED <<arguments, output, system>>

Close ==
  /\ tool.step = "close"
  /\ \E torn \in BOOLEAN : tool' = [tool EXCEPT !.step = "exit", !.torn = torn]
  /\ UNCHANGED <<arguments, output, system>>

\* The functions of the file system run until they return.
ToolCalls == tool.step \in {"create", "append", "size", "content"} /\ Step /\ pc # "done" /\ UNCHANGED tools
Returned(op) == pc = "done" /\ call.op = op /\ pc' = "idle" /\ call' = NoCall /\ UNCHANGED <<disk, buffer>>

Least(x, y) == IF x < y THEN x ELSE y

-----------------------------------------------------------------------------
(***************************************************************************)
(* maketoysfs.                                                             *)
(***************************************************************************)
FileName(path) ==
  CASE Len(path) >= 4 /\ SubSeq(path, 1, Least(4, Len(path))) = "bin/" /\ path # "bin/toys" ->
         SubSeq(path, 5, Len(path))
    [] path = "LICENSE" -> "src/LICENSE"
    [] OTHER -> path

MakeToysFS == [NoTool EXCEPT !.name = "maketoysfs", !.step = "next", !.i = 1]

MakeCreate ==
  /\ At("maketoysfs", "next") /\ tool.i <= Len(arguments)
  /\ LET name == FileName(arguments[tool.i].path) IN
     IF name \in DOMAIN FileNumber
     THEN Create(FileNumber[name]) /\ GotoStep("create", tool)
     ELSE Exit(1) /\ UNCHANGED system
  /\ UNCHANGED <<arguments, output>>

MakeOpen ==
  /\ At("maketoysfs", "create") /\ Returned("create")
  /\ IF call.status = OK THEN GotoStep("open", [tool EXCEPT !.file = call.newFile]) ELSE Exit(1)
  /\ UNCHANGED <<arguments, output, Streams>>

MakeOpened ==
  /\ At("maketoysfs", "open")
  /\ GotoStep("read", [tool EXCEPT !.at = 0])
  /\ UNCHANGED <<arguments, output, system>>

\* A whole sector is taken for the last one.
WrongMakeRead ==
  LET data == arguments[tool.i].data
      n == Least(BlockSize, Len(data) - tool.at)
  IN
  /\ At("maketoysfs", "read")
  /\ Write(tool.file, SubSeq(data, tool.at + 1, tool.at + n))
  /\ GotoStep("append", [tool EXCEPT !.at = @ + n, !.eof = n <= BlockSize])
  /\ UNCHANGED <<arguments, output>>

\* The end of the file is known when less than a sector can be read.
MakeRead ==
  LET data == arguments[tool.i].data
      n == Least(BlockSize, Len(data) - tool.at)
  IN
  /\ At("maketoysfs", "read")
  /\ Write(tool.file, SubSeq(data, tool.at + 1, tool.at + n))
  /\ GotoStep("append", [tool EXCEPT !.at = @ + n, !.eof = n < BlockSize])
  /\ UNCHANGED <<arguments, output>>

MakeWritten ==
  /\ At("maketoysfs", "append") /\ Returned("write")
  /\ \/ call.status # OK /\ Exit(1) /\ UNCHANGED writer
     \/ /\ call.status = OK /\ ~ tool.eof
        /\ GotoStep("read", tool) /\ UNCHANGED writer
     \/ /\ call.status = OK /\ tool.eof
        /\ GotoStep("next", [tool EXCEPT !.i = @ + 1])
        /\ writer' = [writer EXCEPT ![tool.file] = 0]
  /\ UNCHANGED <<arguments, output, reader>>

MakeEnd ==
  /\ At("maketoysfs", "next") /\ tool.i > Len(arguments)
  /\ GotoStep("write", tool)
  /\ UNCHANGED <<arguments, output, system>>

MakeWrite ==
  /\ At("maketoysfs", "write")
  /\ output' = [b \in 1 .. NumBlocks |-> <<"block", disk[b - 1]>>]
  /\ GotoStep("close", tool)
  /\ UNCHANGED <<arguments, system>>

-----------------------------------------------------------------------------
(***************************************************************************)
(* dumptoysfs, to a TAR or to a CSV file.  The output is a sequence of     *)
(* entries, with the content of a file in sectors or its number of lines.  *)
(***************************************************************************)
DumpToysFS(tar) == [NoTool EXCEPT !.name = "dumptoysfs", !.step = "open", !.tar = tar]

DumpOpened ==
  /\ At("dumptoysfs", "open")
  /\ GotoStep("next", [tool EXCEPT !.file = NextFile(disk[SUPER_BLOCK])])
  /\ buffer' = disk[SUPER_BLOCK]
  /\ UNCHANGED <<arguments, output, disk, pc, call, Streams>>

DumpFile ==
  LET b == disk[tool.file] IN
  /\ At("dumptoysfs", "next") /\ tool.file # 0
  /\ Begin([NoCall EXCEPT !.op = "stat", !.name = Name(b), !.file = tool.file])
  /\ pc' = "found"
  /\ ReadBlock(tool.file)
  /\ GotoStep("size", [tool EXCEPT !.file = NextFile(b), !.i = tool.file])
  /\ UNCHANGED <<arguments, output, Streams>>

\* The next file is not known yet when the file is skipped.
WrongDumpSized ==
  LET n == Name(disk[tool.i]) IN
  /\ At("dumptoysfs", "size") /\ Returned("stat")
  /\ \/ tool.tar /\ n \in LongNames /\ GotoStep("next", [tool EXCEPT !.file = tool.i]) /\ UNCHANGED reader
     \/ /\ ~ (tool.tar /\ n \in LongNames)
        /\ GotoStep("write", [tool EXCEPT !.size = call.size, !.remaining = call.size,
                                !.content = <<>>, !.lines = 0, !.last = NEW_LINE])
        /\ reader' = [file |-> tool.i, block |-> tool.i, offset |-> HeaderSize(n)]
  /\ UNCHANGED <<arguments, output, writer>>

\* Names that a TAR header has no room for are skipped.
DumpSized ==
  LET n == Name(disk[tool.i]) IN
  /\ At("dumptoysfs", "size") /\ Returned("stat")
  /\ \/ tool.tar /\ n \in LongNames /\ GotoStep("next", tool) /\ UNCHANGED reader
     \/ /\ ~ (tool.tar /\ n \in LongNames)
        /\ GotoStep("write", [tool EXCEPT !.size = call.size, !.remaining = call.size,
                                !.content = <<>>, !.lines = 0, !.last = NEW_LINE])
        /\ reader' = [file |-> tool.i, block |-> tool.i, offset |-> HeaderSize(n)]
  /\ UNCHANGED <<arguments, output, writer>>

DumpRead ==
  /\ At("dumptoysfs", "write") /\ tool.remaining > 0
  /\ Read(BlockSize)
  /\ GotoStep("content", tool)
  /\ UNCHANGED <<arguments, output>>

\* A sector filled with zeros.
Padded(bytes) == [i \in 1 .. BlockSize |-> IF i <= Len(bytes) THEN bytes[i] ELSE 0]

\* The lines that begin in bytes, which follow the byte last.
NewLines(bytes, last) ==
  {i \in DOMAIN bytes : (IF i = 1 THEN last ELSE bytes[i - 1]) = NEW_LINE}

\* The last byte of a sector is forgotten.
WrongDumpContent ==
  LET n == BlockSize - call.size IN
  /\ At("dumptoysfs", "content") /\ Returned("read")
  /\ GotoStep("write",
       [tool EXCEPT !.remaining = @ - n,
          !.content = IF tool.tar THEN @ \o Padded(call.bytes) ELSE @,
          !.lines = @ + IF Name(disk[tool.i]) \in SourceFiles /\ ~ tool.tar
                        THEN Cardinality(NewLines(call.bytes, tool.last)) ELSE 0])
  /\ UNCHANGED <<arguments, output, Streams>>

DumpContent ==
  LET n == BlockSize - call.size
      counted == ~ tool.tar /\ Name(disk[tool.i]) \in SourceFiles
  IN
  /\ At("dumptoysfs", "content") /\ Returned("read")
  /\ GotoStep("write",
       [tool EXCEPT !.remaining = @ - n,
          !.content = IF tool.tar THEN @ \o Padded(call.bytes) ELSE @,
          !.lines = IF counted THEN @ + Cardinality(NewLines(call.bytes, tool.last)) ELSE @,
          !.last = IF counted THEN call.bytes[n] ELSE @])
  /\ UNCHANGED <<arguments, output, Streams>>

DumpEntry ==
  /\ At("dumptoysfs", "write") /\ tool.remaining = 0
  /\ output' = Append(output, [name |-> Name(disk[tool.i]), size |-> tool.size,
                               content |-> tool.content, lines |-> tool.lines])
  /\ reader' = NoReader
  /\ GotoStep("next", tool)
  /\ UNCHANGED <<arguments, disk, buffer, pc, call, writer>>

DumpEnd ==
  /\ At("dumptoysfs", "next") /\ tool.file = 0
  /\ GotoStep("close", tool)
  /\ UNCHANGED <<arguments, output, system>>

FileTools ==
  \/ ToolCalls \/ HostFails \/ Close
  \/ MakeCreate \/ MakeOpen \/ MakeOpened \/ MakeRead \/ MakeWritten \/ MakeEnd \/ MakeWrite
  \/ DumpOpened \/ DumpFile \/ DumpSized \/ DumpRead \/ DumpContent \/ DumpEntry \/ DumpEnd

-----------------------------------------------------------------------------
(***************************************************************************)
(* Properties.                                                             *)
(***************************************************************************)
Succeeded(name) == At(name, "exit") /\ tool.status = 0 /\ ~ tool.torn
Refused(name) == At(name, "exit") /\ tool.status = 1 /\ ~ tool.failed

\* The files that maketoysfs is asked to put in the image.
Wanted == {[name |-> FileName(arguments[i].path), data |-> arguments[i].data] : i \in DOMAIN arguments}

\* The blocks of a file of some bytes.
BlocksOf(file) ==
  CHOOSE k \in 1 .. Len(file.data) + 1 :
    /\ ChunkStart(FileNumber[file.name], k) >= Len(file.data)
    /\ k > 1 => ChunkStart(FileNumber[file.name], k - 1) < Len(file.data)
BlocksFor(n) ==
  LET sum[k \in 0 .. n] ==
        IF k = 0 THEN 0
        ELSE sum[k - 1] + BlocksOf([name |-> FileName(arguments[k].path), data |-> arguments[k].data])
  IN sum[n]

(***************************************************************************)
(* The image that maketoysfs makes has the files it was given, under the   *)
(* names the system knows, whatever their size is next to that of a sector *)
(* and of the blocks, and in any order (maketoysfs.c:67-103).  It refuses  *)
(* to make one only if a name is not valid, or there twice, or if the      *)
(* blocks do not suffice.                                                  *)
(***************************************************************************)
MakeIsRight ==
  /\ Succeeded("maketoysfs") =>
       LET made == Files(disk) IN
       /\ output = [b \in 1 .. NumBlocks |-> <<"block", disk[b - 1]>>]
       /\ {made[f] : f \in DOMAIN made} =
            {[name |-> FileNumber[file.name], data |-> file.data] : file \in Wanted}
       /\ \A i, j \in DOMAIN arguments :
            FileName(arguments[i].path) = FileName(arguments[j].path) => i = j
  /\ Refused("maketoysfs") =>
       LET name(i) == FileName(arguments[i].path) IN
       \/ name(tool.i) \notin DOMAIN FileNumber
       \/ \E i \in 1 .. tool.i - 1 : name(i) = name(tool.i)
       \/ BlocksFor(tool.i) > NumBlocks - 1

Lines(data) == {i \in DOMAIN data : i = 1 \/ data[i - 1] = NEW_LINE}

\* What an entry says of a file.
IsEntryOf(entry, file) ==
  LET sectors == (Len(file.data) + BlockSize - 1) \div BlockSize IN
  /\ entry.name = file.name
  /\ entry.size = Len(file.data)
  /\ IF tool.tar
     THEN entry.content = [i \in 1 .. sectors * BlockSize |->
                             IF i <= Len(file.data) THEN file.data[i] ELSE 0]
     ELSE entry.lines = IF file.name \in SourceFiles THEN Cardinality(Lines(file.data)) ELSE 0

(***************************************************************************)
(* dumptoysfs saves all the files of a disk, in the order of their names,  *)
(* each with its bytes up to the last one, or with its number of lines:    *)
(* a last line need not end, and a line may cross the buffer.  Files with  *)
(* a name of more than 99 characters are not in a TAR file, by design      *)
(* (dumptoysfs.c:132-135).                                                 *)
(***************************************************************************)
DumpIsRight ==
  Succeeded("dumptoysfs") =>
    LET saved == Files(disk)
        kept == {f \in DOMAIN saved : tool.tar => saved[f].name \notin LongNames}
    IN /\ \A i, j \in DOMAIN output : i < j => output[i].name < output[j].name
       /\ \A i \in DOMAIN output : \E f \in kept : IsEntryOf(output[i], saved[f])
       /\ \A f \in kept : \E i \in DOMAIN output : IsEntryOf(output[i], saved[f])
=============================================================================
