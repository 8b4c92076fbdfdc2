-------------------------- MODULE BlockStoreProofs --------------------------
(***************************************************************************)
(* What the calls of the file system return, for every size of the disk    *)
(* and of its blocks, every set of names and all the bytes that clients    *)
(* write.  The programs that make a disk, and the machine that starts from *)
(* it, are such clients: what they leave on a disk image is what the       *)
(* firmware, and the boot loader, must find there.  Last, what the boot    *)
(* loader runs on the disk that an interrupted call leaves.                *)
(***************************************************************************)
EXTENDS BlockFSProofs, Images

-----------------------------------------------------------------------------
(***************************************************************************)
(* What a call returns.                                                    *)
(***************************************************************************)
Different(F) == \A f, g \in DOMAIN F : F[f].name = F[g].name => f = g

Unused(F, n) == \A f \in DOMAIN F : F[f].name # n

\* The files before x in the list have smaller names than n.
Smaller(d, L, x, n) ==
  \A f \in L : x = 0 \/ Name(d[f]) < Name(d[x]) => Name(d[f]) < n

FoundRight ==
  /\ call.file # 0 => call.before[call.file].name = call.name /\ call.op # "create"
  /\ call.file = 0 /\ call.op # "create" => Unused(call.before, call.name)

CreateRight ==
  /\ call.op \in {"open_write", "create"}
  /\ call.op = "open_write" => Unused(call.before, call.name)

ClosedRight == call.before[call.file].name = call.name

\* The size of the blocks of file f up to that in the buffer b, its data excepted.
SizeOf(d, f, b, u, s) ==
  \E g, m : /\ IsPath(d, f, g, m)
            /\ \E k \in 0 .. m : /\ b = d[g[k]] /\ u = DataStart(Name(d[f]), k)
                                 /\ s = ChunkStart(Name(d[f]), k)

SizeRight ==
  /\ call.op = "stat" /\ call.file \in DOMAIN call.before
  /\ SizeOf(disk, call.file, buffer, call.used, call.size)

CallFacts ==
  /\ ~ Resting => Different(call.before)
  /\ pc \notin {"idle", "done", "commit"} => call.status = OK
  /\ pc \in {"find", "found"} => call.size = 0
  /\ pc = "find" => Smaller(disk, DOMAIN call.before, call.next, call.name)
  /\ pc = "found" => FoundRight
  /\ pc \in {"scan", "link", "fill", "publish"} => CreateRight
  /\ pc = "publish" => Name(disk[call.newFile]) = call.name
  /\ pc \in {"free", "freed", "clear", "unlink", "deleted"} => ClosedRight
  /\ pc \in {"freed", "clear"} => call.op = "open_write"
  /\ pc \in {"unlink", "deleted"} => call.op = "delete"
  /\ pc = "size" => SizeRight
  /\ pc = "read" => call.op = "read"
  /\ pc \in {"write", "commit"} => call.op = "write"
  /\ ResultIsRight

LEMMA AnswerGoesOn ==
  ASSUME pc' # "commit" => call'.status = OK, Different(call'.before),
         \/ pc' = "find" /\ call'.size = 0
            /\ Smaller(disk', DOMAIN call'.before, call'.next, call'.name)
         \/ pc' = "found" /\ call'.size = 0 /\ FoundRight'
         \/ pc' \in {"scan", "link", "fill"} /\ CreateRight'
         \/ pc' = "publish" /\ CreateRight' /\ Name(disk'[call'.newFile]) = call'.name
         \/ pc' = "free" /\ ClosedRight'
         \/ pc' \in {"freed", "clear"} /\ ClosedRight' /\ call'.op = "open_write"
         \/ pc' \in {"unlink", "deleted"} /\ ClosedRight' /\ call'.op = "delete"
         \/ pc' = "size" /\ SizeRight'
         \/ pc' = "read" /\ call'.op = "read"
         \/ pc' \in {"write", "commit"} /\ call'.op = "write"
  PROVE  CallFacts'
  BY DEF CallFacts, ResultIsRight

LEMMA AnswerEnds ==
  ASSUME pc' = "done", ResultIsRight'
  PROVE  CallFacts'
  BY DEF CallFacts, Resting

\* No two files on the disk have the same name.
LEMMA DifferentFiles ==
  ASSUME NEW d, NEW L, L \in SUBSET FileIds, Listing(d, L)
  PROVE  Different(Files(d))
<1>1. DOMAIN Files(d) = L /\ \A f \in L : Files(d)[f].name = Name(d[f])
  BY FilesAre
<1>2. \A f, g \in L : Name(d[f]) = Name(d[g]) => f = g
  BY DirectoryFacts DEF Listing
<1>3. QED
  BY <1>1, <1>2 DEF Different

LEMMA KeepsDifferent ==
  ASSUME NEW L, NEW own, BlockInvariantOf(L, own), CallFacts, [AnyNext]_vars, ~ Resting'
  PROVE  Different(call'.before)
<1>1. CASE Resting /\ call'.before = Files(disk)
  <2>1. L \in SUBSET FileIds /\ Listing(disk, L)
    BY <1>1 DEF BlockInvariantOf, Resting, Whole
  <2>2. QED
    BY <1>1, <2>1, DifferentFiles
<1>2. CASE ~ Resting /\ call'.before = call.before
  BY <1>2 DEF CallFacts
<1>3. QED
  BY <1>1, <1>2, NextIs DEF CallGoesOn, vars

\* The step does not change the disk, whose files are those from before the call.
LEMMA LookFiles ==
  ASSUME NEW L, NEW own, BlockInvariantOf(L, own), StoreFacts, pc \in Looks
  PROVE  /\ L \in SUBSET FileIds /\ L = DOMAIN call.before /\ Whole(disk, L, own)
         /\ DOMAIN call = Fields /\ Listing(disk, L) /\ DiskOK(disk, L)
         /\ Layout(own, Link(disk), L, FreeHead(disk))
         /\ \A f \in L : /\ call.before[f].name = Name(disk[f]) /\ Name(disk[f]) \in Names
                         /\ call.before[f].data = Data(disk, f)
<1>1. /\ L \in SUBSET FileIds /\ L = DOMAIN call.before /\ Whole(disk, L, own)
      /\ DOMAIN call = Fields /\ DiskOK(disk, L) /\ Files(disk) = call.before
  BY DEF BlockInvariantOf, StoreFacts, Looks, AtFind, AtFound, AtQuery, AtScan, AtLink
<1>2. Listing(disk, L) /\ Layout(own, Link(disk), L, FreeHead(disk))
  BY <1>1 DEF Whole
<1>3. \A f \in L : /\ Files(disk)[f].name = Name(disk[f]) /\ Name(disk[f]) \in Names
                   /\ Files(disk)[f].data = Data(disk, f)
  BY <1>1, <1>2, FilesAre, ListingFacts
<1>4. QED
  BY <1>1, <1>2, <1>3

-----------------------------------------------------------------------------
(***************************************************************************)
(* The search of a file stops at its place in the list.                    *)
(***************************************************************************)
LEMMA FirstIsSmallest ==
  ASSUME NEW d, NEW L, L \in SUBSET FileIds, Listing(d, L), NEW n
  PROVE  Smaller(d, L, FirstFile(d), n)
<1>1. Sorted(NextOf(d, L), FirstFile(d), L, NameOf(d, L))
  BY DEF Listing, Directory
<1>2. \A f \in L : NameOf(d, L)[f] = Name(d[f]) /\ Name(d[f]) \in Nat /\ f # 0
  BY NameOfFile, ListingFacts, BlockSets
<1>3. \/ FirstFile(d) \in L /\ \A c \in L : NameOf(d, L)[FirstFile(d)] <= NameOf(d, L)[c]
      \/ FirstFile(d) = 0 /\ L = {}
  BY <1>1 DEF Sorted, FirstOf
<1>4. QED
  BY <1>2, <1>3 DEF Smaller

LEMMA NextIsSmallest ==
  ASSUME NEW d, NEW L, L \in SUBSET FileIds, Listing(d, L), NEW x \in L, NEW n \in Nat,
         Name(d[x]) < n
  PROVE  Smaller(d, L, NextFile(d[x]), n)
<1>1. Sorted(NextOf(d, L), FirstFile(d), L, NameOf(d, L))
  BY DEF Listing, Directory
<1>2. \A f \in L : NameOf(d, L)[f] = Name(d[f]) /\ Name(d[f]) \in Nat /\ f # 0
  BY NameOfFile, ListingFacts, BlockSets
<1>3. PICK B, y : B = Beyond(L, NameOf(d, L), x) /\ y = NextFile(d[x])
  OBVIOUS
<1>4. \A c \in L : c \in B <=> Name(d[c]) > Name(d[x])
  BY <1>2, <1>3 DEF Beyond
<1>5. \/ y \in B /\ \A c \in B : NameOf(d, L)[y] <= NameOf(d, L)[c]
      \/ y = 0 /\ B = {}
  BY <1>1, <1>3 DEF Sorted, FirstOf, NextOf
<1>6. B \subseteq L
  BY <1>3 DEF Beyond
<1>7. ASSUME NEW f \in L, y = 0 \/ Name(d[f]) < Name(d[y])
      PROVE  Name(d[f]) < n
  <2>1. f \notin B
    <3>1. CASE y = 0
      BY <1>2, <1>5, <1>6, <3>1
    <3>2. CASE y # 0
      BY <1>2, <1>5, <1>6, <1>7, <3>2
    <3>3. QED
      BY <3>1, <3>2
  <2>2. Name(d[f]) <= Name(d[x])
    BY <1>2, <1>4, <2>1
  <2>3. QED
    BY <1>2, <2>2
<1>8. QED
  BY <1>3, <1>7 DEF Smaller

\* The file after the smaller ones has a greater name: there is none with this one.
LEMMA NotThere ==
  ASSUME NEW d, NEW L, L \in SUBSET FileIds, Listing(d, L), NEW x \in L \cup {0}, NEW n \in Nat,
         Smaller(d, L, x, n), x # 0 => Name(d[x]) > n
  PROVE  \A f \in L : Name(d[f]) # n
<1>1. \A f \in L : Name(d[f]) \in Nat
  BY ListingFacts
<1>2. QED
  BY <1>1 DEF Smaller

LEMMA FindStepAnswers ==
  ASSUME NEW L, NEW own, BlockInvariantOf(L, own), StoreFacts, CallFacts, FindStep
  PROVE  CallFacts'
<1>1. /\ pc = "find" /\ disk' = disk /\ AtFind(L, own)
  BY DEF FindStep, ReadBlock, BlockInvariantOf
<1>2. /\ L \in SUBSET FileIds /\ L = DOMAIN call.before /\ Listing(disk, L) /\ DOMAIN call = Fields
      /\ \A f \in L : call.before[f].name = Name(disk[f]) /\ Name(disk[f]) \in Nat
  BY <1>1, LookFiles, ListingFacts DEF Looks
<1>3. /\ call.op \in {"stat", "open_read", "open_write", "delete"} /\ call.name \in Nat
      /\ call.file = 0 /\ call.next \in L \cup {0} /\ call.status = OK /\ call.size = 0
      /\ Smaller(disk, L, call.next, call.name) /\ Different(call.before)
  BY <1>1, <1>2, BlockFSAssumption DEF AtFind, CallFacts, Resting, BlockFSAssumption
<1>4. CASE Goto("found", call) /\ (call.next # 0 => Name(disk[call.next]) > call.name)
  <2>1. \A f \in L : Name(disk[f]) # call.name
    BY <1>2, <1>3, <1>4, NotThere
  <2>2. Unused(call.before, call.name)
    BY <1>2, <2>1 DEF Unused
  <2>3. pc' = "found" /\ call' = call
    BY <1>4 DEF Goto
  <2>4. FoundRight'
    BY <1>3, <2>2, <2>3 DEF FoundRight
  <2>5. QED
    BY <1>3, <2>3, <2>4, AnswerGoesOn
<1>5. CASE /\ call.next # 0 /\ Name(disk[call.next]) = call.name
           /\ Goto("found", [call EXCEPT !.file = call.next])
  <2>1. /\ pc' = "found" /\ call'.file = call.next /\ call'.before = call.before
        /\ call'.op = call.op /\ call'.name = call.name /\ call'.status = call.status
        /\ call'.size = call.size
    BY <1>2, <1>5 DEF Goto, Fields
  <2>2. FoundRight'
    BY <1>2, <1>3, <1>5, <2>1 DEF FoundRight
  <2>3. QED
    BY <1>3, <2>1, <2>2, AnswerGoesOn
<1>6. CASE /\ call.next # 0 /\ Name(disk[call.next]) < call.name
           /\ Goto("find", [call EXCEPT !.next = NextFile(disk[call.next]),
                             !.previous = IF call.op = "delete" THEN call.next ELSE 0])
  <2>1. /\ pc' = "find" /\ call'.next = NextFile(disk[call.next]) /\ call'.before = call.before
        /\ call'.name = call.name /\ call'.status = call.status /\ call'.size = call.size
    BY <1>2, <1>6 DEF Goto, Fields
  <2>2. Smaller(disk, L, NextFile(disk[call.next]), call.name)
    BY <1>2, <1>3, <1>6, NextIsSmallest
  <2>3. Smaller(disk', DOMAIN call'.before, call'.next, call'.name)
    BY <1>1, <1>2, <2>1, <2>2
  <2>4. QED
    BY <1>3, <2>1, <2>3, AnswerGoesOn
<1>7. QED
  BY <1>4, <1>5, <1>6 DEF FindStep

\* A call that fails, but a write, changes nothing.
LEMMA RefusedIsRight ==
  ASSUME NEW c, DOMAIN c = Fields, NEW s, Done(s, c), c.before = call.before,
         Files(disk') = call.before, s \in {NOT_FOUND, INVALID_STATE, OUT_OF_MEMORY, ALREADY_EXISTS},
         s = OUT_OF_MEMORY => FreeBlocks(disk') = {},
         s = ALREADY_EXISTS => c.op = "create"
  PROVE  CallFacts'
<1>1. pc' = "done" /\ call'.status = s /\ call'.before = call.before /\ call'.op = c.op
  BY DEF Done, Fields
<1>2. /\ call'.status # OK /\ Files(disk') = call'.before
      /\ call'.status = OUT_OF_MEMORY => FreeBlocks(disk') = {}
      /\ call'.status = ALREADY_EXISTS => call'.op = "create"
  BY <1>1 DEF OK, NOT_FOUND, INVALID_STATE, OUT_OF_MEMORY, ALREADY_EXISTS
<1>3. ResultIsRight'
  BY <1>2, Zenon DEF ResultIsRight
<1>4. QED
  BY <1>1, <1>3, AnswerEnds

\* Reading has no result of this kind.
LEMMA ReadIsOK ==
  ASSUME NEW c, DOMAIN c = Fields, Done(OK, c), c.op \in {"open_read", "read"}
  PROVE  CallFacts'
<1>1. pc' = "done" /\ call'.status = OK /\ call'.op = c.op
  BY DEF Done, Fields
<1>2. /\ call'.op \notin {"open_write", "create"} /\ call'.op # "delete" /\ call'.op # "write"
      /\ call'.op # "stat" /\ call'.status # OUT_OF_MEMORY /\ call'.status # ALREADY_EXISTS
  BY <1>1 DEF OK, OUT_OF_MEMORY, ALREADY_EXISTS
<1>3. ResultIsRight'
  BY <1>1, <1>2, Zenon DEF ResultIsRight
<1>4. QED
  BY <1>1, <1>3, AnswerEnds

LEMMA FindFailsAnswers ==
  ASSUME NEW L, NEW own, BlockInvariantOf(L, own), StoreFacts, CallFacts, FindFails
  PROVE  CallFacts'
<1>1. pc = "found" /\ disk' = disk /\ (Done(NOT_FOUND, call) \/ Done(INVALID_STATE, call))
  BY DEF FindFails
<1>2. Files(disk) = call.before /\ DOMAIN call = Fields
  BY <1>1 DEF StoreFacts, Looks, BlockInvariantOf
<1>3. PICK s \in {NOT_FOUND, INVALID_STATE} : Done(s, call)
  BY <1>1
<1>4. s # OUT_OF_MEMORY /\ s # ALREADY_EXISTS
  BY DEF NOT_FOUND, INVALID_STATE, OUT_OF_MEMORY, ALREADY_EXISTS
<1>5. QED
  BY <1>1, <1>2, <1>3, <1>4, RefusedIsRight

LEMMA ReadAnswers ==
  ASSUME NEW L, NEW own, BlockInvariantOf(L, own), CallFacts, OpenRead \/ ReadStep
  PROVE  CallFacts'
<1>1. DOMAIN call = Fields
  BY DEF BlockInvariantOf
<1>2. CASE OpenRead
  BY <1>1, <1>2, ReadIsOK DEF OpenRead
<1>3. CASE ReadStep
  <2>1. PICK b, n : LET c == [call EXCEPT !.bytes = @ \o CopyFrom(b, reader.offset, n), !.size = @ - n]
                    IN  Done(OK, c) \/ Goto("read", c)
    BY <1>3 DEF ReadStep
  <2>2. PICK c : /\ c = [call EXCEPT !.bytes = @ \o CopyFrom(b, reader.offset, n), !.size = @ - n]
                 /\ Done(OK, c) \/ Goto("read", c)
    BY <2>1
  <2>3. DOMAIN c = Fields /\ c.op = call.op /\ c.before = call.before /\ c.status = call.status
    BY <1>1, <2>2 DEF Fields
  <2>4. call.op = "read" /\ Different(call.before) /\ call.status = OK
    BY <1>3 DEF ReadStep, CallFacts, Resting
  <2>5. CASE Done(OK, c)
    BY <2>3, <2>4, <2>5, ReadIsOK
  <2>6. CASE Goto("read", c)
    <3>1. pc' = "read" /\ call' = c
      BY <2>6 DEF Goto
    <3>2. QED
      BY <2>3, <2>4, <3>1, AnswerGoesOn
  <2>7. QED
    BY <2>2, <2>5, <2>6
<1>4. QED
  BY <1>2, <1>3

-----------------------------------------------------------------------------
(***************************************************************************)
(* The size of a file is the number of its bytes.                          *)
(***************************************************************************)
LEMMA SizeBegins ==
  ASSUME NEW d, NEW f, NEW own, NEW L, L \in SUBSET FileIds, NEW h,
         Layout(own, Link(d), L, h), f \in L
  PROVE  SizeOf(d, f, d[f], HeaderSize(Name(d[f])), 0)
<1>1. PICK g, m : IsPath(d, f, g, m)
  BY FileHasPath
<1>2. g[0] = f /\ 0 \in 0 .. m
  BY <1>1 DEF IsPath
<1>3. QED
  BY <1>1, <1>2 DEF SizeOf, DataStart, ChunkStart

LEMMA SizeGoesOn ==
  ASSUME NEW d, NEW f, Name(d[f]) \in Names, NEW b, NEW u, NEW s, SizeOf(d, f, b, u, s),
         NEW x, x = block_get_next(b), x # 0
  PROVE  SizeOf(d, f, d[x], 1, s + BlockSize - u)
<1>1. PICK g, m, k : /\ IsPath(d, f, g, m) /\ k \in 0 .. m
                     /\ b = d[g[k]] /\ u = DataStart(Name(d[f]), k) /\ s = ChunkStart(Name(d[f]), k)
  BY DEF SizeOf
<1>2. m \in Nat /\ g[k] \in FileIds /\ Link(d)[g[k]] = x
  BY <1>1 DEF IsPath, Link
<1>3. k + 1 \in 1 .. m /\ g[k + 1] = x
  <2>1. k # m
    BY <1>1, <1>2 DEF IsPath
  <2>2. k + 1 \in 1 .. m
    BY <1>1, <1>2, <2>1
  <2>3. QED
    BY <1>1, <1>2, <2>2 DEF IsPath
<1>4. /\ DataStart(Name(d[f]), k + 1) = 1
      /\ ChunkStart(Name(d[f]), k + 1) = s + BlockSize - u
  <2>1. k \in Nat /\ k + 1 # 0
    BY <1>1, <1>2
  <2>2. ChunkStart(Name(d[f]), k + 1) = ChunkStart(Name(d[f]), k) + BlockSize - DataStart(Name(d[f]), k)
    BY <2>1, Chunks
  <2>3. QED
    BY <1>1, <2>1, <2>2 DEF DataStart
<1>5. k + 1 \in 0 .. m /\ d[x] = d[g[k + 1]]
  BY <1>2, <1>3
<1>6. QED
  BY <1>1, <1>4, <1>5 DEF SizeOf

LEMMA SizeEnds ==
  ASSUME NEW d, NEW L, L \in SUBSET FileIds, DiskOK(d, L), NEW f \in L, Name(d[f]) \in Names,
         NEW b, NEW u, NEW s, SizeOf(d, f, b, u, s), block_get_next(b) = 0
  PROVE  s + block_size(b) - u = Len(Data(d, f))
<1>1. PICK g, m, k : /\ IsPath(d, f, g, m) /\ k \in 0 .. m
                     /\ b = d[g[k]] /\ u = DataStart(Name(d[f]), k) /\ s = ChunkStart(Name(d[f]), k)
  BY DEF SizeOf
<1>2. k = m
  <2>1. m \in Nat /\ g[k] \in FileIds /\ Link(d)[g[k]] = 0
    BY <1>1 DEF IsPath, Link
  <2>2. CASE k < m
    <3>1. k + 1 \in 1 .. m /\ (k + 1) - 1 = k /\ k + 1 \in 0 .. m
      BY <1>1, <2>1, <2>2
    <3>2. g[k + 1] = 0 /\ g[k + 1] \in FileIds
      BY <1>1, <2>1, <3>1 DEF IsPath
    <3>3. QED
      BY <3>2, BlockSets
  <2>3. QED
    BY <1>1, <2>1, <2>2
<1>3. Data(d, f) = DataOf(d, Name(d[f]), g, m) /\ HasData(d, Name(d[f]), g, m)
  BY <1>1, PathIsData
<1>4. m \in Nat
  BY <1>1 DEF IsPath
<1>5. DataLength(d, Name(d[f]), g, m) \in Nat
  <2>1. /\ d[g[m]][0] \in DataStart(Name(d[f]), m) .. BlockSize
        /\ DataStart(Name(d[f]), m) \in 1 .. BlockSize /\ ChunkStart(Name(d[f]), m) \in Nat
    BY <1>3, <1>4, Chunks DEF HasData
  <2>2. QED
    BY <2>1, BlockSets DEF DataLength
<1>6. Len(Data(d, f)) = DataLength(d, Name(d[f]), g, m)
  BY <1>3, <1>5 DEF DataOf
<1>7. QED
  BY <1>1, <1>2, <1>6 DEF DataLength, block_size

LEMMA SizeAnswers ==
  ASSUME NEW L, NEW own, BlockInvariantOf(L, own), StoreFacts, CallFacts, SizeStart \/ SizeStep
  PROVE  CallFacts'
<1>1. pc \in {"found", "size"} /\ disk' = disk
  BY DEF SizeStart, SizeStep, ReadBlock
<1>2. /\ L \in SUBSET FileIds /\ L = DOMAIN call.before /\ DOMAIN call = Fields /\ DiskOK(disk, L)
      /\ Layout(own, Link(disk), L, FreeHead(disk)) /\ Files(disk) = call.before
      /\ \A f \in L : /\ call.before[f].name = Name(disk[f]) /\ Name(disk[f]) \in Names
                      /\ call.before[f].data = Data(disk, f)
  BY <1>1, LookFiles DEF Looks, StoreFacts
<1>3. Different(call.before) /\ call.status = OK
  BY <1>1 DEF CallFacts, Resting
<1>4. CASE SizeStart
  <2>1. /\ pc' = "size" /\ buffer' = disk[call.file] /\ call'.used = HeaderSize(Name(disk[call.file]))
        /\ call'.op = "stat" /\ call'.file = call.file /\ call'.before = call.before
        /\ call'.size = call.size /\ call'.status = call.status
    BY <1>2, <1>4 DEF SizeStart, ReadBlock, Goto, Fields
  <2>2. call.size = 0 /\ call.file \in L
    BY <1>4, FoundFacts DEF SizeStart, CallFacts
  <2>3. SizeOf(disk, call.file, disk[call.file], HeaderSize(Name(disk[call.file])), 0)
    BY <1>2, <2>2, SizeBegins
  <2>4. SizeRight'
    BY <1>1, <1>2, <2>1, <2>2, <2>3 DEF SizeRight
  <2>5. QED
    BY <1>3, <2>1, <2>4, AnswerGoesOn
<1>5. CASE SizeStep
  <2>1. /\ call.op = "stat" /\ call.file \in L /\ SizeOf(disk, call.file, buffer, call.used, call.size)
    BY <1>2, <1>5 DEF SizeStep, CallFacts, SizeRight
  <2>2. CASE block_get_next(buffer) = 0
    <3>1. /\ pc' = "done" /\ call'.size = call.size + block_size(buffer) - call.used
          /\ call'.op = "stat" /\ call'.file = call.file /\ call'.before = call.before
          /\ call'.status = OK
      BY <1>2, <1>5, <2>1, <2>2 DEF SizeStep, Done, Fields
    <3>2. call'.size = Len(Files(disk')[call'.file].data)
      <4>1. call'.size = Len(Data(disk, call.file))
        BY <1>2, <2>1, <2>2, <3>1, SizeEnds
      <4>2. QED
        BY <1>1, <1>2, <2>1, <3>1, <4>1
    <3>3. ResultIsRight'
      BY <3>1, <3>2 DEF ResultIsRight, OK, OUT_OF_MEMORY, ALREADY_EXISTS
    <3>4. QED
      BY <3>1, <3>3, AnswerEnds
  <2>3. CASE block_get_next(buffer) # 0
    <3>1. /\ pc' = "size" /\ call'.size = call.size + BlockSize - call.used /\ call'.used = 1
          /\ buffer' = disk[block_get_next(buffer)]
          /\ call'.op = "stat" /\ call'.file = call.file /\ call'.before = call.before
          /\ call'.status = call.status
      BY <1>2, <1>5, <2>1, <2>3 DEF SizeStep, Goto, Fields, ReadBlock
    <3>2. SizeOf(disk, call.file, disk[block_get_next(buffer)], 1, call.size + BlockSize - call.used)
      BY <1>2, <2>1, <2>3, SizeGoesOn
    <3>3. SizeRight'
      BY <1>1, <1>2, <2>1, <3>1, <3>2 DEF SizeRight
    <3>4. QED
      BY <1>3, <3>1, <3>3, AnswerGoesOn
  <2>4. QED
    BY <2>2, <2>3
<1>6. QED
  BY <1>4, <1>5

-----------------------------------------------------------------------------
(***************************************************************************)
(* Creating a file.                                                        *)
(***************************************************************************)
LEMMA NoFreeBlocks ==
  ASSUME NEW d, NEW own, NEW L, L \in SUBSET FileIds, Layout(own, Link(d), L, FreeHead(d)),
         FreeHead(d) = 0
  PROVE  FreeBlocks(d) = {}
<1>1. Members(Chain(d, FreeHead(d))) = Own(own, 0)
  BY ChainsAre
<1>2. \A b \in FileIds : own[b] # 0
  <2>1. PICK s, h : s = Link(d) /\ h = FreeHead(d)
    OBVIOUS
  <2>2. Layout(own, s, L, h) /\ h = 0
    BY <2>1
  <2>3. QED
    BY <2>2, LayoutFacts, Zenon
<1>3. QED
  BY <1>1, <1>2 DEF FreeBlocks, FreeHead, Own

LEMMA CreateStartAnswers ==
  ASSUME NEW L, NEW own, BlockInvariantOf(L, own), StoreFacts, CallFacts, CreateStart
  PROVE  CallFacts'
<1>1. pc = "found" /\ disk' = disk /\ call.op \in {"open_write", "create"} /\ call.file = 0
  BY DEF CreateStart, ReadBlock
<1>2. /\ L \in SUBSET FileIds /\ DOMAIN call = Fields /\ Files(disk) = call.before
      /\ Layout(own, Link(disk), L, FreeHead(disk))
  BY <1>1, LookFiles DEF Looks, StoreFacts
<1>3. Different(call.before) /\ call.status = OK /\ CreateRight
  BY <1>1 DEF CallFacts, Resting, FoundRight, CreateRight
<1>4. CASE FreeHead(disk) = 0
  <2>1. FreeBlocks(disk) = {}
    BY <1>2, <1>4, NoFreeBlocks
  <2>2. Done(OUT_OF_MEMORY, call) /\ Files(disk') = call.before /\ FreeBlocks(disk') = {}
    BY <1>1, <1>2, <1>4, <2>1 DEF CreateStart, FreeHead
  <2>3. OUT_OF_MEMORY # ALREADY_EXISTS
    BY DEF OUT_OF_MEMORY, ALREADY_EXISTS
  <2>4. QED
    BY <1>2, <2>2, <2>3, RefusedIsRight
<1>5. CASE FreeHead(disk) # 0
  <2>1. /\ pc' = "scan" /\ call'.op = call.op /\ call'.name = call.name
        /\ call'.before = call.before /\ call'.status = call.status
    BY <1>2, <1>5 DEF CreateStart, FreeHead, Goto, Fields
  <2>2. CreateRight'
    BY <1>3, <2>1 DEF CreateRight
  <2>3. QED
    BY <1>3, <2>1, <2>2, AnswerGoesOn
<1>6. QED
  BY <1>4, <1>5

\* A file that was looked for before is not there when its place is looked for.
LEMMA CreateScanAnswers ==
  ASSUME NEW L, NEW own, BlockInvariantOf(L, own), StoreFacts, CallFacts, CreateScan
  PROVE  CallFacts'
<1>1. pc = "scan" /\ disk' = disk
  BY DEF CreateScan, ReadBlock
<1>2. /\ L \in SUBSET FileIds /\ L = DOMAIN call.before /\ DOMAIN call = Fields
      /\ Files(disk) = call.before /\ Whole(disk, L, own)
      /\ \A f \in L : call.before[f].name = Name(disk[f])
  BY <1>1, LookFiles DEF Looks, StoreFacts
<1>3. Different(call.before) /\ call.status = OK /\ CreateRight
  BY <1>1 DEF CallFacts, Resting
<1>4. call.next \in L \cup {0}
  BY <1>1, <1>2, PlaceFacts DEF BlockInvariantOf, AtScan
<1>5. CASE call.next # 0 /\ Name(disk[call.next]) = call.name /\ Done(ALREADY_EXISTS, call)
  <2>1. call.op = "create"
    BY <1>2, <1>3, <1>4, <1>5 DEF CreateRight, Unused
  <2>2. Files(disk') = call.before /\ ALREADY_EXISTS # OUT_OF_MEMORY
    BY <1>1, <1>2 DEF OUT_OF_MEMORY, ALREADY_EXISTS
  <2>3. QED
    BY <1>2, <1>5, <2>1, <2>2, RefusedIsRight
<1>6. CASE \/ Goto("link", call)
           \/ Goto("scan", [call EXCEPT !.previous = call.next, !.next = NextFile(disk[call.next])])
  <2>1. /\ pc' \in {"scan", "link"} /\ call'.op = call.op /\ call'.name = call.name
        /\ call'.before = call.before /\ call'.status = call.status
    BY <1>2, <1>6 DEF Goto, Fields
  <2>2. CreateRight'
    BY <1>3, <2>1 DEF CreateRight
  <2>3. QED
    BY <1>3, <2>1, <2>2, AnswerGoesOn
<1>7. QED
  BY <1>5, <1>6 DEF CreateScan

LEMMA CreateLinkAnswers ==
  ASSUME NEW L, NEW own, BlockInvariantOf(L, own), CallFacts, CreateLink
  PROVE  CallFacts'
<1>1. pc = "link" /\ DOMAIN call = Fields
  BY DEF CreateLink, BlockInvariantOf
<1>2. Different(call.before) /\ call.status = OK /\ CreateRight
  BY <1>1 DEF CallFacts, Resting
<1>3. /\ pc' = "fill" /\ call'.op = call.op /\ call'.name = call.name
      /\ call'.before = call.before /\ call'.status = call.status
  BY <1>1 DEF CreateLink, Goto, Fields
<1>4. CreateRight'
  BY <1>2, <1>3 DEF CreateRight
<1>5. QED
  BY <1>2, <1>3, <1>4, AnswerGoesOn

LEMMA CreateFillAnswers ==
  ASSUME NEW L, NEW own, BlockInvariantOf(L, own), CallFacts, CreateFill
  PROVE  CallFacts'
<1>1. pc = "fill" /\ DOMAIN call = Fields /\ DiskOK(disk, L) /\ AtFill(L, own) /\ L \in SUBSET FileIds
  BY DEF CreateFill, BlockInvariantOf
<1>2. Different(call.before) /\ call.status = OK /\ CreateRight
  BY <1>1 DEF CallFacts, Resting
<1>3. /\ pc' = "publish" /\ call'.op = call.op /\ call'.name = call.name /\ call'.newFile = call.newFile
      /\ call'.before = call.before /\ call'.status = call.status
  BY <1>1 DEF CreateFill, Goto, Fields
<1>4. CreateRight'
  BY <1>2, <1>3 DEF CreateRight
<1>5. /\ call.newFile \in FileIds /\ call.newFile \in Blocks /\ call.name \in Names
      /\ call.next \in Nat /\ disk \in [Blocks -> [Offsets -> Nat]]
  <2>1. call.newFile \in FileIds /\ call.name \in Names /\ call.next \in L \cup {0}
    BY <1>1 DEF AtFill, NewBlock, NewPlace
  <2>2. disk \in [Blocks -> [Offsets -> Nat]]
    BY <1>1 DEF DiskOK
  <2>3. L \subseteq Nat /\ call.newFile \in Blocks
    BY <1>1, <2>1, BlockSets
  <2>4. call.next \in Nat
    <3>1. CASE call.next = 0
      BY <3>1
    <3>2. CASE call.next \in L
      BY <2>3, <3>2
    <3>3. QED
      BY <2>1, <3>1, <3>2
  <2>5. QED
    BY <2>1, <2>2, <2>3, <2>4
<1>6. Name(disk'[call.newFile]) = call.name
  <2>1. disk'[call.newFile] = FileHeader(disk[call.newFile], call.name, call.next)
    BY <1>5 DEF CreateFill, WriteBlock
  <2>2. disk[call.newFile] \in [Offsets -> Nat]
    BY <1>5
  <2>3. QED
    BY <1>5, <2>1, <2>2, HeaderBlock
<1>7. QED
  BY <1>2, <1>3, <1>4, <1>6, AnswerGoesOn

LEMMA CreatedIsRight ==
  ASSUME NEW f, NEW n, f \in DOMAIN Files(disk'), Files(disk')[f] = [name |-> n, data |-> << >>],
         writer'[f] = f, pc' = "done", call'.status = OK, call'.name = n,
         call'.op \in {"open_write", "create"}
  PROVE  CallFacts'
<1>1. /\ call'.op # "delete" /\ call'.op # "write" /\ call'.op # "stat"
      /\ call'.status # OUT_OF_MEMORY /\ call'.status # ALREADY_EXISTS
  BY DEF OK, OUT_OF_MEMORY, ALREADY_EXISTS
<1>2. \E g \in DOMAIN Files(disk') :
         Files(disk')[g] = [name |-> call'.name, data |-> << >>] /\ writer'[g] = g
  OBVIOUS
<1>3. ResultIsRight'
  BY <1>1, <1>2, Zenon DEF ResultIsRight
<1>4. QED
  BY <1>3, AnswerEnds

LEMMA CreatePublishAnswers ==
  ASSUME NEW L, NEW own, BlockInvariantOf(L, own), OthersKept, StoreFacts, CallFacts, CreatePublish
  PROVE  CallFacts'
<1>1. pc = "publish" /\ DOMAIN call = Fields
  BY DEF CreatePublish, BlockInvariantOf
<1>2. CreateRight /\ Name(disk[call.newFile]) = call.name
  BY <1>1 DEF CallFacts
<1>3. /\ pc' = "done" /\ call'.op = call.op /\ call'.name = call.name /\ call'.status = OK
  BY <1>1 DEF CreatePublish, Done, Fields
<1>4. PICK f, n : /\ f = call.newFile /\ n = Name(disk[f])
                  /\ f \in FileIds \ DOMAIN call.before
                  /\ Adds(call.before, Files(disk'), f, n)
  BY PublishFiles
<1>5. /\ f \in DOMAIN Files(disk') /\ Files(disk')[f] = [name |-> n, data |-> << >>]
  BY <1>4 DEF Adds
<1>6. writer'[f] = f
  <2>1. writer \in [FileIds -> Blocks]
    BY DEF BlockInvariantOf, Writers
  <2>2. QED
    BY <1>4, <2>1 DEF CreatePublish
<1>7. call'.op \in {"open_write", "create"} /\ call'.name = n
  BY <1>2, <1>3, <1>4 DEF CreateRight
<1>8. QED
  BY <1>3, <1>5, <1>6, <1>7, CreatedIsRight

-----------------------------------------------------------------------------
(***************************************************************************)
(* Clearing and deleting a file.                                           *)
(***************************************************************************)
LEMMA FreeStartAnswers ==
  ASSUME NEW L, NEW own, BlockInvariantOf(L, own), CallFacts, ClearStart \/ DeleteStart
  PROVE  CallFacts'
<1>1. pc = "found" /\ DOMAIN call = Fields /\ call.file # 0
  BY DEF ClearStart, DeleteStart, BlockInvariantOf
<1>2. Different(call.before) /\ call.status = OK /\ ClosedRight
  BY <1>1 DEF CallFacts, Resting, FoundRight, ClosedRight
<1>3. /\ \/ pc' = "free"
         \/ pc' = "clear" /\ call'.op = "open_write"
      /\ call'.name = call.name /\ call'.file = call.file
      /\ call'.before = call.before /\ call'.status = call.status
  BY <1>1 DEF ClearStart, DeleteStart, FreeStart, Goto, Fields
<1>4. ClosedRight'
  BY <1>2, <1>3 DEF ClosedRight
<1>5. QED
  BY <1>2, <1>3, <1>4, AnswerGoesOn

LEMMA FreeAnswers ==
  ASSUME NEW L, NEW own, BlockInvariantOf(L, own), CallFacts,
         FreeStep \/ ClearFreed \/ DeleteUnlink
  PROVE  CallFacts'
<1>1. pc \in {"free", "freed", "unlink"} /\ DOMAIN call = Fields
  BY DEF FreeStep, ClearFreed, DeleteUnlink, BlockInvariantOf
<1>2. Different(call.before) /\ call.status = OK /\ ClosedRight
  BY <1>1 DEF CallFacts, Resting
<1>3. /\ call'.name = call.name /\ call'.file = call.file /\ call'.op = call.op
      /\ call'.before = call.before /\ call'.status = call.status
  BY <1>1 DEF FreeStep, ClearFreed, DeleteUnlink, Goto, Fields
<1>4. \/ pc' = "free"
      \/ pc' \in {"freed", "clear"} /\ call.op = "open_write"
      \/ pc' \in {"unlink", "deleted"} /\ call.op = "delete"
  <2>1. CASE FreeStep
    <3>1. call.op \in {"open_write", "delete"}
      BY <2>1 DEF FreeStep, BlockInvariantOf, AtFree
    <3>2. QED
      BY <2>1, <3>1 DEF FreeStep, Goto
  <2>2. CASE ClearFreed
    BY <2>2 DEF ClearFreed, Goto, CallFacts
  <2>3. CASE DeleteUnlink
    BY <2>3 DEF DeleteUnlink, Goto, CallFacts
  <2>4. QED
    BY <2>1, <2>2, <2>3
<1>5. ClosedRight'
  BY <1>2, <1>3 DEF ClosedRight
<1>6. QED
  BY <1>2, <1>3, <1>4, <1>5, AnswerGoesOn

LEMMA ClearSizeAnswers ==
  ASSUME NEW L, NEW own, BlockInvariantOf(L, own), OthersKept, StoreFacts, CallFacts, ClearSize
  PROVE  CallFacts'
<1>1. pc = "clear" /\ DOMAIN call = Fields /\ ~ Resting
  BY DEF ClearSize, BlockInvariantOf, Resting
<1>2. ClosedRight /\ call.op = "open_write" /\ IsFiles(call.before)
  BY <1>1 DEF CallFacts, StoreFacts
<1>3. /\ pc' = "done" /\ call'.op = call.op /\ call'.name = call.name /\ call'.status = OK
  BY <1>1 DEF ClearSize, Done, Fields
<1>4. PICK f, F, G : f = call.file /\ F = call.before /\ G = Files(disk')
  OBVIOUS
<1>5. f \in DOMAIN F /\ G = [F EXCEPT ![f].data = << >>]
  BY <1>4, ClearedFiles
<1>6. F[f] = [name |-> F[f].name, data |-> F[f].data] /\ F[f].name = call.name
  BY <1>2, <1>4, <1>5 DEF IsFiles, ClosedRight
<1>7. f \in DOMAIN G /\ G[f] = [name |-> call.name, data |-> << >>]
  BY <1>5, <1>6
<1>8. writer'[f] = f
  <2>1. writer \in [FileIds -> Blocks] /\ f \in FileIds
    BY <1>4, ClearSizeIs DEF BlockInvariantOf, Writers
  <2>2. QED
    BY <1>4, <2>1 DEF ClearSize
<1>9. QED
  BY <1>2, <1>3, <1>4, <1>7, <1>8, CreatedIsRight

LEMMA DeletePublishAnswers ==
  ASSUME NEW L, NEW own, BlockInvariantOf(L, own), OthersKept, StoreFacts, CallFacts, DeletePublish
  PROVE  CallFacts'
<1>1. pc = "deleted" /\ DOMAIN call = Fields /\ ~ Resting
  BY DEF DeletePublish, BlockInvariantOf, Resting
<1>2. ClosedRight /\ call.op = "delete" /\ Different(call.before)
  BY <1>1 DEF CallFacts
<1>3. /\ pc' = "done" /\ call'.op = call.op /\ call'.name = call.name /\ call'.status = OK
  BY <1>1 DEF DeletePublish, Done, Fields
<1>4. PICK f, F, G : f = call.file /\ F = call.before /\ G = Files(disk')
  OBVIOUS
<1>5. f \in DOMAIN F /\ G = [g \in DOMAIN F \ {f} |-> F[g]]
  BY <1>4, DeletedFiles DEF Removes
<1>6. \A g \in DOMAIN G : G[g].name # call.name
  BY <1>2, <1>4, <1>5 DEF Different, ClosedRight
<1>7. /\ \A g \in DOMAIN Files(disk') : Files(disk')[g].name # call'.name
      /\ call'.op \notin {"open_write", "create"} /\ call'.op # "write" /\ call'.op # "stat"
      /\ call'.status # OUT_OF_MEMORY /\ call'.status # ALREADY_EXISTS
  BY <1>2, <1>3, <1>4, <1>6 DEF OK, OUT_OF_MEMORY, ALREADY_EXISTS
<1>8. ResultIsRight'
  BY <1>3, <1>7, Zenon DEF ResultIsRight
<1>9. QED
  BY <1>3, <1>8, AnswerEnds

-----------------------------------------------------------------------------
(***************************************************************************)
(* Writing, and the beginning and the end of calls.                        *)
(***************************************************************************)
LEMMA WriteStepAnswers ==
  ASSUME NEW L, NEW own, BlockInvariantOf(L, own), CallFacts, WriteStep
  PROVE  CallFacts'
<1>1. pc = "write" /\ DOMAIN call = Fields
  BY DEF WriteStep, BlockInvariantOf
<1>2. Different(call.before) /\ call.status = OK /\ call.op = "write"
  BY <1>1 DEF CallFacts, Resting
<1>3. /\ call'.op = call.op /\ call'.before = call.before
      /\ \/ pc' = "write" /\ call'.status = call.status
         \/ pc' = "commit"
  BY <1>1 DEF WriteStep, Goto, Fields
<1>4. QED
  BY <1>2, <1>3, AnswerGoesOn

LEMMA WriteCommitAnswers ==
  ASSUME NEW L, NEW own, BlockInvariantOf(L, own), OthersKept, StoreFacts, CallFacts, WriteCommit
  PROVE  CallFacts'
<1>1. pc = "commit" /\ DOMAIN call = Fields
  BY DEF WriteCommit, BlockInvariantOf
<1>2. call.op = "write"
  BY <1>1 DEF CallFacts
<1>3. /\ pc' = "done" /\ call'.op = call.op /\ call'.file = call.file /\ call'.before = call.before
      /\ call'.written = call.written /\ call'.status = call.status
  BY <1>1 DEF WriteCommit, Done, Fields
<1>4. PICK f, F, G, x : f = call.file /\ F = call.before /\ G = Files(disk') /\ x = call.written
  OBVIOUS
<1>5. /\ f \in DOMAIN F
      /\ \/ call.status = OK /\ Extends(F, G, f, x)
         \/ call.status = OUT_OF_MEMORY /\ call.newFree = 0
  BY <1>4, CommittedFiles
<1>6. call.status = OK => G[f].data = F[f].data \o x
  <2>1. ASSUME call.status = OK
        PROVE  G = [F EXCEPT ![f].data = F[f].data \o x] /\ F[f] = [name |-> F[f].name, data |-> F[f].data]
    <3>1. IsFiles(F) /\ Extends(F, G, f, x)
      BY <1>1, <1>4, <1>5, <2>1 DEF StoreFacts, Resting, OK, OUT_OF_MEMORY
    <3>2. QED
      BY <1>5, <3>1 DEF IsFiles, Extends
  <2>2. QED
    BY <1>5, <2>1
<1>7. call.status = OUT_OF_MEMORY => FreeBlocks(disk') = {}
  <2>1. /\ L \in SUBSET FileIds /\ Layout(own, Link(disk'), L, FreeHead(disk'))
        /\ FreeHead(disk') = call.newFree
    BY WriteCommitIs DEF BlockInvariantOf, Whole
  <2>2. CASE call.newFree = 0
    <3>1. PICK e : e = disk'
      OBVIOUS
    <3>2. FreeBlocks(e) = {}
      BY <2>1, <2>2, <3>1, NoFreeBlocks
    <3>3. QED
      BY <3>1, <3>2
  <2>3. QED
    BY <1>5, <2>2 DEF OK, OUT_OF_MEMORY
<1>8. call'.status = OK =>
        Files(disk')[call'.file].data = call'.before[call'.file].data \o call'.written
  BY <1>3, <1>4, <1>6
<1>9. /\ call'.status = OUT_OF_MEMORY => FreeBlocks(disk') = {}
      /\ call'.status # ALREADY_EXISTS
      /\ call'.op = "write" /\ call'.op \notin {"open_write", "create"} /\ call'.op # "delete"
      /\ call'.op # "stat"
  BY <1>2, <1>3, <1>5, <1>7 DEF OK, OUT_OF_MEMORY, ALREADY_EXISTS
<1>10. ResultIsRight'
  BY <1>8, <1>9, Zenon DEF ResultIsRight
<1>11. QED
  BY <1>3, <1>10, AnswerEnds

LEMMA FindAnswers ==
  ASSUME NEW L, NEW own, BlockInvariantOf(L, own), NEW op, NEW n, Find(op, n),
         Different(call'.before)
  PROVE  CallFacts'
<1>1. PICK c : c = [NoCall EXCEPT !.op = op, !.name = n, !.next = NextFile(disk[SUPER_BLOCK])]
  OBVIOUS
<1>2. DOMAIN c = Fields /\ c.status = OK /\ c.size = 0 /\ c.name = n /\ c.next = FirstFile(disk)
  BY <1>1, CallFields DEF NoCall, FirstFile
<1>3. Begin(c) /\ pc' = "find" /\ disk' = disk
  BY <1>1 DEF Find, ReadBlock
<1>4. /\ Whole(disk, L, own) /\ DOMAIN (call'.before) = L
      /\ call'.status = OK /\ call'.size = 0 /\ call'.name = n /\ call'.next = FirstFile(disk)
  BY <1>2, <1>3, BeginCall DEF Fields
<1>5. Smaller(disk, L, FirstFile(disk), n)
  BY <1>4, FirstIsSmallest DEF BlockInvariantOf, Whole
<1>6. Smaller(disk', DOMAIN (call'.before), call'.next, call'.name)
  BY <1>3, <1>4, <1>5
<1>7. QED
  BY <1>3, <1>4, <1>6, AnswerGoesOn

LEMMA BeginAnswers ==
  ASSUME NEW L, NEW own, BlockInvariantOf(L, own), Different(call'.before),
         \/ \E n \in Names : Create(n)
         \/ \E size \in Nat \ {0} : Read(size)
         \/ \E f, src : IsWrite(f, src)
  PROVE  CallFacts'
<1>1. CASE \E n \in Names : Create(n)
  <2>1. PICK n \in Names : Create(n)
    BY <1>1
  <2>2. PICK c : c = [NoCall EXCEPT !.op = "create", !.name = n]
    OBVIOUS
  <2>3. DOMAIN c = Fields /\ c.op = "create" /\ c.status = OK /\ c.size = 0 /\ c.file = 0
    BY <2>2, CallFields DEF NoCall
  <2>4. Begin(c) /\ pc' = "found"
    BY <2>1, <2>2 DEF Create
  <2>5. call'.op = "create" /\ call'.status = OK /\ call'.size = 0 /\ call'.file = 0
    BY <2>3, <2>4, BeginCall DEF Fields
  <2>6. FoundRight'
    BY <2>5 DEF FoundRight
  <2>7. QED
    BY <2>4, <2>5, <2>6, AnswerGoesOn
<1>2. CASE \E size \in Nat \ {0} : Read(size)
  <2>1. PICK size \in Nat \ {0} : Read(size)
    BY <1>2
  <2>2. PICK c : c = [NoCall EXCEPT !.op = "read", !.size = size]
    OBVIOUS
  <2>3. DOMAIN c = Fields /\ c.op = "read" /\ c.status = OK
    BY <2>2, CallFields DEF NoCall
  <2>4. Begin(c) /\ pc' = "read"
    BY <2>1, <2>2 DEF Read
  <2>5. call'.op = "read" /\ call'.status = OK
    BY <2>3, <2>4, BeginCall DEF Fields
  <2>6. QED
    BY <2>4, <2>5, AnswerGoesOn
<1>3. CASE \E f, src : IsWrite(f, src)
  <2>1. PICK f, src : IsWrite(f, src)
    BY <1>3
  <2>2. PICK c : c = [NoCall EXCEPT !.op = "write", !.file = f, !.bytes = src, !.written = src,
              !.oldFree = block_get_next(disk[SUPER_BLOCK]),
              !.newFree = block_get_next(disk[SUPER_BLOCK]),
              !.used = block_size(disk[writer[f]])]
    OBVIOUS
  <2>3. DOMAIN c = Fields /\ c.op = "write" /\ c.status = OK
    BY <2>2, CallFields DEF NoCall
  <2>4. Begin(c) /\ pc' = "write"
    BY <2>1, <2>2 DEF IsWrite, Write
  <2>5. call'.op = "write" /\ call'.status = OK
    BY <2>3, <2>4, BeginCall DEF Fields
  <2>6. QED
    BY <2>4, <2>5, AnswerGoesOn
<1>4. QED
  BY <1>1, <1>2, <1>3

LEMMA RestAnswers ==
  ASSUME CallFacts, Return \/ (\E f \in FileIds : CloseWriter(f)) \/ CloseReader
  PROVE  CallFacts'
<1>1. pc' = "idle"
  BY DEF Return, CloseWriter, CloseReader
<1>2. QED
  BY <1>1 DEF CallFacts, Resting, ResultIsRight

LEMMA StepAnswers ==
  ASSUME NEW L, NEW own, BlockInvariantOf(L, own), OthersKept, StoreFacts, CallFacts, Step
  PROVE  CallFacts'
<1>1. CASE FindStep \/ FindFails \/ SizeStart \/ SizeStep \/ OpenRead \/ ReadStep
  BY <1>1, FindStepAnswers, FindFailsAnswers, SizeAnswers, ReadAnswers
<1>2. CASE CreateStart \/ CreateScan \/ CreateLink \/ CreateFill \/ CreatePublish
  BY <1>2, CreateStartAnswers, CreateScanAnswers, CreateLinkAnswers, CreateFillAnswers,
     CreatePublishAnswers
<1>3. CASE WriteStep \/ WriteCommit \/ Return
  BY <1>3, WriteStepAnswers, WriteCommitAnswers, RestAnswers
<1>4. CASE \/ FreeStep \/ ClearStart \/ ClearFreed \/ ClearSize \/ DeleteStart \/ DeleteUnlink
           \/ DeletePublish
  BY <1>4, FreeAnswers, FreeStartAnswers, ClearSizeAnswers, DeletePublishAnswers
<1>5. QED
  BY <1>1, <1>2, <1>3, <1>4 DEF Step

LEMMA ClientAnswers ==
  ASSUME NEW L, NEW own, BlockInvariantOf(L, own), StoreFacts, CallFacts, AnyClient
  PROVE  CallFacts'
<1>1. CASE (\E f \in FileIds : CloseWriter(f)) \/ CloseReader
  BY <1>1, RestAnswers
<1>2. CASE ~ ((\E f \in FileIds : CloseWriter(f)) \/ CloseReader)
  <2>1. ~ Resting'
    BY <1>2, Zenon DEF AnyClient, Resting, Find, Create, Read, Write
  <2>2. [AnyNext]_vars
    BY DEF AnyNext
  <2>3. Different(call'.before)
    BY <2>1, <2>2, KeepsDifferent
  <2>4. \/ \E op, n : Find(op, n)
        \/ \E n \in Names : Create(n)
        \/ \E size \in Nat \ {0} : Read(size)
        \/ \E f, src : IsWrite(f, src)
    BY <1>2 DEF AnyClient, IsWrite
  <2>5. QED
    BY <2>3, <2>4, FindAnswers, BeginAnswers
<1>3. QED
  BY <1>1, <1>2

LEMMA AnswersNext ==
  ASSUME BlockInvariant, OthersKept, StoreFacts, CallFacts, [AnyNext]_vars
  PROVE  CallFacts'
<1>1. PICK L, own : BlockInvariantOf(L, own)
  BY DEF BlockInvariant
<1>2. CASE Step
  BY <1>1, <1>2, StepAnswers
<1>3. CASE AnyClient
  BY <1>1, <1>3, ClientAnswers
<1>4. CASE UNCHANGED vars
  <2>1. disk' = disk /\ buffer' = buffer /\ pc' = pc /\ call' = call /\ writer' = writer
    BY <1>4 DEF vars
  <2>2. ResultIsRight => ResultIsRight'
    BY <2>1, Zenon DEF ResultIsRight
  <2>3. SizeRight => SizeRight'
    BY <2>1, Zenon DEF SizeRight
  <2>4. /\ FoundRight => FoundRight'
        /\ CreateRight => CreateRight'
        /\ ClosedRight => ClosedRight'
    BY <2>1, Zenon DEF FoundRight, CreateRight, ClosedRight
  <2>5. QED
    BY <2>1, <2>2, <2>3, <2>4 DEF CallFacts, Resting
<1>5. QED
  BY <1>2, <1>3, <1>4 DEF AnyNext

(***************************************************************************)
(* What a call returns is true of the files: those it created, cleared,    *)
(* deleted or wrote are what it was asked, the sizes are those of the      *)
(* data, memory is full when it says so, and a call that is refused has    *)
(* changed nothing.                                                        *)
(***************************************************************************)
THEOREM ResultsAreRight == Spec => []ResultIsRight
<1>1. Init => CallFacts
  BY DEF Init, CallFacts, Resting, ResultIsRight
<1>2. BlockInvariant /\ OthersKept /\ StoreFacts /\ CallFacts /\ [AnyNext]_vars => CallFacts'
  BY AnswersNext
<1>3. CallFacts => ResultIsRight
  BY DEF CallFacts
<1>4. QED
  BY StoreInvariantHolds, NextIsAny, <1>1, <1>2, <1>3, PTL DEF Spec

-----------------------------------------------------------------------------
(***************************************************************************)
(* The place of a stream in a file, and the bytes from there.              *)
(***************************************************************************)
\* Where the data ends in block number k of a file.
UpTo(d, g, m, k) == IF k = m THEN d[g[m]][0] ELSE BlockSize

\* The bytes before offset o of block number k of a file named n.
BytesTo(n, k, o) == ChunkStart(n, k) + o - DataStart(n, k)

PositionOn(d, s) ==
  LET n == Name(d[s.file])
      chain == Chain(d, s.file)
      k == CHOOSE j \in DOMAIN chain : chain[j] = s.block
  IN  ChunkStart(n, k) + s.offset - DataStart(n, k)

LEMMA PositionIs ==
  ASSUME NEW d, NEW L, DiskOK(d, L), NEW s, s.file \in FileIds, NEW g, NEW m,
         IsPath(d, s.file, g, m), NEW k \in 0 .. m, s.block = g[k]
  PROVE  PositionOn(d, s) = BytesTo(Name(d[s.file]), k, s.offset)
<1>1. PICK c : c = Chain(d, s.file)
  OBVIOUS
<1>2. /\ m \in 0 .. NumBlocks /\ DOMAIN c = 0 .. NumBlocks
      /\ \A i \in 0 .. m : c[i] = g[i]
      /\ \A i \in m + 1 .. NumBlocks : c[i] = 0
  <2>1. m + 1 < NumBlocks
    BY PathShort
  <2>2. m < NumBlocks
    BY <2>1, BlockSets DEF IsPath
  <2>3. QED
    BY <1>1, <2>2, PathIsChain
<1>3. \A i, j \in 0 .. m : g[i] = g[j] => i = j
  BY PathInjective
<1>4. g[k] \in FileIds /\ 0 \notin FileIds /\ NumBlocks \in Nat
  BY BlockSets DEF IsPath
<1>5. k \in DOMAIN c /\ c[k] = s.block
  BY <1>2, <1>4
<1>6. ASSUME NEW j \in DOMAIN c, c[j] = s.block
      PROVE  j = k
  <2>1. j \in 0 .. m
    BY <1>2, <1>4, <1>6
  <2>2. QED
    BY <1>2, <1>3, <1>6, <2>1
<1>7. (CHOOSE j \in DOMAIN c : c[j] = s.block) = k
  BY <1>5, <1>6
<1>8. QED
  BY <1>1, <1>7 DEF PositionOn, BytesTo

LEMMA PartOf ==
  ASSUME NEW x \in Seq(Nat), NEW a \in Nat, NEW b \in Nat, a <= b, b <= Len(x)
  PROVE  /\ SubSeq(x, a + 1, b) \in Seq(Nat) /\ Len(SubSeq(x, a + 1, b)) = b - a
         /\ \A i \in 1 .. b - a : SubSeq(x, a + 1, b)[i] = x[a + i]
<1>1. a + 1 \in Int /\ b \in Int /\ \A i \in a + 1 .. b : x[i] \in Nat
  OBVIOUS
<1>2. PICK y : y = SubSeq(x, a + 1, b)
  OBVIOUS
<1>3. /\ y \in Seq(Nat) /\ Len(y) = IF a + 1 <= b THEN b - (a + 1) + 1 ELSE 0
      /\ \A i \in 1 .. b - (a + 1) + 1 : y[i] = x[a + 1 + i - 1]
  <2>1. PICK m \in Int, n \in Int : m = a + 1 /\ n = b
    BY <1>1
  <2>2. \A i \in m .. n : x[i] \in Nat
    BY <1>1, <2>1
  <2>3. /\ SubSeq(x, m, n) \in Seq(Nat)
        /\ Len(SubSeq(x, m, n)) = IF m <= n THEN n - m + 1 ELSE 0
        /\ \A i \in 1 .. n - m + 1 : SubSeq(x, m, n)[i] = x[m + i - 1]
    BY <2>2, SubSeqProperties
  <2>4. QED
    BY <1>2, <2>1, <2>3
<1>4. Len(y) = b - a /\ b - (a + 1) + 1 = b - a /\ \A i \in 1 .. b - a : a + 1 + i - 1 = a + i
  BY <1>3
<1>5. \A i \in 1 .. b - a : y[i] = x[a + i]
  BY <1>3, <1>4
<1>6. QED
  BY <1>2, <1>3, <1>4, <1>5

\* The bytes read from block number k are those of the file.
LEMMA BytesOfBlock ==
  ASSUME NEW d, NEW n \in Names, NEW g, NEW m \in Nat, HasData(d, n, g, m), NEW k \in 0 .. m,
         NEW o \in DataStart(n, k) .. UpTo(d, g, m, k), NEW c \in 0 .. UpTo(d, g, m, k) - o
  PROVE  /\ CopyFrom(d[g[k]], o, c) =
              SubSeq(DataOf(d, n, g, m), BytesTo(n, k, o) + 1, BytesTo(n, k, o) + c)
         /\ BytesTo(n, k, o) \in Nat /\ BytesTo(n, k, o) + c <= DataLength(d, n, g, m)
<1>1. /\ BlockSize \in Nat /\ d[g[m]][0] \in DataStart(n, m) .. BlockSize /\ k \in Nat
      /\ DataStart(n, m) \in 1 .. BlockSize /\ DataStart(n, k) \in 1 .. BlockSize
      /\ ChunkStart(n, k) \in Nat /\ ChunkStart(n, m) \in Nat
      /\ ChunkStart(n, k + 1) = ChunkStart(n, k) + BlockSize - DataStart(n, k)
  BY Chunks, BlockSets DEF HasData
<1>2. PICK p, x : p = BytesTo(n, k, o) /\ x = DataOf(d, n, g, m)
  OBVIOUS
<1>3. /\ o \in Nat /\ c \in Nat /\ o + c <= UpTo(d, g, m, k) /\ UpTo(d, g, m, k) <= BlockSize
      /\ o >= DataStart(n, k) /\ UpTo(d, g, m, k) \in Nat
  BY <1>1 DEF UpTo
<1>4. p \in Nat /\ p + o - o = ChunkStart(n, k) + o - DataStart(n, k)
  BY <1>1, <1>2, <1>3 DEF BytesTo
<1>5. p + c <= DataLength(d, n, g, m)
  <2>1. CASE k = m
    BY <1>1, <1>2, <1>3, <2>1 DEF BytesTo, UpTo, DataLength
  <2>2. CASE k # m
    <3>1. k + 1 \in Nat /\ k + 1 <= m
      BY <1>1, <2>2
    <3>2. ChunkStart(n, k + 1) <= ChunkStart(n, m)
      BY <3>1, ChunksGrow
    <3>3. p + c <= ChunkStart(n, k + 1)
      BY <1>1, <1>2, <1>3 DEF BytesTo
    <3>4. QED
      BY <1>1, <1>4, <3>2, <3>3 DEF DataLength
  <2>3. QED
    BY <2>1, <2>2
<1>6. x \in Seq(Nat) /\ Len(x) = DataLength(d, n, g, m)
  BY <1>2, DataIsSeq
<1>7. ASSUME NEW i \in 1 .. c
      PROVE  x[p + i] = d[g[k]][o + i - 1]
  <2>1. p + i \in Nat /\ p + i \in 1 .. DataLength(d, n, g, m)
    BY <1>3, <1>4, <1>5, <1>6
  <2>2. Number(n, p + i) = k
    <3>1. ChunkStart(n, k) < p + i /\ p + i <= ChunkStart(n, k + 1)
      BY <1>1, <1>3, <1>4
    <3>2. QED
      BY <1>1, <2>1, <3>1, NumberIs
  <2>3. PlaceOf(n, p + i) = o + i - 1
    BY <1>1, <1>3, <1>4, <2>2 DEF PlaceOf
  <2>4. QED
    BY <1>2, <2>1, <2>2, <2>3 DEF DataOf
<1>8. CopyFrom(d[g[k]], o, c) = SubSeq(x, p + 1, p + c)
  <2>1. PICK y : y = SubSeq(x, p + 1, p + c)
    OBVIOUS
  <2>2. PICK q : q = p + c
    OBVIOUS
  <2>3. q \in Nat /\ p <= q /\ q <= Len(x) /\ q - p = c /\ y = SubSeq(x, p + 1, q)
    BY <1>3, <1>4, <1>5, <1>6, <2>1, <2>2
  <2>4. y \in Seq(Nat) /\ Len(y) = c /\ \A i \in 1 .. c : y[i] = x[p + i]
    BY <1>4, <1>6, <2>3, PartOf
  <2>5. y = [i \in 1 .. c |-> y[i]]
    BY <2>4
  <2>6. QED
    BY <1>7, <2>1, <2>4, <2>5 DEF CopyFrom
<1>9. QED
  BY <1>2, <1>4, <1>5, <1>8

LEMMA PartsJoin ==
  ASSUME NEW x \in Seq(Nat), NEW a \in Nat, NEW b \in Nat, NEW c \in Nat,
         a <= b, b <= c, c <= Len(x)
  PROVE  /\ SubSeq(x, a + 1, b) \o SubSeq(x, b + 1, c) = SubSeq(x, a + 1, c)
         /\ Len(SubSeq(x, a + 1, c)) = c - a
<1>1. PICK m \in Nat : m = Len(x)
  OBVIOUS
<1>2. a + 1 \in 1 .. m + 1 /\ b \in (a + 1) - 1 .. m /\ c \in b .. m
  BY <1>1
<1>3. SubSeq(x, a + 1, b) \o SubSeq(x, b + 1, c) = SubSeq(x, a + 1, c)
  BY <1>1, <1>2, ConcatAdjacentSubSeq, Zenon
<1>4. Len(SubSeq(x, a + 1, c)) = c - a
  <2>1. a <= c
    OBVIOUS
  <2>2. QED
    BY <2>1, PartOf
<1>5. QED
  BY <1>3, <1>4

\* The last block of a file, which has some data unless it is the first one too.
LEMMA LastStart ==
  ASSUME NEW d, NEW n \in Names, NEW g, NEW m \in Nat, HasData(d, n, g, m),
         m # 0 => d[g[m]][0] > 1
  PROVE  FS!LastBlockStart(n, DataLength(d, n, g, m)) = ChunkStart(n, m)
<1>1. /\ d[g[m]][0] \in DataStart(n, m) .. BlockSize /\ DataStart(n, m) \in 1 .. BlockSize
      /\ ChunkStart(n, m) \in Nat /\ FirstChunk[n] \in Nat /\ BlockSize \in Nat
      /\ ChunkStart(n, m + 1) = ChunkStart(n, m) + BlockSize - DataStart(n, m)
  BY Chunks, BlockSets DEF HasData
<1>2. PICK len : len = DataLength(d, n, g, m)
  OBVIOUS
<1>3. len \in Nat /\ len = ChunkStart(n, m) + d[g[m]][0] - DataStart(n, m)
  BY <1>1, <1>2 DEF DataLength
<1>4. CASE m = 0
  <2>1. ChunkStart(n, 0) = 0 /\ ChunkStart(n, 0 + 1) = FirstChunk[n] + (1 - 1) * Chunk
    BY DEF ChunkStart
  <2>2. (1 - 1) * Chunk = 0
    BY Chunks
  <2>3. len <= FirstChunk[n]
    BY <1>1, <1>3, <1>4, <2>1, <2>2
  <2>4. QED
    BY <1>2, <1>4, <2>1, <2>3 DEF FS!LastBlockStart
<1>5. CASE m # 0
  <2>1. ChunkStart(n, m) < len /\ len <= ChunkStart(n, m + 1)
    BY <1>1, <1>3, <1>5 DEF DataStart
  <2>2. Number(n, len) = m
    BY <1>3, <2>1, NumberIs
  <2>3. ~ len <= FirstChunk[n] /\ (len - FirstChunk[n] - 1) \div Chunk + 1 = m
    BY <1>5, <2>2 DEF Number
  <2>4. (len - FirstChunk[n] - 1) \div Chunk = m - 1
    <3>1. (len - FirstChunk[n] - 1) \div Chunk \in Int
      BY <1>1, <1>3, Chunks
    <3>2. QED
      BY <2>3, <3>1
  <2>5. QED
    BY <1>2, <1>5, <2>3, <2>4 DEF FS!LastBlockStart, ChunkStart
<1>6. QED
  BY <1>4, <1>5

-----------------------------------------------------------------------------
\* File f is on the disk.
OnDisk(d, L, own, f) ==
  /\ L \in SUBSET FileIds /\ DiskOK(d, L) /\ f \in L /\ f \in FileIds /\ Name(d[f]) \in Names
  /\ Layout(own, Link(d), L, FreeHead(d)) /\ BlockSizes(d, own)

LEMMA PathOnDisk ==
  ASSUME NEW d, NEW L, NEW own, NEW f, OnDisk(d, L, own, f), NEW g, NEW m, IsPath(d, f, g, m)
  PROVE  /\ m \in Nat /\ g \in [0 .. m -> FileIds] /\ BlockSize \in Nat
         /\ Data(d, f) = DataOf(d, Name(d[f]), g, m) /\ HasData(d, Name(d[f]), g, m)
         /\ d[g[m]][0] \in DataStart(Name(d[f]), m) .. BlockSize
         /\ m # 0 => d[g[m]][0] > 1
<1>1. m \in Nat /\ g \in [0 .. m -> FileIds] /\ g[0] = f
  BY DEF IsPath
<1>2. /\ Data(d, f) = DataOf(d, Name(d[f]), g, m) /\ HasData(d, Name(d[f]), g, m)
      /\ d[g[m]][0] \in DataStart(Name(d[f]), m) .. BlockSize
  BY PathIsData, PathSize DEF OnDisk
<1>3. ASSUME m # 0
      PROVE  d[g[m]][0] > 1
  <2>1. PICK s : s = Link(d)
    OBVIOUS
  <2>2. s = Link(d) /\ Layout(own, s, L, FreeHead(d)) /\ L \in SUBSET FileIds /\ f \in L
    BY <2>1 DEF OnDisk
  <2>3. \A k \in 0 .. m : own[g[k]] = f
    BY <2>2, PathOwn
  <2>4. g[m] # g[0] /\ g[m] \in FileIds
    BY <1>1, <1>3, PathInjective
  <2>5. own[g[m]] = f /\ f # 0 /\ f # g[m]
    BY <1>1, <2>3, <2>4, BlockSets DEF OnDisk
  <2>6. QED
    BY <2>4, <2>5 DEF OnDisk, BlockSizes
<1>4. QED
  BY <1>1, <1>2, <1>3, BlockSets

\* Offset o of block number k is one where the data of the file may be.
Within(d, n, g, m, k, o) == k \in 0 .. m /\ o \in DataStart(n, k) .. UpTo(d, g, m, k)

LEMMA PlaceBounds ==
  ASSUME NEW d, NEW n \in Names, NEW g, NEW m \in Nat, HasData(d, n, g, m), NEW k, NEW o,
         Within(d, n, g, m, k, o)
  PROVE  /\ k \in Nat /\ k <= m /\ k \in 0 .. m
         /\ o \in Nat /\ o >= DataStart(n, k) /\ o <= UpTo(d, g, m, k)
         /\ UpTo(d, g, m, k) \in Nat /\ UpTo(d, g, m, k) <= BlockSize
         /\ DataStart(n, k) \in 1 .. BlockSize /\ ChunkStart(n, k) \in Nat
         /\ BytesTo(n, k, o) \in Nat /\ BytesTo(n, k, o) = ChunkStart(n, k) + o - DataStart(n, k)
         /\ ChunkStart(n, k) <= BytesTo(n, k, o)
         /\ BytesTo(n, k, o) <= ChunkStart(n, k + 1)
<1>1. k \in Nat /\ k <= m /\ k \in 0 .. m /\ o \in DataStart(n, k) .. UpTo(d, g, m, k)
  BY DEF Within
<1>2. /\ DataStart(n, k) \in 1 .. BlockSize /\ ChunkStart(n, k) \in Nat
      /\ ChunkStart(n, k + 1) = ChunkStart(n, k) + BlockSize - DataStart(n, k)
      /\ DataStart(n, m) \in 1 .. BlockSize
  BY <1>1, Chunks
<1>3. d[g[m]][0] \in DataStart(n, m) .. BlockSize /\ BlockSize \in Nat
  BY BlockSets DEF HasData
<1>4. UpTo(d, g, m, k) \in Nat /\ UpTo(d, g, m, k) <= BlockSize
  BY <1>2, <1>3 DEF UpTo
<1>5. o \in Nat /\ o >= DataStart(n, k) /\ o <= UpTo(d, g, m, k)
  BY <1>1, <1>2, <1>4
<1>6. BytesTo(n, k, o) = ChunkStart(n, k) + o - DataStart(n, k)
  BY DEF BytesTo
<1>7. /\ BytesTo(n, k, o) \in Nat /\ ChunkStart(n, k) <= BytesTo(n, k, o)
      /\ BytesTo(n, k, o) <= ChunkStart(n, k + 1)
  BY <1>2, <1>3, <1>4, <1>5, <1>6
<1>8. QED
  BY <1>1, <1>2, <1>4, <1>5, <1>6, <1>7

Reads(d, n, g, m, j, k, o, p) ==
  /\ Within(d, n, g, m, j, o) /\ Within(d, n, g, m, k, p) /\ j <= k
  /\ p = IF k = j THEN o ELSE 1

LEMMA ReadOrder ==
  ASSUME NEW d, NEW n \in Names, NEW g, NEW m \in Nat, HasData(d, n, g, m), NEW j, NEW k,
         NEW o, NEW p, Reads(d, n, g, m, j, k, o, p)
  PROVE  /\ BytesTo(n, j, o) <= BytesTo(n, k, p)
         /\ j # k => BytesTo(n, k, p) = ChunkStart(n, k)
<1>1. Within(d, n, g, m, j, o) /\ Within(d, n, g, m, k, p) /\ j <= k /\ p = IF k = j THEN o ELSE 1
  BY DEF Reads
<1>2. /\ j \in Nat /\ k \in Nat
      /\ BytesTo(n, j, o) \in Nat /\ BytesTo(n, j, o) <= ChunkStart(n, j + 1)
      /\ BytesTo(n, k, p) \in Nat /\ BytesTo(n, k, p) = ChunkStart(n, k) + p - DataStart(n, k)
      /\ ChunkStart(n, k) \in Nat /\ ChunkStart(n, j + 1) \in Nat
  <2>1. /\ j \in Nat /\ BytesTo(n, j, o) \in Nat /\ BytesTo(n, j, o) <= ChunkStart(n, j + 1)
    BY <1>1, PlaceBounds
  <2>2. /\ k \in Nat /\ BytesTo(n, k, p) \in Nat /\ ChunkStart(n, k) \in Nat
        /\ BytesTo(n, k, p) = ChunkStart(n, k) + p - DataStart(n, k)
    BY <1>1, PlaceBounds
  <2>3. j + 1 \in Nat
    BY <2>1
  <2>4. ChunkStart(n, j + 1) \in Nat
    BY <2>3, Chunks
  <2>5. QED
    BY <2>1, <2>2, <2>4
<1>3. CASE j = k
  BY <1>1, <1>2, <1>3
<1>4. CASE j # k
  <2>1. j + 1 \in Nat /\ j + 1 <= k /\ k # 0
    BY <1>1, <1>2, <1>4
  <2>2. ChunkStart(n, j + 1) <= ChunkStart(n, k)
    BY <1>2, <2>1, ChunksGrow
  <2>3. DataStart(n, k) = 1 /\ p = 1
    BY <1>1, <1>4, <2>1 DEF DataStart
  <2>4. BytesTo(n, k, p) = ChunkStart(n, k)
    BY <1>2, <2>3
  <2>5. QED
    BY <1>2, <2>2, <2>4
<1>5. QED
  BY <1>3, <1>4

\* With c bytes more from its last place, a read has the bytes up to there.
Joined(d, n, g, m, j, k, o, p, c) ==
  LET x == DataOf(d, n, g, m)
      a == BytesTo(n, j, o)
      b == BytesTo(n, k, p)
  IN  /\ SubSeq(x, a + 1, b) \o CopyFrom(d[g[k]], p, c) = SubSeq(x, a + 1, b + c)
      /\ Len(SubSeq(x, a + 1, b + c)) = b + c - a
      /\ b + c <= Len(x)

LEMMA ReadJoins ==
  ASSUME NEW d, NEW n \in Names, NEW g, NEW m \in Nat, HasData(d, n, g, m), NEW j, NEW k,
         NEW o, NEW p, Reads(d, n, g, m, j, k, o, p), NEW c \in 0 .. UpTo(d, g, m, k) - p
  PROVE  Joined(d, n, g, m, j, k, o, p, c)
<1>1. Within(d, n, g, m, j, o) /\ Within(d, n, g, m, k, p)
  BY DEF Reads
<1>2. PICK x : x = DataOf(d, n, g, m)
  OBVIOUS
<1>3. PICK a : a = BytesTo(n, j, o)
  OBVIOUS
<1>4. PICK b : b = BytesTo(n, k, p)
  OBVIOUS
<1>5. x \in Seq(Nat) /\ Len(x) = DataLength(d, n, g, m)
  BY <1>2, DataIsSeq
<1>6. a \in Nat
  BY <1>1, <1>3, PlaceBounds
<1>7. b \in Nat /\ p \in Nat /\ UpTo(d, g, m, k) \in Nat
  BY <1>1, <1>4, PlaceBounds
<1>8. a <= b
  BY <1>3, <1>4, ReadOrder
<1>9. c \in Nat
  BY <1>7
<1>10. /\ CopyFrom(d[g[k]], p, c) = SubSeq(x, b + 1, b + c)
       /\ b + c <= DataLength(d, n, g, m)
  <2>1. k \in 0 .. m /\ p \in DataStart(n, k) .. UpTo(d, g, m, k)
    BY <1>1 DEF Within
  <2>2. /\ CopyFrom(d[g[k]], p, c) =
              SubSeq(DataOf(d, n, g, m), BytesTo(n, k, p) + 1, BytesTo(n, k, p) + c)
        /\ BytesTo(n, k, p) + c <= DataLength(d, n, g, m)
    BY <2>1, BytesOfBlock
  <2>3. QED
    BY <1>2, <1>4, <2>2
<1>11. PICK q : q = b + c
  OBVIOUS
<1>12. q \in Nat /\ b <= q /\ q <= Len(x)
  BY <1>5, <1>7, <1>9, <1>10, <1>11
<1>13. /\ SubSeq(x, a + 1, b) \o SubSeq(x, b + 1, q) = SubSeq(x, a + 1, q)
       /\ Len(SubSeq(x, a + 1, q)) = q - a
  BY <1>5, <1>6, <1>7, <1>8, <1>12, PartsJoin
<1>14. CopyFrom(d[g[k]], p, c) = SubSeq(x, b + 1, q)
  BY <1>10, <1>11
<1>15. /\ SubSeq(x, a + 1, b) \o CopyFrom(d[g[k]], p, c) = SubSeq(x, a + 1, b + c)
       /\ Len(SubSeq(x, a + 1, b + c)) = b + c - a
  <2>1. SubSeq(x, a + 1, b) \o CopyFrom(d[g[k]], p, c) = SubSeq(x, a + 1, q)
    BY <1>13, <1>14, Zenon
  <2>2. Len(SubSeq(x, a + 1, q)) = q - a
    BY <1>13
  <2>3. SubSeq(x, a + 1, b) \o CopyFrom(d[g[k]], p, c) = SubSeq(x, a + 1, b + c)
    BY <1>11, <2>1, Zenon
  <2>4. Len(SubSeq(x, a + 1, b + c)) = b + c - a
    <3>1. SubSeq(x, a + 1, b + c) = SubSeq(x, a + 1, q)
      BY <1>11, Zenon
    <3>2. PICK y : y = SubSeq(x, a + 1, q)
      OBVIOUS
    <3>3. Len(y) = q - a
      BY <2>2, <3>2, Zenon
    <3>4. q - a = b + c - a
      BY <1>6, <1>7, <1>9, <1>11
    <3>5. QED
      BY <3>1, <3>2, <3>3, <3>4, Zenon
  <2>5. QED
    BY <2>3, <2>4, Zenon
<1>16. b + c <= Len(x)
  BY <1>11, <1>12
<1>17. QED
  BY <1>2, <1>3, <1>4, <1>15, <1>16, Zenon DEF Joined

-----------------------------------------------------------------------------
(***************************************************************************)
(* A read that began where stream s is, in block number j, is in block     *)
(* number k with stream t and has got the bytes between the two.           *)
(***************************************************************************)
StreamAt(d, g, m, k, s) == s.block = g[k] /\ Within(d, Name(d[s.file]), g, m, k, s.offset)

InFile(d, s) == \E g, m, k : IsPath(d, s.file, g, m) /\ StreamAt(d, g, m, k, s)

ReadsTo(d, g, m, j, k, s, t) ==
  /\ IsPath(d, s.file, g, m) /\ t.file = s.file /\ s.block = g[j] /\ t.block = g[k]
  /\ Reads(d, Name(d[s.file]), g, m, j, k, s.offset, t.offset)

BytesBetween(d, g, m, j, k, s, t) ==
  LET n == Name(d[s.file])
  IN  SubSeq(DataOf(d, n, g, m), BytesTo(n, j, s.offset) + 1, BytesTo(n, k, t.offset))

ReadGoesOn(d, s, t, bytes) ==
  \E g, m, j, k : ReadsTo(d, g, m, j, k, s, t) /\ bytes = BytesBetween(d, g, m, j, k, s, t)

RightRead(d, s, t, data, bytes, size) ==
  LET start == PositionOn(d, s)
      n == Len(bytes)
      last == FS!LastBlockStart(Name(d[s.file]), Len(data))
  IN  /\ bytes = SubSeq(data, start + 1, start + n)
      /\ IF size = 0
           THEN PositionOn(d, t) = start + n
           ELSE /\ start + n = Len(data)
                /\ PositionOn(d, t) = IF start < last THEN last ELSE start

LEMMA ReadStarts ==
  ASSUME NEW d, NEW L, NEW own, NEW s, OnDisk(d, L, own, s.file), InFile(d, s)
  PROVE  ReadGoesOn(d, s, s, << >>)
<1>1. PICK g, m, k : IsPath(d, s.file, g, m) /\ StreamAt(d, g, m, k, s)
  BY DEF InFile
<1>2. PICK n : n = Name(d[s.file])
  OBVIOUS
<1>3. m \in Nat /\ HasData(d, n, g, m) /\ n \in Names
  BY <1>1, <1>2, PathOnDisk DEF OnDisk
<1>4. Within(d, n, g, m, k, s.offset) /\ s.block = g[k]
  BY <1>1, <1>2 DEF StreamAt
<1>5. PICK a : a = BytesTo(n, k, s.offset)
  OBVIOUS
<1>6. PICK x : x = DataOf(d, n, g, m)
  OBVIOUS
<1>7. a \in Nat /\ k \in Nat
  BY <1>3, <1>4, <1>5, PlaceBounds
<1>8. x \in Seq(Nat)
  BY <1>3, <1>6, DataIsSeq
<1>9. SubSeq(x, a + 1, a) = << >>
  BY <1>7, <1>8
<1>10. Reads(d, n, g, m, k, k, s.offset, s.offset)
  BY <1>4, <1>7 DEF Reads
<1>11. ReadsTo(d, g, m, k, k, s, s)
  BY <1>1, <1>2, <1>4, <1>10 DEF ReadsTo
<1>12. << >> = BytesBetween(d, g, m, k, k, s, s)
  BY <1>2, <1>5, <1>6, <1>9, Zenon DEF BytesBetween
<1>13. QED
  BY <1>11, <1>12, Zenon DEF ReadGoesOn

\* What the lemmas on a read in progress start from, for a file named n.
ReadFacts(d, n, g, m, j, k, s, t) ==
  /\ m \in Nat /\ HasData(d, n, g, m) /\ n \in Names
  /\ g \in [0 .. m -> FileIds]
  /\ Data(d, s.file) = DataOf(d, n, g, m)
  /\ Reads(d, n, g, m, j, k, s.offset, t.offset)
  /\ Within(d, n, g, m, j, s.offset) /\ Within(d, n, g, m, k, t.offset)
  /\ m # 0 => d[g[m]][0] > 1

LEMMA ReadParts ==
  ASSUME NEW d, NEW L, NEW own, NEW s, OnDisk(d, L, own, s.file), NEW t, NEW g, NEW m, NEW j, NEW k,
         ReadsTo(d, g, m, j, k, s, t)
  PROVE  ReadFacts(d, Name(d[s.file]), g, m, j, k, s, t)
<1>1. PICK n : n = Name(d[s.file])
  OBVIOUS
<1>2. IsPath(d, s.file, g, m) /\ Reads(d, n, g, m, j, k, s.offset, t.offset)
  BY <1>1 DEF ReadsTo
<1>3. /\ m \in Nat /\ HasData(d, n, g, m) /\ n \in Names /\ g \in [0 .. m -> FileIds]
      /\ Data(d, s.file) = DataOf(d, n, g, m)
      /\ m # 0 => d[g[m]][0] > 1
  BY <1>1, <1>2, PathOnDisk DEF OnDisk
<1>4. Within(d, n, g, m, j, s.offset) /\ Within(d, n, g, m, k, t.offset)
  BY <1>2 DEF Reads
<1>5. QED
  BY <1>1, <1>2, <1>3, <1>4, Zenon DEF ReadFacts

\* What is left in the block of the stream.
Available(d, t) ==
  (IF block_get_next(d[t.block]) = 0 THEN block_size(d[t.block]) ELSE BlockSize) - t.offset

NextFacts(d, g, m, k, s) ==
  /\ Available(d, s) = UpTo(d, g, m, k) - s.offset
  /\ block_get_next(d[s.block]) = 0 <=> k = m
  /\ k # m => k + 1 \in 0 .. m /\ g[k + 1] = block_get_next(d[s.block])

LEMMA AvailableIs ==
  ASSUME NEW d, NEW f, NEW g, NEW m, NEW k \in 0 .. m, NEW s, IsPath(d, f, g, m), s.block = g[k]
  PROVE  NextFacts(d, g, m, k, s)
<1>1. m \in Nat /\ k \in 0 .. m /\ g[k] \in FileIds
  BY DEF IsPath
<1>2. Link(d)[g[k]] = block_get_next(d[g[k]])
  BY <1>1 DEF Link
<1>3. CASE k = m
  <2>1. block_get_next(d[s.block]) = 0
    BY <1>2, <1>3 DEF IsPath
  <2>2. QED
    BY <1>3, <2>1 DEF NextFacts, Available, UpTo, block_size
<1>4. CASE k # m
  <2>1. k + 1 \in 1 .. m /\ (k + 1) - 1 = k /\ k + 1 \in 0 .. m
    BY <1>1, <1>4
  <2>2. g[k + 1] = Link(d)[g[k]] /\ g[k + 1] \in FileIds
    BY <2>1 DEF IsPath
  <2>3. block_get_next(d[s.block]) # 0 /\ g[k + 1] = block_get_next(d[s.block])
    BY <1>2, <2>2, BlockSets
  <2>4. QED
    BY <1>4, <2>1, <2>3 DEF NextFacts, Available, UpTo
<1>5. QED
  BY <1>3, <1>4

LEMMA ReadContinues ==
  ASSUME NEW d, NEW L, NEW own, NEW s, OnDisk(d, L, own, s.file), NEW t, NEW bytes,
         ReadGoesOn(d, s, t, bytes), NEW x, x = block_get_next(d[t.block]), x # 0,
         NEW r, r.file = t.file, r.block = x, r.offset = 1
  PROVE  /\ ReadGoesOn(d, s, r, bytes \o CopyFrom(d[t.block], t.offset, BlockSize - t.offset))
         /\ InFile(d, r)
<1>1. PICK g, m, j, k : ReadsTo(d, g, m, j, k, s, t) /\ bytes = BytesBetween(d, g, m, j, k, s, t)
  BY DEF ReadGoesOn
<1>2. PICK n : n = Name(d[s.file])
  OBVIOUS
<1>3. /\ m \in Nat /\ HasData(d, n, g, m) /\ n \in Names /\ Data(d, s.file) = DataOf(d, n, g, m)
      /\ Reads(d, n, g, m, j, k, s.offset, t.offset)
      /\ Within(d, n, g, m, j, s.offset) /\ Within(d, n, g, m, k, t.offset)
  <2>1. ReadsTo(d, g, m, j, k, s, t)
    BY <1>1, Zenon
  <2>2. ReadFacts(d, Name(d[s.file]), g, m, j, k, s, t)
    BY <2>1, ReadParts, Zenon
  <2>3. QED
    BY <1>2, <2>2, Zenon DEF ReadFacts
<1>4. /\ IsPath(d, s.file, g, m) /\ t.file = s.file /\ s.block = g[j] /\ t.block = g[k]
  BY <1>1 DEF ReadsTo
<1>5. k \in 0 .. m
  BY <1>3 DEF Within
<1>6. k # m /\ k + 1 \in 0 .. m /\ x = g[k + 1]
  <2>1. IsPath(d, s.file, g, m) /\ t.block = g[k]
    BY <1>4
  <2>2. NextFacts(d, g, m, k, t)
    BY <1>5, <2>1, AvailableIs, Zenon
  <2>3. QED
    BY <2>2 DEF NextFacts
<1>7. k \in Nat /\ k + 1 \in Nat /\ k + 1 # 0 /\ j \in Nat /\ j <= k
  <2>1. k \in Nat
    BY <1>3, PlaceBounds
  <2>2. j \in Nat
    BY <1>3, PlaceBounds
  <2>3. j <= k
    BY <1>3 DEF Reads
  <2>4. QED
    BY <2>1, <2>2, <2>3
<1>8. DataStart(n, k + 1) = 1
  BY <1>7 DEF DataStart
<1>9. Within(d, n, g, m, k + 1, 1)
  <2>1. 1 <= UpTo(d, g, m, k + 1) /\ UpTo(d, g, m, k + 1) \in Nat
    <3>1. CASE k + 1 = m
      <4>1. d[g[m]][0] \in DataStart(n, m) .. BlockSize /\ DataStart(n, m) = 1
        BY <1>3, <1>8, <3>1 DEF HasData
      <4>2. QED
        BY <3>1, <4>1, BlockSets DEF UpTo
    <3>2. CASE k + 1 # m
      BY <3>2, BlockSets DEF UpTo
    <3>3. QED
      BY <3>1, <3>2
  <2>2. QED
    BY <1>6, <1>8, <2>1 DEF Within
<1>10. Reads(d, n, g, m, j, k + 1, s.offset, 1)
  BY <1>3, <1>7, <1>9 DEF Reads
<1>11. ReadsTo(d, g, m, j, k + 1, s, r)
  BY <1>2, <1>4, <1>6, <1>10 DEF ReadsTo
<1>12. PICK c : c = BlockSize - t.offset
  OBVIOUS
<1>13. c \in 0 .. UpTo(d, g, m, k) - t.offset
  <2>1. UpTo(d, g, m, k) = BlockSize
    BY <1>6 DEF UpTo
  <2>2. t.offset \in Nat /\ t.offset <= UpTo(d, g, m, k)
    BY <1>3, PlaceBounds
  <2>3. QED
    BY <1>12, <2>1, <2>2, BlockSets
<1>14. Joined(d, n, g, m, j, k, s.offset, t.offset, c)
  BY <1>3, <1>13, ReadJoins
<1>15. PICK a : a = BytesTo(n, j, s.offset)
  OBVIOUS
<1>16. PICK b : b = BytesTo(n, k, t.offset)
  OBVIOUS
<1>17. PICK y : y = DataOf(d, n, g, m)
  OBVIOUS
<1>18. SubSeq(y, a + 1, b) \o CopyFrom(d[g[k]], t.offset, c) = SubSeq(y, a + 1, b + c)
  BY <1>14, <1>15, <1>16, <1>17, Zenon DEF Joined
<1>19. bytes = SubSeq(y, a + 1, b)
  BY <1>1, <1>2, <1>15, <1>16, <1>17, Zenon DEF BytesBetween
<1>20. b + c = BytesTo(n, k + 1, 1)
  <2>1. b = ChunkStart(n, k) + t.offset - DataStart(n, k) /\ b \in Nat /\ t.offset \in Nat
        /\ ChunkStart(n, k) \in Nat /\ DataStart(n, k) \in 1 .. BlockSize
    BY <1>3, <1>16, PlaceBounds
  <2>2. /\ ChunkStart(n, k + 1) = ChunkStart(n, k) + BlockSize - DataStart(n, k)
        /\ ChunkStart(n, k + 1) \in Nat
    BY <1>3, <1>7, Chunks
  <2>3. BytesTo(n, k + 1, 1) = ChunkStart(n, k + 1)
    BY <1>8, <2>2 DEF BytesTo
  <2>4. PICK p \in Int, q \in Int, o \in Int, z \in Int :
           p = ChunkStart(n, k) /\ q = DataStart(n, k) /\ o = t.offset /\ z = BlockSize
    BY <2>1, BlockSets
  <2>5. b = p + o - q /\ c = z - o /\ BytesTo(n, k + 1, 1) = p + z - q
    BY <1>12, <2>1, <2>2, <2>3, <2>4
  <2>6. p + o - q + (z - o) = p + z - q
    BY <2>4
  <2>7. QED
    BY <2>5, <2>6
<1>21. bytes \o CopyFrom(d[t.block], t.offset, c) = SubSeq(y, a + 1, BytesTo(n, k + 1, 1))
  BY <1>4, <1>18, <1>19, <1>20, Zenon
<1>22. bytes \o CopyFrom(d[t.block], t.offset, BlockSize - t.offset) = BytesBetween(d, g, m, j, k + 1, s, r)
  BY <1>2, <1>12, <1>15, <1>17, <1>21, Zenon DEF BytesBetween
<1>23. ReadGoesOn(d, s, r, bytes \o CopyFrom(d[t.block], t.offset, BlockSize - t.offset))
  BY <1>11, <1>22, Zenon DEF ReadGoesOn
<1>24. StreamAt(d, g, m, k + 1, r)
  BY <1>2, <1>4, <1>6, <1>9 DEF StreamAt
<1>25. IsPath(d, r.file, g, m)
  BY <1>4
<1>26. InFile(d, r)
  BY <1>24, <1>25, Zenon DEF InFile
<1>27. QED
  BY <1>23, <1>26, Zenon

LEMMA ReadFinishes ==
  ASSUME NEW d, NEW L, NEW own, NEW s, OnDisk(d, L, own, s.file), NEW t, NEW bytes,
         ReadGoesOn(d, s, t, bytes), NEW c \in Nat, c <= Available(d, t),
         NEW r, r.file = t.file, r.block = t.block, r.offset = t.offset + c
  PROVE  /\ RightRead(d, s, r, Data(d, s.file), bytes \o CopyFrom(d[t.block], t.offset, c), 0)
         /\ InFile(d, r)
<1>1. PICK g, m, j, k : ReadsTo(d, g, m, j, k, s, t) /\ bytes = BytesBetween(d, g, m, j, k, s, t)
  BY DEF ReadGoesOn
<1>2. PICK n : n = Name(d[s.file])
  OBVIOUS
<1>3. /\ m \in Nat /\ HasData(d, n, g, m) /\ n \in Names /\ Data(d, s.file) = DataOf(d, n, g, m)
      /\ Reads(d, n, g, m, j, k, s.offset, t.offset)
      /\ Within(d, n, g, m, j, s.offset) /\ Within(d, n, g, m, k, t.offset)
  <2>1. ReadsTo(d, g, m, j, k, s, t)
    BY <1>1, Zenon
  <2>2. ReadFacts(d, Name(d[s.file]), g, m, j, k, s, t)
    BY <2>1, ReadParts, Zenon
  <2>3. QED
    BY <1>2, <2>2, Zenon DEF ReadFacts
<1>4. /\ IsPath(d, s.file, g, m) /\ t.file = s.file /\ s.block = g[j] /\ t.block = g[k]
  BY <1>1 DEF ReadsTo
<1>5. k \in 0 .. m /\ j \in 0 .. m
  BY <1>3 DEF Within
<1>6. /\ t.offset \in Nat /\ t.offset <= UpTo(d, g, m, k) /\ UpTo(d, g, m, k) \in Nat
      /\ t.offset >= DataStart(n, k) /\ DataStart(n, k) \in 1 .. BlockSize
      /\ BytesTo(n, k, t.offset) = ChunkStart(n, k) + t.offset - DataStart(n, k)
      /\ ChunkStart(n, k) \in Nat
  BY <1>3, PlaceBounds
<1>7. c \in 0 .. UpTo(d, g, m, k) - t.offset
  <2>1. NextFacts(d, g, m, k, t)
    BY <1>4, <1>5, AvailableIs, Zenon
  <2>2. QED
    BY <1>6, <2>1 DEF NextFacts
<1>8. Within(d, n, g, m, k, r.offset)
  BY <1>5, <1>6, <1>7, BlockSets DEF Within
<1>9. Joined(d, n, g, m, j, k, s.offset, t.offset, c)
  BY <1>3, <1>7, ReadJoins
<1>10. PICK a : a = BytesTo(n, j, s.offset)
  OBVIOUS
<1>11. PICK b : b = BytesTo(n, k, t.offset)
  OBVIOUS
<1>12. PICK x : x = DataOf(d, n, g, m)
  OBVIOUS
<1>13. PICK y : y = SubSeq(x, a + 1, b + c)
  OBVIOUS
<1>14. bytes \o CopyFrom(d[t.block], t.offset, c) = y
  <2>1. SubSeq(x, a + 1, b) \o CopyFrom(d[g[k]], t.offset, c) = SubSeq(x, a + 1, b + c)
    BY <1>9, <1>10, <1>11, <1>12, Zenon DEF Joined
  <2>2. bytes = SubSeq(x, a + 1, b)
    BY <1>1, <1>2, <1>10, <1>11, <1>12, Zenon DEF BytesBetween
  <2>3. QED
    BY <1>4, <1>13, <2>1, <2>2, Zenon
<1>15. Len(y) = b + c - a
  BY <1>9, <1>10, <1>11, <1>12, <1>13, Zenon DEF Joined
<1>16. a \in Nat /\ b \in Nat
  BY <1>3, <1>10, <1>11, PlaceBounds
<1>17. PositionOn(d, s) = a
  <2>1. s.file \in FileIds /\ DiskOK(d, L)
    BY DEF OnDisk
  <2>2. QED
    BY <1>2, <1>4, <1>5, <1>10, <2>1, PositionIs
<1>18. PositionOn(d, r) = BytesTo(n, k, r.offset)
  <2>1. r.file \in FileIds /\ DiskOK(d, L) /\ r.file = s.file
    BY <1>4 DEF OnDisk
  <2>2. r.block = g[k] /\ IsPath(d, r.file, g, m)
    BY <1>4
  <2>3. QED
    BY <1>2, <1>5, <2>1, <2>2, PositionIs
<1>19. BytesTo(n, k, r.offset) = b + c
  BY <1>6, <1>11, BlockSets DEF BytesTo
<1>20. b + c = a + Len(y)
  BY <1>15, <1>16
<1>21. y = SubSeq(x, a + 1, a + Len(y))
  BY <1>13, <1>20, Zenon
<1>22. RightRead(d, s, r, x, y, 0)
  <2>1. PositionOn(d, r) = a + Len(y)
    BY <1>18, <1>19, <1>20, Zenon
  <2>2. QED
    BY <1>17, <1>21, <2>1, Zenon DEF RightRead
<1>23. StreamAt(d, g, m, k, r)
  BY <1>2, <1>4, <1>8 DEF StreamAt
<1>24. IsPath(d, r.file, g, m)
  BY <1>4
<1>25. InFile(d, r)
  BY <1>23, <1>24, Zenon DEF InFile
<1>26. QED
  BY <1>3, <1>12, <1>14, <1>22, <1>25, Zenon

LEMMA ReadStops ==
  ASSUME NEW d, NEW L, NEW own, NEW s, OnDisk(d, L, own, s.file), NEW t, NEW bytes,
         ReadGoesOn(d, s, t, bytes), block_get_next(d[t.block]) = 0, NEW size, size # 0
  PROVE  RightRead(d, s, t, Data(d, s.file), bytes \o CopyFrom(d[t.block], t.offset, Available(d, t)), size)
<1>1. PICK g, m, j, k : ReadsTo(d, g, m, j, k, s, t) /\ bytes = BytesBetween(d, g, m, j, k, s, t)
  BY DEF ReadGoesOn
<1>2. PICK n : n = Name(d[s.file])
  OBVIOUS
<1>3. /\ m \in Nat /\ HasData(d, n, g, m) /\ n \in Names /\ Data(d, s.file) = DataOf(d, n, g, m)
      /\ Reads(d, n, g, m, j, k, s.offset, t.offset)
      /\ Within(d, n, g, m, j, s.offset) /\ Within(d, n, g, m, k, t.offset)
      /\ m # 0 => d[g[m]][0] > 1
  <2>1. ReadsTo(d, g, m, j, k, s, t)
    BY <1>1, Zenon
  <2>2. ReadFacts(d, Name(d[s.file]), g, m, j, k, s, t)
    BY <2>1, ReadParts, Zenon
  <2>3. QED
    BY <1>2, <2>2, Zenon DEF ReadFacts
<1>4. /\ IsPath(d, s.file, g, m) /\ t.file = s.file /\ s.block = g[j] /\ t.block = g[k]
  BY <1>1 DEF ReadsTo
<1>5. k \in 0 .. m /\ j \in 0 .. m
  BY <1>3 DEF Within
<1>6. PICK c : c = Available(d, t)
  OBVIOUS
<1>7. k = m /\ c = UpTo(d, g, m, k) - t.offset
  <2>1. NextFacts(d, g, m, k, t)
    BY <1>4, <1>5, AvailableIs, Zenon
  <2>2. QED
    BY <1>6, <2>1 DEF NextFacts
<1>8. /\ t.offset \in Nat /\ t.offset <= UpTo(d, g, m, k) /\ UpTo(d, g, m, k) \in Nat
      /\ t.offset >= DataStart(n, k) /\ DataStart(n, k) \in 1 .. BlockSize
      /\ BytesTo(n, k, t.offset) = ChunkStart(n, k) + t.offset - DataStart(n, k)
      /\ ChunkStart(n, k) \in Nat
  BY <1>3, PlaceBounds
<1>9. c \in 0 .. UpTo(d, g, m, k) - t.offset /\ c \in Nat
  BY <1>7, <1>8
<1>10. Joined(d, n, g, m, j, k, s.offset, t.offset, c)
  BY <1>3, <1>9, ReadJoins
<1>11. PICK a : a = BytesTo(n, j, s.offset)
  OBVIOUS
<1>12. PICK b : b = BytesTo(n, k, t.offset)
  OBVIOUS
<1>13. PICK x : x = DataOf(d, n, g, m)
  OBVIOUS
<1>14. PICK y : y = SubSeq(x, a + 1, b + c)
  OBVIOUS
<1>15. bytes \o CopyFrom(d[t.block], t.offset, c) = y
  <2>1. SubSeq(x, a + 1, b) \o CopyFrom(d[g[k]], t.offset, c) = SubSeq(x, a + 1, b + c)
    BY <1>10, <1>11, <1>12, <1>13, Zenon DEF Joined
  <2>2. bytes = SubSeq(x, a + 1, b)
    BY <1>1, <1>2, <1>11, <1>12, <1>13, Zenon DEF BytesBetween
  <2>3. QED
    BY <1>4, <1>14, <2>1, <2>2, Zenon
<1>16. Len(y) = b + c - a
  BY <1>10, <1>11, <1>12, <1>13, <1>14, Zenon DEF Joined
<1>17. /\ a \in Nat /\ b \in Nat /\ ChunkStart(n, j) <= a
  BY <1>3, <1>11, <1>12, PlaceBounds
<1>18. PositionOn(d, s) = a /\ PositionOn(d, t) = b
  <2>1. s.file \in FileIds /\ DiskOK(d, L) /\ t.file = s.file /\ IsPath(d, t.file, g, m)
    BY <1>4 DEF OnDisk
  <2>2. PositionOn(d, s) = a
    BY <1>2, <1>4, <1>5, <1>11, <2>1, PositionIs
  <2>3. PositionOn(d, t) = BytesTo(Name(d[t.file]), k, t.offset)
    BY <1>4, <1>5, <2>1, PositionIs
  <2>4. QED
    BY <1>2, <1>12, <2>1, <2>2, <2>3
<1>19. b + c = a + Len(y)
  BY <1>9, <1>16, <1>17
<1>20. y = SubSeq(x, a + 1, a + Len(y))
  BY <1>14, <1>19, Zenon
<1>21. Len(x) = DataLength(d, n, g, m)
  BY <1>3, <1>13, DataIsSeq
<1>22. b + c = Len(x)
  <2>1. UpTo(d, g, m, k) = d[g[m]][0]
    BY <1>7 DEF UpTo
  <2>2. Len(x) = ChunkStart(n, m) + d[g[m]][0] - DataStart(n, m)
    BY <1>21 DEF DataLength
  <2>3. PICK v : v = t.offset
    OBVIOUS
  <2>4. /\ b = ChunkStart(n, m) + v - DataStart(n, m) /\ c = d[g[m]][0] - v /\ v \in Nat
        /\ d[g[m]][0] \in Nat /\ ChunkStart(n, m) \in Nat /\ DataStart(n, m) \in Nat
    BY <1>7, <1>8, <1>12, <2>1, <2>3
  <2>5. QED
    BY <2>2, <2>4
<1>23. PICK last : last = FS!LastBlockStart(n, Len(x))
  OBVIOUS
<1>24. last = ChunkStart(n, m)
  BY <1>3, <1>21, <1>23, LastStart
<1>25. b = IF a < last THEN last ELSE a
  <2>1. a <= b
    BY <1>3, <1>11, <1>12, ReadOrder
  <2>2. last \in Nat
    BY <1>7, <1>8, <1>24
  <2>3. CASE j = k
    <3>1. t.offset = s.offset
      BY <1>3, <2>3 DEF Reads
    <3>2. a = b
      BY <1>11, <1>12, <2>3, <3>1
    <3>3. QED
      BY <1>7, <1>17, <1>24, <2>2, <2>3, <3>2
  <2>4. CASE j # k
    <3>1. b = last
      BY <1>3, <1>7, <1>12, <1>24, <2>4, ReadOrder
    <3>2. QED
      BY <1>17, <2>1, <2>2, <3>1
  <2>5. QED
    BY <2>3, <2>4
<1>26. a + Len(y) = Len(x)
  BY <1>19, <1>22
<1>27. PositionOn(d, t) = IF a < last THEN last ELSE a
  BY <1>18, <1>25, Zenon
<1>28. RightRead(d, s, t, x, y, size)
  BY <1>2, <1>18, <1>20, <1>23, <1>26, <1>27, Zenon DEF RightRead
<1>29. QED
  BY <1>3, <1>6, <1>13, <1>15, <1>28, Zenon

-----------------------------------------------------------------------------
(***************************************************************************)
(* The stream that reads: its file is not the one that a call changes.     *)
(***************************************************************************)
\* The steps of the calls that change a file.
Held == {"write", "commit", "free", "freed", "clear", "unlink", "deleted"}

ReaderOn ==
  reader.file # 0 =>
    /\ reader.file \in DOMAIN Store /\ writer[reader.file] = 0
    /\ pc \in Held => call.file # reader.file
    /\ InFile(disk, reader)

ReadOn ==
  pc = "read" =>
    /\ reader.file # 0 /\ call.from.file = reader.file /\ call.size \in Nat
    /\ ReadGoesOn(disk, call.from, reader, call.bytes)

ReaderRight ==
  /\ DOMAIN reader = {"file", "block", "offset"}
  /\ ReaderOn /\ ReadOn /\ ReadIsRight

\* The steps that end a call and write to the disk.
LEMMA EndFrame ==
  ASSUME NEW L, NEW own, BlockInvariantOf(L, own),
         CreatePublish \/ WriteCommit \/ ClearSize \/ DeletePublish
  PROVE  Changes(disk', own)
<1>1. SUPER_BLOCK \in Blocks /\ SUPER_BLOCK = 0
  BY BlockSets
<1>2. CASE CreatePublish \/ WriteCommit \/ DeletePublish
  <2>1. disk' = disk \/ \E v : disk' = [disk EXCEPT ![SUPER_BLOCK] = v]
    BY <1>2 DEF CreatePublish, WriteCommit, DeletePublish, WriteBlock
  <2>2. CASE disk' = disk
    BY <2>2 DEF Changes
  <2>3. ASSUME NEW v, disk' = [disk EXCEPT ![SUPER_BLOCK] = v]
        PROVE  Changes(disk', own)
    BY <1>1, <2>3, ChangesBlock
  <2>4. QED
    BY <2>1, <2>2, <2>3
<1>3. CASE ClearSize
  <2>1. PICK b, v : b = call.file /\ v = [disk[b] EXCEPT ![0] = HeaderSize(Name(disk[b]))]
    OBVIOUS
  <2>2. L \in SUBSET FileIds /\ AtClear(L, own)
    BY <1>3 DEF ClearSize, BlockInvariantOf
  <2>3. b \in L /\ Layout(own, Cut(Link(disk), b), L, FreeHead(disk))
    BY <2>1, <2>2 DEF AtClear, Closed
  <2>4. own[b] = call.file /\ b \in Blocks
    BY <2>1, <2>2, <2>3, FirstBlocks, BlockSets
  <2>5. disk' = [disk EXCEPT ![b] = v]
    BY <1>3, <2>1 DEF ClearSize, WriteBlock
  <2>6. QED
    BY <2>4, <2>5, ChangesBlock
<1>4. QED
  BY <1>2, <1>3

LEMMA StepChanges ==
  ASSUME NEW L, NEW own, BlockInvariantOf(L, own), StoreFacts, Step
  PROVE  Changes(disk', own)
<1>1. CASE ~ Resting /\ ~ Resting'
  BY <1>1, StepFrame
<1>2. CASE Resting
  <2>1. Return
    BY <1>2 DEF Resting, Step, FindStep, FindFails, SizeStart, SizeStep, OpenRead, ReadStep,
       CreateStart, CreateScan, CreateLink, CreateFill, CreatePublish, WriteStep, WriteCommit,
       FreeStep, ClearStart, ClearFreed, ClearSize, DeleteStart, DeleteUnlink, DeletePublish
  <2>2. QED
    BY <2>1 DEF Return, Changes
<1>3. CASE ~ Resting /\ Resting'
  <2>1. CASE CreatePublish \/ WriteCommit \/ ClearSize \/ DeletePublish
    BY <2>1, EndFrame
  <2>2. CASE ~ CreatePublish /\ ~ ClearSize /\ ~ WriteCommit /\ ~ DeletePublish
    BY <1>3, <2>2, LookEnds DEF Changes
  <2>3. QED
    BY <2>1, <2>2
<1>4. QED
  BY <1>1, <1>2, <1>3

\* A path stays in the blocks of its file.
LEMMA PathIn ==
  ASSUME NEW d, NEW f, NEW g, NEW m, IsPath(d, f, g, m), NEW S, Links(Link(d), f, S), f \in S
  PROVE  \A k \in 0 .. m : g[k] \in S
<1>1. PICK s : s = Link(d)
  OBVIOUS
<1>2. /\ m \in Nat /\ g \in [0 .. m -> FileIds] /\ g[0] = f
      /\ \A k \in 1 .. m : g[k] = s[g[k - 1]]
  BY <1>1 DEF IsPath
<1>3. \A b \in S : s[b] \in S \cup {0}
  BY <1>1 DEF Links, Sorted, FirstOf, Beyond
<1> DEFINE T == {k \in 0 .. m : g[k] \in S}
<1>4. 0 \in T /\ 0 \in Int /\ m \in Int
  BY <1>2
<1>5. ASSUME NEW k \in 0 .. m - 1, k \in T
      PROVE  k + 1 \in T
  <2>1. PICK q : q = k + 1
    OBVIOUS
  <2>2. q \in 1 .. m /\ q \in 0 .. m /\ q - 1 = k /\ k \in 0 .. m
    BY <1>2, <2>1
  <2>3. g[q] = s[g[k]] /\ g[q] \in FileIds /\ g[k] \in S
    BY <1>2, <1>5, <2>2
  <2>4. g[q] \in S
    BY <1>3, <2>3, BlockSets
  <2>5. QED
    BY <2>1, <2>2, <2>4
<1> HIDE DEF T
<1>6. \A k \in 0 .. m : k \in T
  BY <1>4, <1>5, IntervalInduction
<1>7. QED
  BY <1>6 DEF T

\* A stream in a file that is not touched stays where it is.
LEMMA InFileFrame ==
  ASSUME NEW d, NEW e, NEW s, NEW f, f = s.file, NEW S, S \in SUBSET FileIds, f \in S,
         Links(Link(d), f, S), Untouched(d, e, f, S), InFile(d, s)
  PROVE  InFile(e, s)
<1>1. PICK g, m, k : IsPath(d, f, g, m) /\ StreamAt(d, g, m, k, s)
  BY DEF InFile
<1>2. \A i \in 0 .. m : g[i] \in S
  BY <1>1, PathIn
<1>3. m \in Nat /\ g \in [0 .. m -> FileIds]
  BY <1>1 DEF IsPath
<1>4. \A b \in S : e[b][0] = d[b][0]
  BY BlockSets DEF Untouched
<1>5. Name(e[f]) = Name(d[f])
  BY BlockSets DEF Untouched, Name
<1>6. \A i \in 0 .. m : Link(e)[g[i]] = Link(d)[g[i]]
  BY <1>2, <1>3, <1>4 DEF Link, block_get_next
<1>7. IsPath(e, f, g, m)
  BY <1>1, <1>6, PathFrame
<1>8. UpTo(e, g, m, k) = UpTo(d, g, m, k)
  BY <1>2, <1>3, <1>4 DEF UpTo
<1>9. StreamAt(e, g, m, k, s)
  <2>1. s.block = g[k] /\ Within(d, Name(d[f]), g, m, k, s.offset)
    BY <1>1 DEF StreamAt
  <2>2. Within(e, Name(e[f]), g, m, k, s.offset)
    BY <1>5, <1>8, <2>1 DEF Within
  <2>3. QED
    BY <2>1, <2>2 DEF StreamAt
<1>10. QED
  BY <1>7, <1>9 DEF InFile

LEMMA ReaderFrame ==
  ASSUME NEW L, NEW own, BlockInvariantOf(L, own), StoreFacts, ReaderOn, Step, reader.file # 0
  PROVE  InFile(disk', reader)
<1>1. PICK f : f = reader.file
  OBVIOUS
<1>2. /\ f \in DOMAIN Store /\ InFile(disk, reader) /\ f # 0
      /\ pc \in Held => call.file # f
  BY <1>1 DEF ReaderOn
<1>3. CASE disk' = disk
  BY <1>2, <1>3
<1>4. CASE ~ Resting /\ f # call.file
  <2>1. L \in SUBSET FileIds /\ f \in Others(L)
    BY <1>2, <1>4 DEF BlockInvariantOf, Resting, Store, Others
  <2>2. PICK S : S = Own(own, f)
    OBVIOUS
  <2>3. Links(Link(disk), f, S) /\ own[f] = f
    BY <1>4, <2>1, <2>2, OthersApart DEF Apart
  <2>4. S \in SUBSET FileIds /\ f \in S
    BY <2>1, <2>2, <2>3 DEF Own, Others
  <2>5. PICK e : e = disk'
    OBVIOUS
  <2>6. Changes(e, own)
    BY <2>5, StepChanges
  <2>7. Untouched(disk, e, f, S)
    BY <2>1, <2>2, <2>3, <2>6, ChangesFrame
  <2>8. InFile(e, reader)
    BY <1>1, <1>2, <2>3, <2>4, <2>7, InFileFrame
  <2>9. QED
    BY <2>5, <2>8
<1>5. CASE Resting
  <2>1. Return
    BY <1>5 DEF Resting, Step, FindStep, FindFails, SizeStart, SizeStep, OpenRead, ReadStep,
       CreateStart, CreateScan, CreateLink, CreateFill, CreatePublish, WriteStep, WriteCommit,
       FreeStep, ClearStart, ClearFreed, ClearSize, DeleteStart, DeleteUnlink, DeletePublish
  <2>2. QED
    BY <1>3, <2>1 DEF Return
<1>6. CASE f = call.file
  <2>1. pc \notin Held /\ call.file # 0
    BY <1>2, <1>6
  <2>2. pc \notin {"link", "fill", "publish"}
    BY <2>1 DEF BlockInvariantOf, AtLink, AtFill, AtPublish
  <2>3. disk' = disk
    BY <2>1, <2>2 DEF Held, Step, FindStep, FindFails, SizeStart, SizeStep, OpenRead, ReadStep,
       CreateStart, CreateScan, CreateLink, CreateFill, CreatePublish, WriteStep, WriteCommit,
       FreeStep, ClearStart, ClearFreed, ClearSize, DeleteStart, DeleteUnlink, DeletePublish,
       Return, FreeStart, ReadBlock
  <2>4. QED
    BY <1>3, <2>3
<1>7. QED
  BY <1>4, <1>5, <1>6

\* The files that a call does not delete are there after a step.
LEMMA FileStays ==
  ASSUME BlockInvariant, OthersKept, StoreFacts, [AnyNext]_vars, NEW f, f \in DOMAIN Store,
         pc \in Held => call.file # f
  PROVE  f \in DOMAIN Store'
<1>1. PICK L, own : BlockInvariantOf(L, own)
  BY DEF BlockInvariant
<1>2. CASE ~ Resting'
  <2>1. Store' = call'.before
    BY <1>2 DEF Store
  <2>2. CASE Resting /\ call'.before = Files(disk)
    BY <2>1, <2>2 DEF Store
  <2>3. CASE ~ Resting /\ call'.before = call.before
    BY <2>1, <2>3 DEF Store
  <2>4. QED
    BY <1>1, <1>2, <2>2, <2>3, NextIs DEF CallGoesOn, vars
<1>3. CASE UNCHANGED vars
  <2>1. disk' = disk /\ pc' = pc /\ call' = call
    BY <1>3 DEF vars
  <2>2. QED
    BY <2>1 DEF Store, Resting
<1>4. CASE Resting' /\ Resting /\ AnyNext
  <2>1. Store' = Store
    BY <1>4, RestEnds DEF Store
  <2>2. QED
    BY <2>1
<1>5. CASE Resting' /\ ~ Resting /\ AnyNext
  <2>1. Store = call.before /\ Store' = Files(disk')
    BY <1>5 DEF Store
  <2>2. Step
    <3>1. ~ AnyClient
      BY <1>5, Zenon DEF Resting, AnyClient, Find, Create, Read, Write, CloseWriter, CloseReader, Begin
    <3>2. QED
      BY <1>5, <3>1 DEF AnyNext
  <2>3. CASE CreatePublish
    <3>1. PICK g, n : Adds(call.before, Files(disk'), g, n)
      BY <1>1, <2>3, PublishFiles, Zenon
    <3>2. QED
      BY <2>1, <3>1 DEF Adds
  <2>4. CASE ClearSize
    BY <1>1, <2>1, <2>4, ClearedFiles
  <2>5. CASE WriteCommit
    <3>1. PICK F, G, g, s : F = call.before /\ G = Files(disk') /\ g = call.file /\ s = call.written
      OBVIOUS
    <3>2. Extends(F, G, g, s) \/ ExtendsShort(F, G, g, s)
      BY <1>1, <2>5, <3>1, CommittedFiles, Zenon
    <3>3. DOMAIN G = DOMAIN F
      BY <3>2 DEF Extends, ExtendsShort
    <3>4. QED
      BY <2>1, <3>1, <3>3
  <2>6. CASE DeletePublish
    <3>1. Removes(call.before, Files(disk'), call.file)
      BY <1>1, <2>6, DeletedFiles
    <3>2. call.file # f
      BY <2>6 DEF DeletePublish, Held
    <3>3. QED
      BY <2>1, <3>1, <3>2 DEF Removes
  <2>7. CASE ~ CreatePublish /\ ~ ClearSize /\ ~ WriteCommit /\ ~ DeletePublish
    <3>1. disk' = disk /\ Files(disk) = call.before
      BY <1>5, <2>2, <2>7, LookEnds
    <3>2. QED
      BY <2>1, <3>1
  <2>8. QED
    BY <2>3, <2>4, <2>5, <2>6, <2>7
<1>6. QED
  BY <1>2, <1>3, <1>4, <1>5

\* No stream writes the file that is read.
LEMMA ReaderAlone ==
  ASSUME NEW L, NEW own, BlockInvariantOf(L, own), ReaderOn, Step, ~ Resting, reader.file # 0
  PROVE  writer'[reader.file] = 0
<1>1. PICK f : f = reader.file
  OBVIOUS
<1>2. /\ f \in L /\ writer[f] = 0 /\ f # 0 /\ f \in FileIds
      /\ pc \in Held => call.file # f
      /\ writer \in [FileIds -> Blocks]
  BY <1>1 DEF ReaderOn, BlockInvariantOf, Resting, Store, Writers
<1>3. CASE writer' = writer
  BY <1>1, <1>2, <1>3
<1>4. CASE CreatePublish
  <2>1. call.newFile # f /\ writer' = [writer EXCEPT ![call.newFile] = call.newFile]
    BY <1>2, <1>4 DEF CreatePublish, BlockInvariantOf, AtPublish
  <2>2. QED
    BY <1>1, <1>2, <2>1
<1>5. CASE ClearSize \/ WriteStep
  <2>1. call.file # f
    BY <1>2, <1>5 DEF ClearSize, WriteStep, Held
  <2>2. writer' = writer \/ \E x : writer' = [writer EXCEPT ![call.file] = x]
    BY <1>5 DEF ClearSize, WriteStep
  <2>3. QED
    BY <1>1, <1>2, <2>1, <2>2
<1>6. CASE ~ CreatePublish /\ ~ ClearSize /\ ~ WriteStep
  <2>1. writer' = writer
    BY <1>6 DEF Step, FindStep, FindFails, SizeStart, SizeStep, OpenRead, ReadStep,
       CreateStart, CreateScan, CreateLink, CreateFill, WriteCommit,
       FreeStep, ClearStart, ClearFreed, DeleteStart, DeleteUnlink, DeletePublish,
       Return, FreeStart, Streams
  <2>2. QED
    BY <1>3, <2>1
<1>7. QED
  BY <1>4, <1>5, <1>6

\* A call that changes a file is not about the one that is read.
LEMMA ReaderApart ==
  ASSUME NEW L, NEW own, BlockInvariantOf(L, own), ReaderOn, Step, reader.file # 0, pc' \in Held
  PROVE  call'.file # reader.file
<1>1. ~ Resting /\ ~ Resting'
  BY DEF Held, Resting, Step, FindStep, FindFails, SizeStart, SizeStep, OpenRead, ReadStep,
     CreateStart, CreateScan, CreateLink, CreateFill, CreatePublish, WriteStep, WriteCommit,
     FreeStep, ClearStart, ClearFreed, ClearSize, DeleteStart, DeleteUnlink, DeletePublish, Return
<1>2. CallGoesOn
  BY <1>1, StepFrame
<1>3. CASE pc \in Held
  <2>1. call.file # 0 /\ call.file # reader.file
    BY <1>3, BlockSets DEF Held, ReaderOn, BlockInvariantOf, AtWrite, AtCommit, AtFree, AtFreed, AtClear,
       AtUnlink, AtDeleted, Closed
  <2>2. QED
    BY <1>2, <2>1 DEF CallGoesOn
<1>4. CASE pc \notin Held
  <2>1. ClearStart \/ DeleteStart
    BY <1>4 DEF Held, Step, FindStep, FindFails, SizeStart, SizeStep, OpenRead, ReadStep,
       CreateStart, CreateScan, CreateLink, CreateFill, CreatePublish, WriteStep, WriteCommit,
       FreeStep, ClearFreed, ClearSize, DeleteUnlink, DeletePublish, Return, Goto, Done
  <2>2. call.file # 0 /\ call.file # reader.file
    BY <2>1 DEF ClearStart, DeleteStart, CanWrite
  <2>3. QED
    BY <1>2, <2>2 DEF CallGoesOn
<1>5. QED
  BY <1>3, <1>4

LEMMA ReaderStays ==
  ASSUME BlockInvariant, OthersKept, StoreFacts, ReaderOn, Step, reader' = reader
  PROVE  ReaderOn'
<1>1. PICK L, own : BlockInvariantOf(L, own)
  BY DEF BlockInvariant
<1>2. CASE reader.file = 0
  BY <1>2 DEF ReaderOn
<1>3. CASE reader.file # 0
  <2>1. reader.file \in DOMAIN Store'
    <3>1. [AnyNext]_vars
      BY DEF AnyNext
    <3>2. PICK f : f = reader.file
      OBVIOUS
    <3>3. f \in DOMAIN Store /\ (pc \in Held => call.file # f)
      BY <1>3, <3>2 DEF ReaderOn
    <3>4. f \in DOMAIN Store'
      BY <3>1, <3>3, FileStays
    <3>5. QED
      BY <3>2, <3>4
  <2>2. writer'[reader.file] = 0
    <3>1. CASE Resting
      <4>1. Return
        BY <3>1 DEF Resting, Step, FindStep, FindFails, SizeStart, SizeStep, OpenRead, ReadStep,
           CreateStart, CreateScan, CreateLink, CreateFill, CreatePublish, WriteStep, WriteCommit,
           FreeStep, ClearStart, ClearFreed, ClearSize, DeleteStart, DeleteUnlink, DeletePublish
      <4>2. QED
        BY <1>3, <4>1 DEF Return, Streams, ReaderOn
    <3>2. CASE ~ Resting
      BY <1>1, <1>3, <3>2, ReaderAlone
    <3>3. QED
      BY <3>1, <3>2
  <2>3. pc' \in Held => call'.file # reader.file
    BY <1>1, <1>3, ReaderApart
  <2>4. InFile(disk', reader)
    BY <1>1, <1>3, ReaderFrame
  <2>5. QED
    BY <2>1, <2>2, <2>3, <2>4, Zenon DEF ReaderOn
<1>4. QED
  BY <1>2, <1>3

LEMMA OnDiskIs ==
  ASSUME NEW L, NEW own, BlockInvariantOf(L, own), Whole(disk, L, own), NEW f, f \in L
  PROVE  /\ OnDisk(disk, L, own, f)
         /\ Files(disk)[f].name = Name(disk[f]) /\ Files(disk)[f].data = Data(disk, f)
<1>1. /\ L \in SUBSET FileIds /\ DiskOK(disk, L) /\ BlockSizes(disk, own) /\ Listing(disk, L)
      /\ Layout(own, Link(disk), L, FreeHead(disk)) /\ f \in FileIds
  BY DEF BlockInvariantOf, Whole
<1>2. Name(disk[f]) \in Names
  BY <1>1, ListingFacts
<1>3. Files(disk)[f].name = Name(disk[f]) /\ Files(disk)[f].data = Data(disk, f)
  BY <1>1, FilesAre
<1>4. QED
  BY <1>1, <1>2, <1>3, Zenon DEF OnDisk

LEMMA AvailableNat ==
  ASSUME NEW d, NEW L, NEW own, NEW s, OnDisk(d, L, own, s.file), InFile(d, s)
  PROVE  Available(d, s) \in Nat
<1>1. PICK g, m, k : IsPath(d, s.file, g, m) /\ StreamAt(d, g, m, k, s)
  BY DEF InFile
<1>2. PICK n : n = Name(d[s.file])
  OBVIOUS
<1>3. m \in Nat /\ HasData(d, n, g, m) /\ n \in Names
  BY <1>1, <1>2, PathOnDisk DEF OnDisk
<1>4. Within(d, n, g, m, k, s.offset) /\ s.block = g[k]
  BY <1>1, <1>2 DEF StreamAt
<1>5. k \in 0 .. m
  BY <1>4 DEF Within
<1>6. NextFacts(d, g, m, k, s)
  BY <1>1, <1>4, <1>5, AvailableIs, Zenon
<1>7. s.offset \in Nat /\ s.offset <= UpTo(d, g, m, k) /\ UpTo(d, g, m, k) \in Nat
  BY <1>3, <1>4, PlaceBounds
<1>8. QED
  BY <1>6, <1>7 DEF NextFacts

\* What the reader returns is right if it is what the lemmas on reads say.
LEMMA RightIsRight ==
  ASSUME pc' = "done", reader'.file = call'.from.file, NEW f, f = reader'.file,
         Files(disk')[f].name = Name(disk'[f]), NEW x, x = Files(disk')[f].data,
         RightRead(disk', call'.from, reader', x, call'.bytes, call'.size)
  PROVE  ReadIsRight'
<1>1. Store' = Files(disk')
  BY DEF Store, Resting
<1>2. PICK F : F = Files(disk')
  OBVIOUS
<1>3. /\ Store'[reader'.file].data = x /\ Store'[reader'.file].name = Name(disk'[call'.from.file])
  BY <1>1
<1>4. /\ Position(call.from)' = PositionOn(disk', call'.from)
      /\ Position(reader)' = PositionOn(disk', reader')
  BY Zenon DEF Position, PositionOn
<1>5. QED
  BY <1>3, <1>4, Zenon DEF ReadIsRight, RightRead

\* A read goes through one more block.
LEMMA ReadStepReads ==
  ASSUME BlockInvariant, OthersKept, StoreFacts, ReaderRight, ReadStep
  PROVE  ReaderRight'
<1>1. PICK L, own : BlockInvariantOf(L, own)
  BY DEF BlockInvariant
<1>2. PICK f, s : f = reader.file /\ s = call.from
  OBVIOUS
<1>3. /\ pc = "read" /\ disk' = disk /\ writer' = writer /\ ~ Resting
      /\ DOMAIN call = Fields /\ Whole(disk, L, own) /\ Files(disk) = call.before
      /\ L = DOMAIN call.before
  BY <1>1 DEF ReadStep, ReadBlock, Resting, BlockInvariantOf, AtQuery, StoreFacts, Looks
<1>4. /\ f # 0 /\ f \in L /\ writer[f] = 0 /\ InFile(disk, reader)
      /\ s.file = f /\ call.size \in Nat /\ ReadGoesOn(disk, s, reader, call.bytes)
      /\ DOMAIN reader = {"file", "block", "offset"}
  BY <1>2, <1>3 DEF ReaderRight, ReaderOn, ReadOn, Store
<1>5. /\ OnDisk(disk, L, own, f)
      /\ Files(disk)[f].name = Name(disk[f]) /\ Files(disk)[f].data = Data(disk, f)
  BY <1>1, <1>3, <1>4, OnDiskIs
<1>6. OnDisk(disk, L, own, s.file)
  BY <1>4, <1>5
<1>7. PICK a : a = Available(disk, reader)
  OBVIOUS
<1>8. a \in Nat
  BY <1>2, <1>4, <1>5, <1>7, AvailableNat
<1>9. PICK b, next : b = disk[reader.block] /\ next = block_get_next(b)
  OBVIOUS
<1>10. a = (IF next = 0 THEN block_size(b) ELSE BlockSize) - reader.offset
  BY <1>7, <1>9 DEF Available
<1>11. DOMAIN Files(disk) = L
  BY <1>3
<1>12. f \in DOMAIN Store'
  <2>1. CASE Resting'
    BY <1>3, <1>4, <1>11, <2>1 DEF Store
  <2>2. CASE ~ Resting'
    <3>1. Step
      BY DEF Step
    <3>2. call'.before = call.before
      BY <1>1, <1>3, <2>2, <3>1, StepFrame DEF CallGoesOn
    <3>3. QED
      BY <1>3, <1>4, <2>2, <3>2 DEF Store
  <2>3. QED
    BY <2>1, <2>2
<1>13. ASSUME NEW r, reader' = r, DOMAIN r = {"file", "block", "offset"}, r.file = f,
              InFile(disk, r), pc' \notin Held
       PROVE  DOMAIN reader' = {"file", "block", "offset"} /\ ReaderOn'
  BY <1>3, <1>4, <1>12, <1>13, Zenon DEF ReaderOn
<1>14. PICK got : got = call.bytes \o CopyFrom(b, reader.offset, call.size)
  OBVIOUS
<1>15. PICK whole : whole = call.bytes \o CopyFrom(b, reader.offset, a)
  OBVIOUS
<1>16. CASE /\ a >= call.size
            /\ reader' = [reader EXCEPT !.offset = @ + call.size]
            /\ Done(OK, [call EXCEPT !.bytes = @ \o CopyFrom(b, reader.offset, call.size),
                                     !.size = @ - call.size])
  <2>1. PICK r : r = [reader EXCEPT !.offset = @ + call.size]
    OBVIOUS
  <2>2. /\ DOMAIN r = {"file", "block", "offset"} /\ r.file = reader.file /\ r.block = reader.block
        /\ r.offset = reader.offset + call.size
    BY <1>4, <2>1
  <2>3. /\ RightRead(disk, s, r, Data(disk, s.file), got, 0)
        /\ InFile(disk, r)
    <3>1. call.size <= Available(disk, reader)
      BY <1>4, <1>7, <1>8, <1>16
    <3>2. /\ RightRead(disk, s, r, Data(disk, s.file),
                       call.bytes \o CopyFrom(disk[reader.block], reader.offset, call.size), 0)
          /\ InFile(disk, r)
      BY <1>4, <1>6, <2>2, <3>1, ReadFinishes, Zenon
    <3>3. QED
      BY <1>9, <1>14, <3>2, Zenon
  <2>4. PICK c : c = [call EXCEPT !.bytes = got, !.size = call.size - call.size]
    OBVIOUS
  <2>5. Done(OK, c)
    BY <1>14, <1>16, <2>4
  <2>6. pc' = "done" /\ call'.bytes = got /\ call'.size = call.size - call.size /\ call'.from = s
    BY <1>2, <1>3, <2>4, <2>5 DEF Done, Fields
  <2>7. call'.size = 0
    BY <1>4, <2>6
  <2>8. reader' = r
    BY <1>16, <2>1
  <2>9. ReadIsRight'
    <3>1. RightRead(disk', call'.from, reader', Files(disk')[f].data, call'.bytes, call'.size)
      BY <1>3, <1>4, <1>5, <2>3, <2>6, <2>7, <2>8, Zenon
    <3>2. f = reader'.file /\ reader'.file = call'.from.file /\ Files(disk')[f].name = Name(disk'[f])
      BY <1>2, <1>3, <1>4, <1>5, <2>2, <2>6, <2>8, Zenon
    <3>3. QED
      BY <2>6, <3>1, <3>2, RightIsRight, Zenon
  <2>10. DOMAIN reader' = {"file", "block", "offset"} /\ ReaderOn'
    <3>1. r.file = f /\ pc' \notin Held
      BY <1>2, <2>2, <2>6 DEF Held
    <3>2. QED
      BY <1>13, <2>2, <2>3, <2>8, <3>1, Zenon
  <2>11. QED
    BY <2>6, <2>9, <2>10 DEF ReaderRight, ReadOn
<1>17. CASE /\ a < call.size /\ next = 0
            /\ UNCHANGED reader
            /\ Done(OK, [call EXCEPT !.bytes = @ \o CopyFrom(b, reader.offset, a), !.size = @ - a])
  <2>1. PICK c, z : z = call.size - a /\ c = [call EXCEPT !.bytes = whole, !.size = z]
    OBVIOUS
  <2>2. z # 0
    BY <1>4, <1>8, <1>17, <2>1
  <2>3. RightRead(disk, s, reader, Data(disk, s.file), whole, z)
    <3>1. block_get_next(disk[reader.block]) = 0
      BY <1>9, <1>17
    <3>2. RightRead(disk, s, reader, Data(disk, s.file),
                    call.bytes \o CopyFrom(disk[reader.block], reader.offset, Available(disk, reader)), z)
      BY <1>4, <1>6, <2>2, <3>1, ReadStops, Zenon
    <3>3. QED
      BY <1>7, <1>9, <1>15, <3>2, Zenon
  <2>4. Done(OK, c)
    BY <1>15, <1>17, <2>1
  <2>5. pc' = "done" /\ call'.bytes = whole /\ call'.size = z /\ call'.from = s
    BY <1>2, <1>3, <2>1, <2>4 DEF Done, Fields
  <2>6. reader' = reader
    BY <1>17
  <2>7. ReadIsRight'
    <3>1. RightRead(disk', call'.from, reader', Files(disk')[f].data, call'.bytes, call'.size)
      BY <1>3, <1>4, <1>5, <2>3, <2>5, <2>6, Zenon
    <3>2. f = reader'.file /\ reader'.file = call'.from.file /\ Files(disk')[f].name = Name(disk'[f])
      BY <1>2, <1>3, <1>4, <1>5, <2>5, <2>6, Zenon
    <3>3. QED
      BY <2>5, <3>1, <3>2, RightIsRight, Zenon
  <2>8. DOMAIN reader' = {"file", "block", "offset"} /\ ReaderOn'
    <3>1. reader.file = f /\ pc' \notin Held
      BY <1>2, <2>5 DEF Held
    <3>2. QED
      BY <1>4, <1>13, <2>6, <3>1, Zenon
  <2>9. QED
    BY <2>5, <2>7, <2>8 DEF ReaderRight, ReadOn
<1>18. CASE /\ a < call.size /\ next # 0
            /\ reader' = [reader EXCEPT !.block = next, !.offset = 1]
            /\ Goto("read", [call EXCEPT !.bytes = @ \o CopyFrom(b, reader.offset, a), !.size = @ - a])
  <2>1. PICK c, z : z = call.size - a /\ c = [call EXCEPT !.bytes = whole, !.size = z]
    OBVIOUS
  <2>2. z \in Nat
    BY <1>4, <1>8, <1>18, <2>1
  <2>3. PICK r : r = [reader EXCEPT !.block = next, !.offset = 1]
    OBVIOUS
  <2>4. /\ DOMAIN r = {"file", "block", "offset"} /\ r.file = reader.file /\ r.block = next
        /\ r.offset = 1
    BY <1>4, <2>3
  <2>5. ReadGoesOn(disk, s, r, whole) /\ InFile(disk, r)
    <3>1. next = block_get_next(disk[reader.block]) /\ next # 0
      BY <1>9, <1>18
    <3>2. /\ ReadGoesOn(disk, s, r, call.bytes \o CopyFrom(disk[reader.block], reader.offset,
                                                           BlockSize - reader.offset))
          /\ InFile(disk, r)
      BY <1>4, <1>6, <2>4, <3>1, ReadContinues, Zenon
    <3>3. a = BlockSize - reader.offset
      BY <1>10, <1>18
    <3>4. QED
      BY <1>9, <1>15, <3>2, <3>3, Zenon
  <2>6. Goto("read", c)
    BY <1>15, <1>18, <2>1
  <2>7. pc' = "read" /\ call'.bytes = whole /\ call'.size = z /\ call'.from = s
    BY <1>2, <1>3, <2>1, <2>6 DEF Goto, Fields
  <2>8. reader' = r
    BY <1>18, <2>3
  <2>9. DOMAIN reader' = {"file", "block", "offset"} /\ ReaderOn'
    <3>1. r.file = f /\ pc' \notin Held
      BY <1>2, <2>4, <2>7 DEF Held
    <3>2. QED
      BY <1>13, <2>4, <2>5, <2>8, <3>1, Zenon
  <2>10. ReadOn'
    <3>1. reader'.file # 0 /\ call'.from.file = reader'.file /\ call'.size \in Nat
      BY <1>2, <1>4, <2>2, <2>4, <2>7, <2>8
    <3>2. ReadGoesOn(disk', call'.from, reader', call'.bytes)
      BY <1>3, <2>5, <2>7, <2>8, Zenon
    <3>3. QED
      BY <3>1, <3>2, Zenon DEF ReadOn
  <2>11. QED
    BY <2>7, <2>9, <2>10 DEF ReaderRight, ReadIsRight
<1>19. QED
  BY <1>9, <1>10, <1>16, <1>17, <1>18 DEF ReadStep

LEMMA OpenReads ==
  ASSUME BlockInvariant, OthersKept, StoreFacts, ReaderRight, OpenRead
  PROVE  ReaderRight'
<1>1. PICK L, own : BlockInvariantOf(L, own)
  BY DEF BlockInvariant
<1>2. PICK f, n : f = call.file /\ n = Name(disk[f])
  OBVIOUS
<1>3. /\ pc = "found" /\ disk' = disk /\ writer' = writer /\ ~ Resting /\ f # 0 /\ writer[f] = 0
      /\ call.op = "open_read" /\ Done(OK, call)
      /\ reader' = [file |-> f, block |-> f, offset |-> HeaderSize(n)]
  BY <1>2 DEF OpenRead, ReadBlock, CanRead, Resting
<1>4. /\ DOMAIN call = Fields /\ Whole(disk, L, own) /\ Files(disk) = call.before
      /\ L = DOMAIN call.before /\ f \in L /\ L \in SUBSET FileIds
  BY <1>1, <1>2, <1>3 DEF Resting, BlockInvariantOf, AtFound, StoreFacts, Looks
<1>5. OnDisk(disk, L, own, f)
  BY <1>1, <1>4, OnDiskIs
<1>6. pc' = "done" /\ call'.op = "open_read"
  BY <1>3, <1>4 DEF Done, Fields
<1>7. PICK r : r = [file |-> f, block |-> f, offset |-> HeaderSize(n)]
  OBVIOUS
<1>8. reader' = r /\ r.file = f /\ r.block = f /\ r.offset = HeaderSize(n)
      /\ DOMAIN r = {"file", "block", "offset"}
  BY <1>3, <1>7
<1>9. InFile(disk, r)
  <2>1. PICK s : s = Link(disk)
    OBVIOUS
  <2>2. PICK g, m : IsPath(disk, f, g, m)
    <3>1. s = Link(disk) /\ Layout(own, s, L, FreeHead(disk)) /\ L \in SUBSET FileIds /\ f \in L
      BY <1>4, <2>1 DEF Whole
    <3>2. QED
      BY <3>1, FileHasPath, Zenon
  <2>3. m \in Nat /\ HasData(disk, n, g, m) /\ n \in Names
    BY <1>2, <1>5, <2>2, PathOnDisk DEF OnDisk
  <2>4. g[0] = f
    BY <2>2 DEF IsPath
  <2>5. DataStart(n, 0) = HeaderSize(n)
    BY DEF DataStart
  <2>6. DataStart(n, 0) \in 1 .. BlockSize /\ BlockSize \in Nat
    BY <2>3, Chunks, BlockSets
  <2>7. DataStart(n, 0) <= UpTo(disk, g, m, 0) /\ UpTo(disk, g, m, 0) \in Nat
    <3>1. CASE m = 0
      <4>1. disk[g[m]][0] \in DataStart(n, m) .. BlockSize
        BY <2>3 DEF HasData
      <4>2. QED
        BY <2>6, <3>1, <4>1 DEF UpTo
    <3>2. CASE m # 0
      BY <2>6, <3>2 DEF UpTo
    <3>3. QED
      BY <3>1, <3>2
  <2>8. Within(disk, n, g, m, 0, HeaderSize(n))
    BY <2>3, <2>5, <2>6, <2>7 DEF Within
  <2>9. StreamAt(disk, g, m, 0, r)
    BY <1>2, <1>8, <2>4, <2>8 DEF StreamAt
  <2>10. IsPath(disk, r.file, g, m)
    BY <1>8, <2>2
  <2>11. QED
    BY <2>9, <2>10, Zenon DEF InFile
<1>10. f \in DOMAIN Store'
  BY <1>3, <1>4, <1>6 DEF Store, Resting
<1>11. pc' \notin Held
  BY <1>6 DEF Held
<1>12. ReaderOn'
  BY <1>3, <1>8, <1>9, <1>10, <1>11, Zenon DEF ReaderOn
<1>13. ReadIsRight' /\ ReadOn'
  BY <1>6 DEF ReadIsRight, ReadOn
<1>14. QED
  BY <1>8, <1>12, <1>13 DEF ReaderRight

\* The steps of the other calls.
LEMMA OthersRead ==
  ASSUME BlockInvariant, OthersKept, StoreFacts, CallFacts, ReaderRight, Step, ~ OpenRead, ~ ReadStep
  PROVE  ReaderRight'
<1>1. PICK L, own : BlockInvariantOf(L, own)
  BY DEF BlockInvariant
<1>2. reader' = reader
  BY DEF Step, FindStep, FindFails, SizeStart, SizeStep,
     CreateStart, CreateScan, CreateLink, CreateFill, CreatePublish, WriteStep, WriteCommit,
     FreeStep, ClearStart, ClearFreed, ClearSize, DeleteStart, DeleteUnlink, DeletePublish,
     Return, Streams
<1>3. DOMAIN reader' = {"file", "block", "offset"}
  BY <1>2 DEF ReaderRight
<1>4. ReaderOn'
  BY <1>2, ReaderStays DEF ReaderRight
<1>5. pc' # "read"
  BY DEF Step, FindStep, FindFails, SizeStart, SizeStep,
     CreateStart, CreateScan, CreateLink, CreateFill, CreatePublish, WriteStep, WriteCommit,
     FreeStep, ClearStart, ClearFreed, ClearSize, DeleteStart, DeleteUnlink, DeletePublish,
     Return, Goto, Done, FreeStart
<1>6. pc' = "done" => call'.op # "read"
  <2> HAVE pc' = "done"
  <2>1. /\ pc \in {"found", "size", "scan", "publish", "commit", "clear", "deleted"}
        /\ \E x, y : call' = [call EXCEPT !.status = x] \/ call' = [call EXCEPT !.size = y, !.status = x]
    <3>1. CASE FindFails \/ CreateStart \/ CreateScan \/ CreatePublish \/ WriteCommit
               \/ ClearSize \/ DeletePublish
      BY <3>1 DEF FindFails, CreateStart, CreateScan, CreatePublish, WriteCommit, ClearSize,
         DeletePublish, Goto, Done
    <3>2. CASE SizeStep
      <4>1. PICK c, z : /\ c = [call EXCEPT !.size = z] /\ Done(OK, c)
                        /\ z = call.size + block_size(buffer) - call.used
        BY <3>2 DEF SizeStep, Goto
      <4>2. call' = [call EXCEPT !.size = z, !.status = OK]
        BY <4>1 DEF Done
      <4>3. pc = "size"
        BY <3>2 DEF SizeStep
      <4>4. QED
        BY <4>2, <4>3
    <3>3. QED
      BY <3>1, <3>2 DEF Step, FindStep, SizeStart, CreateLink, CreateFill, WriteStep,
         FreeStep, ClearStart, ClearFreed, DeleteStart, DeleteUnlink, Return, Goto, FreeStart
  <2>2. call'.op = call.op
    BY <1>1, <2>1 DEF BlockInvariantOf, Fields
  <2>3. call.op # "read"
    BY <1>1, <2>1 DEF BlockInvariantOf, AtFound, CallFacts, SizeRight, CreateRight
  <2>4. QED
    BY <2>2, <2>3
<1>7. ReadIsRight' /\ ReadOn'
  BY <1>5, <1>6 DEF ReadIsRight, ReadOn
<1>8. QED
  BY <1>3, <1>4, <1>7 DEF ReaderRight

LEMMA ReadBegins ==
  ASSUME BlockInvariant, ReaderRight, NEW size \in Nat \ {0}, Read(size), ReaderOn'
  PROVE  ReaderRight'
<1>1. PICK L, own : BlockInvariantOf(L, own)
  BY DEF BlockInvariant
<1>2. PICK c : c = [NoCall EXCEPT !.op = "read", !.size = size]
  OBVIOUS
<1>3. DOMAIN c = Fields /\ c.size = size /\ c.bytes = << >>
  BY <1>2, CallFields DEF NoCall
<1>4. /\ Begin(c) /\ pc' = "read" /\ disk' = disk /\ reader' = reader /\ reader.file # 0
  BY <1>2 DEF Read, Streams
<1>5. Whole(disk, L, own) /\ pc = "idle" /\ L \in SUBSET FileIds
  BY <1>1, <1>4 DEF BlockInvariantOf, Begin
<1>6. call'.size = size /\ call'.bytes = << >> /\ call'.from = reader
  <2>1. call' = [c EXCEPT !.before = Files(disk), !.from = reader]
    BY <1>4 DEF Begin
  <2>2. QED
    BY <1>3, <2>1 DEF Fields
<1>7. PICK f : f = reader.file
  OBVIOUS
<1>8. f \in L /\ InFile(disk, reader)
  <2>1. f \in DOMAIN Store /\ InFile(disk, reader)
    BY <1>4, <1>7 DEF ReaderRight, ReaderOn
  <2>2. DOMAIN Files(disk) = L
    BY <1>5, FilesAre DEF Whole
  <2>3. QED
    BY <1>5, <2>1, <2>2 DEF Store, Resting
<1>9. OnDisk(disk, L, own, reader.file)
  BY <1>1, <1>5, <1>7, <1>8, OnDiskIs
<1>10. ReadGoesOn(disk, reader, reader, << >>)
  BY <1>8, <1>9, ReadStarts, Zenon
<1>11. size \in Nat
  BY BlockFSAssumption DEF BlockFSAssumption
<1>12. ReadOn'
  <2>1. ReadGoesOn(disk', call'.from, reader', call'.bytes)
    BY <1>4, <1>6, <1>10, Zenon
  <2>2. reader'.file # 0 /\ call'.from.file = reader'.file /\ call'.size \in Nat
    BY <1>4, <1>6, <1>11
  <2>3. QED
    BY <2>1, <2>2, Zenon DEF ReadOn
<1>13. DOMAIN reader' = {"file", "block", "offset"} /\ ReadIsRight'
  BY <1>4 DEF ReaderRight, ReadIsRight
<1>14. QED
  BY <1>12, <1>13, Zenon DEF ReaderRight

LEMMA ClientReads ==
  ASSUME BlockInvariant, OthersKept, StoreFacts, ReaderRight, AnyClient
  PROVE  ReaderRight'
<1>1. PICK L, own : BlockInvariantOf(L, own)
  BY DEF BlockInvariant
<1>2. CASE CloseReader
  <2>1. reader' = NoReader /\ pc' = "idle"
    BY <1>2 DEF CloseReader
  <2>2. DOMAIN NoReader = {"file", "block", "offset"} /\ NoReader.file = 0
    BY DEF NoReader
  <2>3. QED
    BY <2>1, <2>2 DEF ReaderRight, ReaderOn, ReadOn, ReadIsRight
<1>3. CASE ~ CloseReader
  <2>1. reader' = reader /\ disk' = disk /\ pc = "idle"
    BY <1>3, Zenon DEF AnyClient, Find, Create, Read, Write, CloseWriter, Begin, ReadBlock, Streams
  <2>2. PICK f : f = reader.file
    OBVIOUS
  <2>3. ASSUME f # 0
        PROVE  /\ f \in DOMAIN Store' /\ writer'[f] = 0 /\ InFile(disk', reader)
               /\ pc' \in Held => call'.file # f
    <3>1. f \in DOMAIN Store /\ writer[f] = 0 /\ InFile(disk, reader) /\ pc \notin Held
      BY <2>1, <2>2, <2>3 DEF ReaderRight, ReaderOn, Held
    <3>2. [AnyNext]_vars
      BY DEF AnyNext
    <3>3. f \in DOMAIN Store'
      BY <3>1, <3>2, FileStays
    <3>4. writer \in [FileIds -> Blocks]
      BY <1>1 DEF BlockInvariantOf, Writers
    <3>5. writer'[f] = 0
      <4>1. writer' = writer \/ \E h \in FileIds : writer' = [writer EXCEPT ![h] = 0]
        BY <1>3, Zenon DEF AnyClient, Find, Create, Read, Write, CloseWriter, Streams
      <4>2. CASE writer' = writer
        BY <3>1, <4>2
      <4>3. ASSUME NEW h \in FileIds, writer' = [writer EXCEPT ![h] = 0]
            PROVE  writer'[f] = 0
        BY <3>1, <3>4, <4>3
      <4>4. QED
        BY <4>1, <4>2, <4>3
    <3>6. ASSUME pc' \in Held
          PROVE  call'.file # f
      <4>1. PICK h, src : Write(h, src)
        BY <1>3, <3>1, <3>6, Zenon DEF AnyClient, Find, Create, Read, CloseWriter, Held
      <4>2. PICK c : c = [NoCall EXCEPT !.op = "write", !.file = h, !.bytes = src, !.written = src,
                            !.oldFree = block_get_next(disk[SUPER_BLOCK]),
                            !.newFree = block_get_next(disk[SUPER_BLOCK]),
                            !.used = block_size(disk[writer[h]])]
        OBVIOUS
      <4>3. DOMAIN c = Fields /\ c.file = h
        BY <4>2, CallFields DEF NoCall
      <4>4. Begin(c) /\ writer[h] # 0
        BY <4>1, <4>2 DEF Write
      <4>5. call'.file = h
        BY <1>1, <4>3, <4>4, BeginCall DEF Fields
      <4>6. QED
        BY <3>1, <4>4, <4>5
    <3>7. QED
      BY <2>1, <3>1, <3>3, <3>5, <3>6
  <2>4. ReaderOn'
    BY <2>1, <2>2, <2>3, Zenon DEF ReaderOn
  <2>5. CASE \E size \in Nat \ {0} : Read(size)
    BY <2>4, <2>5, ReadBegins
  <2>6. CASE ~ \E size \in Nat \ {0} : Read(size)
    <3>1. pc' # "read" /\ pc' # "done"
      BY <1>3, <2>6, Zenon DEF AnyClient, Find, Create, Write, CloseWriter
    <3>2. ReadOn' /\ ReadIsRight'
      BY <3>1 DEF ReadOn, ReadIsRight
    <3>3. QED
      BY <2>1, <2>4, <3>2 DEF ReaderRight
  <2>7. QED
    BY <2>5, <2>6
<1>4. QED
  BY <1>2, <1>3

(***************************************************************************)
(* All that is known of the file system is inductive.                      *)
(***************************************************************************)
SystemRight == BlockInvariant /\ OthersKept /\ StoreFacts /\ CallFacts /\ ReaderRight

LEMMA SystemInit == Init => SystemRight
<1>1. Init => ReaderRight
  <2>1. DOMAIN NoReader = {"file", "block", "offset"} /\ NoReader.file = 0
    BY DEF NoReader
  <2>2. QED
    BY <2>1 DEF Init, ReaderRight, ReaderOn, ReadOn, ReadIsRight
<1>2. Init => CallFacts /\ OthersKept
  BY DEF Init, CallFacts, Resting, ResultIsRight, OthersKept
<1>3. QED
  BY InitInvariant, StoreInit, <1>1, <1>2 DEF SystemRight

LEMMA SystemKeeps == SystemRight /\ [AnyNext]_vars => SystemRight'
<1>1. BlockInvariant /\ OthersKept /\ StoreFacts /\ CallFacts /\ ReaderRight /\ [AnyNext]_vars => ReaderRight'
  <2> SUFFICES ASSUME BlockInvariant, OthersKept, StoreFacts, CallFacts, ReaderRight, [AnyNext]_vars
               PROVE  ReaderRight'
    OBVIOUS
  <2>1. CASE OpenRead
    BY <2>1, OpenReads
  <2>2. CASE ReadStep
    BY <2>2, ReadStepReads
  <2>3. CASE Step /\ ~ OpenRead /\ ~ ReadStep
    BY <2>3, OthersRead
  <2>4. CASE AnyClient
    BY <2>4, ClientReads
  <2>5. CASE UNCHANGED vars
    <3>1. disk' = disk /\ pc' = pc /\ call' = call /\ writer' = writer /\ reader' = reader
      BY <2>5 DEF vars
    <3>2. Store' = Store
      BY <3>1 DEF Store, Resting
    <3>3. ReaderOn'
      BY <3>1, <3>2, Zenon DEF ReaderOn, ReaderRight
    <3>4. ReadOn'
      BY <3>1, Zenon DEF ReadOn, ReaderRight
    <3>5. ReadIsRight'
      <4>1. Position(call.from)' = Position(call.from) /\ Position(reader)' = Position(reader)
        BY <3>1, Zenon DEF Position
      <4>2. QED
        BY <3>1, <3>2, <4>1, Zenon DEF ReadIsRight, ReaderRight
    <3>6. QED
      BY <3>1, <3>3, <3>4, <3>5 DEF ReaderRight
  <2>6. QED
    BY <2>1, <2>2, <2>3, <2>4, <2>5 DEF AnyNext
<1>2. QED
  BY <1>1, StoreKeeps, AnswersNext DEF SystemRight

(***************************************************************************)
(* A read gives the bytes of the file that start where the stream was, as  *)
(* many as asked or all those left, and leaves the stream after them, or   *)
(* where it was in the last block if the end of the file was met.          *)
(***************************************************************************)
THEOREM ReadsAreRight == Spec => []ReadIsRight
<1>1. SystemRight => ReadIsRight
  BY DEF SystemRight, ReaderRight
<1>2. QED
  BY SystemInit, SystemKeeps, NextIsAny, <1>1, PTL DEF Spec

-----------------------------------------------------------------------------
(***************************************************************************)
(* Sequences of anything.                                                  *)
(***************************************************************************)
IsSeq(s) == \E S : s \in Seq(S)

LEMMA SeqIs ==
  ASSUME NEW s, IsSeq(s)
  PROVE  Len(s) \in Nat /\ DOMAIN s = 1 .. Len(s) /\ s = [i \in 1 .. Len(s) |-> s[i]]
<1>1. PICK S : s \in Seq(S)
  BY DEF IsSeq
<1>2. QED
  BY <1>1

LEMMA FunctionIsSeq ==
  ASSUME NEW n \in Nat, NEW s, DOMAIN s = 1 .. n, s = [i \in DOMAIN s |-> s[i]]
  PROVE  IsSeq(s) /\ Len(s) = n
<1>1. PICK S : S = {s[i] : i \in 1 .. n}
  OBVIOUS
<1>2. s \in [1 .. n -> S]
  BY <1>1
<1>3. s \in Seq(S) /\ Len(s) = n
  BY <1>2
<1>4. QED
  BY <1>3 DEF IsSeq

\* u is s followed by t.
Joins(u, s, t) ==
  /\ IsSeq(u) /\ Len(u) = Len(s) + Len(t)
  /\ \A i \in 1 .. Len(s) : u[i] = s[i]
  /\ \A i \in 1 .. Len(t) : u[Len(s) + i] = t[i]

LEMMA Concatenated ==
  ASSUME NEW s, NEW t, IsSeq(s), IsSeq(t)
  PROVE  Joins(s \o t, s, t)
<1>1. PICK S : s \in Seq(S)
  BY DEF IsSeq
<1>2. PICK T : t \in Seq(T)
  BY DEF IsSeq
<1>3. s \in Seq(S \cup T) /\ t \in Seq(S \cup T)
  BY <1>1, <1>2
<1>4. PICK u : u = s \o t
  OBVIOUS
<1>5. u \in Seq(S \cup T) /\ Len(u) = Len(s) + Len(t)
  BY <1>3, <1>4
<1>6. \A i \in 1 .. Len(s) : u[i] = s[i]
  BY <1>3, <1>4
<1>7. \A i \in 1 .. Len(t) : u[Len(s) + i] = t[i]
  BY <1>3, <1>4
<1>8. QED
  BY <1>4, <1>5, <1>6, <1>7 DEF Joins, IsSeq

LEMMA OneIsSeq ==
  ASSUME NEW x
  PROVE  IsSeq(<<x>>) /\ Len(<<x>>) = 1 /\ <<x>>[1] = x
<1>1. <<x>> \in Seq({x})
  OBVIOUS
<1>2. QED
  BY <1>1 DEF IsSeq

LEMMA AppendIs ==
  ASSUME NEW s, IsSeq(s), NEW x
  PROVE  Append(s, x) = s \o <<x>>
<1>1. PICK S : s \in Seq(S)
  BY DEF IsSeq
<1>2. s \in Seq(S \cup {x}) /\ x \in S \cup {x}
  BY <1>1
<1>3. QED
  BY <1>2

LEMMA EmptyIsSeq == IsSeq(<<>>) /\ Len(<<>>) = 0
<1>1. <<>> \in Seq({})
  OBVIOUS
<1>2. QED
  BY <1>1 DEF IsSeq

\* The beginning of a sequence.
LEMMA PrefixIs ==
  ASSUME NEW s, IsSeq(s), NEW i \in 0 .. Len(s)
  PROVE  /\ IsSeq(SubSeq(s, 1, i)) /\ Len(SubSeq(s, 1, i)) = i
         /\ \A j \in 1 .. i : SubSeq(s, 1, i)[j] = s[j]
         /\ i = Len(s) => SubSeq(s, 1, i) = s
         /\ i < Len(s) => SubSeq(s, 1, i) \o <<s[i + 1]>> = SubSeq(s, 1, i + 1)
         /\ i = 0 => SubSeq(s, 1, i) = <<>>
<1>1. PICK S : s \in Seq(S)
  BY DEF IsSeq
<1>2. PICK u : u = SubSeq(s, 1, i)
  OBVIOUS
<1>3. u \in Seq(S) /\ Len(u) = i /\ \A j \in 1 .. i : u[j] = s[j]
  BY <1>1, <1>2
<1>4. i = Len(s) => u = s
  BY <1>1, <1>3
<1>5. i = 0 => u = <<>>
  BY <1>3
<1>6. ASSUME i < Len(s)
      PROVE  u \o <<s[i + 1]>> = SubSeq(s, 1, i + 1)
  <2>1. PICK v : v = SubSeq(s, 1, i + 1)
    OBVIOUS
  <2>2. v \in Seq(S) /\ Len(v) = i + 1 /\ \A j \in 1 .. i + 1 : v[j] = s[j]
    BY <1>1, <1>6, <2>1
  <2>3. s[i + 1] \in S
    BY <1>1, <1>6
  <2>4. PICK w : w = u \o <<s[i + 1]>>
    OBVIOUS
  <2>5. w \in Seq(S) /\ Len(w) = i + 1 /\ w[i + 1] = s[i + 1] /\ \A j \in 1 .. i : w[j] = u[j]
    BY <1>3, <2>3, <2>4
  <2>6. \A j \in 1 .. i + 1 : w[j] = v[j]
    BY <1>3, <2>2, <2>5
  <2>7. w = v
    BY <2>2, <2>5, <2>6
  <2>8. QED
    BY <2>1, <2>4, <2>7
<1>7. QED
  BY <1>2, <1>3, <1>4, <1>5, <1>6 DEF IsSeq

LEMMA JoinEmpty ==
  ASSUME NEW s, IsSeq(s)
  PROVE  s \o <<>> = s
<1>1. PICK S : s \in Seq(S)
  BY DEF IsSeq
<1>2. QED
  BY <1>1

LEMMA JoinAssoc ==
  ASSUME NEW s, IsSeq(s), NEW t, IsSeq(t), NEW u, IsSeq(u)
  PROVE  (s \o t) \o u = s \o (t \o u)
<1>1. PICK S : s \in Seq(S)
  BY DEF IsSeq
<1>2. PICK T : t \in Seq(T)
  BY DEF IsSeq
<1>3. PICK U : u \in Seq(U)
  BY DEF IsSeq
<1>4. PICK V : V = S \cup T \cup U
  OBVIOUS
<1>5. s \in Seq(V) /\ t \in Seq(V) /\ u \in Seq(V)
  BY <1>1, <1>2, <1>3, <1>4
<1>6. QED
  BY <1>5, ConcatAssociative

-----------------------------------------------------------------------------
(***************************************************************************)
(* The host programs that follow maketoysfs: what they wrote.              *)
(***************************************************************************)
EfiOutput(size) ==
  <<(<<"efi", EFI_HEADER>>)>>
    \o [s \in 1 .. CODE_SECTORS |->
          <<"code", SubSeq(Code(size), (s - 1) * SECTOR_SIZE + 1, s * SECTOR_SIZE)>>]

FatHead ==
  PartitionHeader(host.efi, host.toysfs) \o host.efi.sectors
    \o Zeros(SECTORS_PER_CLUSTER - Len(host.efi.sectors))

ImageHead ==
  << <<"mbr", [starting_lba |-> 1, size_in_lba |-> ImageSectors - 1]>>,
     <<"header", Checked(NewHeader)>> >> \o PartitionEntries

ImageTail == PartitionEntries \o <<(<<"header", AlternateHeader>>)>>

\* A program ends with success, unless closing fails.
Ended == tool.step = "close" \/ (tool.step = "exit" /\ tool.status = 0)

IsFile(f) ==
  /\ DOMAIN f = {"size", "sectors"} /\ IsSeq(f.sectors)
  /\ f.size \in Nat /\ Len(f.sectors) = Sectors(f.size)

EfiRight ==
  /\ tool.size \in CodeSizes
  /\ tool.step = "write" \/ Ended => tool.size <= CODE_SECTORS * SECTOR_SIZE
  /\ Ended => output = EfiOutput(tool.size)

\* The boot loader that makefatfs is given, when it is the one of makebootefi.
IsBootEfi(f) ==
  \E size \in CodeSizes : size <= CODE_SECTORS * SECTOR_SIZE /\ f = File(EfiOutput(size))

FatSizes ==
  /\ host.efi.size <= NUM_BOOT_LOADER_CLUSTERS * CLUSTER_SIZE /\ host.efi.size # 0
  /\ host.toysfs.size % SECTOR_SIZE = 0

\* The sectors of a file are copied after head.
Copying(head, sectors) ==
  \/ output = <<>> /\ tool.i = 0
  \/ /\ output # <<>> /\ tool.i \in 0 .. Len(sectors)
     /\ output = head \o SubSeq(sectors, 1, tool.i)

FatRight ==
  /\ tool.step = "read" => output = <<>> /\ tool.i = 0
  /\ tool.step = "write" => FatSizes /\ Copying(FatHead, host.toysfs.sectors)
  /\ Ended => FatSizes /\ output = FatHead \o host.toysfs.sectors

ImageRight ==
  /\ FatSizes /\ host.fatfs = File(FatHead \o host.toysfs.sectors)
  /\ tool.step = "read" => output = <<>> /\ tool.i = 0
  /\ tool.step = "write" => Copying(ImageHead, host.fatfs.sectors)
  /\ Ended => output = (ImageHead \o host.fatfs.sectors) \o ImageTail

ToolFields ==
  {"name", "step", "status", "failed", "torn", "i", "at", "eof", "file", "size", "remaining",
   "tar", "content", "lines", "last"}

HostRight ==
  /\ DOMAIN tool = ToolFields /\ DOMAIN host = {"toysfs", "efi", "fatfs"}
  /\ IsSeq(output)
  /\ tool.name \in {"none", "maketoysfs", "dumptoysfs", "makebootefi", "makefatfs", "maketoysimg"}
  /\ tool.name \in {"makebootefi", "makefatfs", "maketoysimg"} => IsFile(host.toysfs)
  /\ tool.name \in {"makefatfs", "maketoysimg"} => IsFile(host.efi) /\ (Made => IsBootEfi(host.efi))
  /\ tool.name = "makebootefi" => EfiRight
  /\ tool.name = "makefatfs" => FatRight
  /\ tool.name = "maketoysimg" => ImageRight

LEMMA NoToolFields == DOMAIN NoTool = ToolFields
BY DEF NoTool, ToolFields

LEMMA SectorSizes ==
  /\ SECTOR_SIZE \in Nat \ {0} /\ CODE_SECTORS * SECTOR_SIZE \in Nat
  /\ CLUSTER_SIZE = 4 * SECTOR_SIZE /\ CLUSTER_SIZE \in Nat \ {0}
  /\ NUM_BOOT_LOADER_CLUSTERS * CLUSTER_SIZE = CLUSTER_SIZE
BY BlockFSAssumption DEF BlockFSAssumption, SECTOR_SIZE, CODE_SECTORS, CLUSTER_SIZE,
   SECTORS_PER_CLUSTER, NUM_BOOT_LOADER_CLUSTERS

LEMMA SectorsOf ==
  ASSUME NEW n \in Nat
  PROVE  Sectors(n * SECTOR_SIZE) = n
<1>1. PICK s \in Nat \ {0} : s = SECTOR_SIZE
  BY SectorSizes
<1>2. PICK x : x = s - 1
  OBVIOUS
<1>3. x \in 0 .. s - 1 /\ n * s + s - 1 = x + n * s
  BY <1>1, <1>2
<1>4. (x + n * s) \div s = n
  BY <1>3, DivModUnique
<1>5. QED
  BY <1>1, <1>3, <1>4 DEF Sectors

LEMMA SectorsNat ==
  ASSUME NEW n \in Nat
  PROVE  Sectors(n) \in Nat /\ Clusters(n) \in Nat
<1>1. PICK s \in Nat \ {0} : s = SECTOR_SIZE
  BY SectorSizes
<1>2. PICK c \in Nat \ {0} : c = CLUSTER_SIZE
  BY SectorSizes
<1>3. n + s - 1 \in Nat /\ n + c - 1 \in Nat
  OBVIOUS
<1>4. QED
  BY <1>1, <1>2, <1>3, DivMod DEF Sectors, Clusters

LEMMA FileIs ==
  ASSUME NEW s, IsSeq(s)
  PROVE  /\ IsFile(File(s)) /\ File(s).sectors = s /\ File(s).size = Len(s) * SECTOR_SIZE
<1>1. PICK f : f = File(s)
  OBVIOUS
<1>2. DOMAIN f = {"size", "sectors"} /\ f.sectors = s /\ f.size = Len(s) * SECTOR_SIZE
  BY <1>1 DEF File
<1>3. Len(s) \in Nat
  BY SeqIs
<1>4. Len(s) * SECTOR_SIZE \in Nat
  BY <1>3, SectorSizes
<1>5. Sectors(Len(s) * SECTOR_SIZE) = Len(s)
  BY <1>3, SectorsOf
<1>6. QED
  BY <1>1, <1>2, <1>4, <1>5 DEF IsFile

LEMMA OtherIs ==
  ASSUME NEW kind, NEW n \in Nat
  PROVE  IsFile(Other(kind, n))
<1>1. PICK f : f = Other(kind, n)
  OBVIOUS
<1>2. DOMAIN f = {"size", "sectors"} /\ f.size = n
      /\ f.sectors = [i \in 1 .. Sectors(n) |-> <<kind, i>>]
  BY <1>1 DEF Other
<1>3. IsSeq(f.sectors) /\ Len(f.sectors) = Sectors(n)
  BY <1>2, SectorsNat, FunctionIsSeq
<1>4. QED
  BY <1>1, <1>2, <1>3 DEF IsFile

LEMMA ZerosIs ==
  ASSUME NEW n \in Nat
  PROVE  IsSeq(Zeros(n)) /\ Len(Zeros(n)) = n
<1>1. PICK z : z = Zeros(n)
  OBVIOUS
<1>2. DOMAIN z = 1 .. n /\ z = [i \in DOMAIN z |-> z[i]]
  BY <1>1 DEF Zeros
<1>3. QED
  BY <1>1, <1>2, FunctionIsSeq

\* Sectors 1 to 4 of the boot loader.
LEMMA EfiSectors ==
  ASSUME NEW size
  PROVE  /\ IsSeq(EfiOutput(size)) /\ Len(EfiOutput(size)) = 4
         /\ EfiOutput(size)[1] = <<"efi", EFI_HEADER>>
         /\ \A s \in 1 .. CODE_SECTORS :
              EfiOutput(size)[1 + s]
                = <<"code", SubSeq(Code(size), (s - 1) * SECTOR_SIZE + 1, s * SECTOR_SIZE)>>
<1> DEFINE h == <<"efi", EFI_HEADER>>
           c == [s \in 1 .. CODE_SECTORS |->
                   <<"code", SubSeq(Code(size), (s - 1) * SECTOR_SIZE + 1, s * SECTOR_SIZE)>>]
<1>1. IsSeq(<<h>>) /\ Len(<<h>>) = 1 /\ <<h>>[1] = h
  BY OneIsSeq
<1>2. DOMAIN c = 1 .. 3 /\ c = [i \in DOMAIN c |-> c[i]]
  BY DEF CODE_SECTORS
<1>3. \A s \in 1 .. CODE_SECTORS :
        c[s] = <<"code", SubSeq(Code(size), (s - 1) * SECTOR_SIZE + 1, s * SECTOR_SIZE)>>
  OBVIOUS
<1>4. EfiOutput(size) = <<h>> \o c
  BY DEF EfiOutput
<1> HIDE DEF h, c
<1>5. IsSeq(c) /\ Len(c) = 3
  BY <1>2, FunctionIsSeq
<1>6. Joins(<<h>> \o c, <<h>>, c)
  BY <1>1, <1>5, Concatenated
<1>7. PICK u : u = <<h>> \o c
  OBVIOUS
<1>8. /\ IsSeq(u) /\ Len(u) = 4 /\ u[1] = h
      /\ \A i \in 1 .. 3 : u[1 + i] = c[i]
  BY <1>1, <1>5, <1>6, <1>7 DEF Joins
<1>9. QED
  BY <1>3, <1>4, <1>7, <1>8 DEF h, CODE_SECTORS

\* A program goes to another step with other values of its variables, or exits.
LEMMA GoesTo ==
  ASSUME NEW phase, NEW t, DOMAIN t = ToolFields, GotoStep(phase, t)
  PROVE  /\ DOMAIN tool' = ToolFields /\ tool'.step = phase
         /\ \A x \in ToolFields \ {"step"} : tool'[x] = t[x]
BY DEF GotoStep, ToolFields

LEMMA Exits ==
  ASSUME NEW status, DOMAIN tool = ToolFields, Exit(status)
  PROVE  /\ DOMAIN tool' = ToolFields /\ tool'.step = "exit" /\ tool'.status = status
         /\ \A x \in ToolFields \ {"step", "status"} : tool'[x] = tool[x]
BY DEF Exit, ToolFields

LEMMA HostSame ==
  ASSUME UNCHANGED host
  PROVE  FatHead' = FatHead /\ ImageHead' = ImageHead /\ ImageTail' = ImageTail /\ (FatSizes' <=> FatSizes)
<1>1. FatHead' = FatHead
  BY Zenon DEF FatHead, PartitionHeader
<1>2. FirstUsable' = FirstUsable /\ LastUsable' = LastUsable /\ ImageSectors' = ImageSectors
  BY Zenon DEF FirstUsable, LastUsable, ImageSectors
<1>3. PartitionEntries' = PartitionEntries /\ PartitionEntry' = PartitionEntry
  BY <1>2, Zenon DEF PartitionEntries, PartitionEntry
<1>4. NewHeader' = NewHeader
  BY <1>2, Zenon DEF NewHeader
<1>5. \A h : Checked(h)' = Checked(h)
  BY <1>3, Zenon DEF Checked
<1>6. ImageHead' = ImageHead
  BY <1>2, <1>3, <1>4, Zenon DEF ImageHead, Checked
<1>7. AlternateHeader' = AlternateHeader
  BY <1>2, <1>3, <1>4, Zenon DEF AlternateHeader, Checked
<1>8. QED
  BY <1>1, <1>3, <1>6, <1>7, Zenon DEF ImageTail, FatSizes

\* What is left of the facts when the host and the output stay.
LEMMA OutputStays ==
  ASSUME HostRight, UNCHANGED <<host, output, arguments>>, DOMAIN tool' = ToolFields,
         tool'.name = tool.name, tool'.size = tool.size,
         \/ tool' = tool
         \/ ~ Ended' /\ tool'.step \notin {"read", "write"}
         \/ Ended /\ tool'.step = "exit"
  PROVE  HostRight'
<1>1. /\ FatHead' = FatHead /\ ImageHead' = ImageHead /\ ImageTail' = ImageTail
      /\ (FatSizes' <=> FatSizes) /\ host' = host /\ output' = output /\ (Made' <=> Made)
  BY HostSame DEF Made
<1>2. Ended' => Ended
  BY DEF Ended
<1>3. tool.name = "makebootefi" => EfiRight'
  <2>1. tool.name = "makebootefi" => EfiRight
    BY DEF HostRight
  <2>2. tool'.step = "write" => tool.step = "write"
    BY DEF Ended
  <2>3. QED
    BY <1>1, <1>2, <2>1, <2>2 DEF EfiRight
<1>4. tool.name = "makefatfs" => FatRight'
  <2>1. tool.name = "makefatfs" => FatRight
    BY DEF HostRight
  <2>2. tool'.step \in {"read", "write"} => tool' = tool
    BY DEF Ended
  <2>3. QED
    BY <1>1, <1>2, <2>1, <2>2 DEF FatRight, Copying
<1>5. tool.name = "maketoysimg" => ImageRight'
  <2>1. tool.name = "maketoysimg" => ImageRight
    BY DEF HostRight
  <2>2. tool'.step \in {"read", "write"} => tool' = tool
    BY DEF Ended
  <2>3. QED
    BY <1>1, <1>2, <2>1, <2>2 DEF ImageRight, Copying
<1>6. QED
  BY <1>1, <1>3, <1>4, <1>5 DEF HostRight

\* The programs for files leave the others what they have.
LEMMA FileToolsHost ==
  ASSUME HostRight, FileTools, UNCHANGED host
  PROVE  HostRight' /\ tool'.name = tool.name
<1>1. DOMAIN tool = ToolFields /\ IsSeq(output)
  BY DEF HostRight
<1>2. ASSUME DOMAIN tool' = ToolFields, IsSeq(output'), tool'.name = tool.name,
             tool.name \in {"maketoysfs", "dumptoysfs"}
      PROVE  HostRight' /\ tool'.name = tool.name
  BY <1>2 DEF HostRight
<1>3. CASE ToolCalls
  <2>1. UNCHANGED <<arguments, tool, output>>
    BY <1>3 DEF ToolCalls, tools
  <2>2. QED
    BY <1>1, <2>1, OutputStays
<1>4. CASE HostFails
  <2>1. tool' = [tool EXCEPT !.step = "exit", !.status = 1, !.failed = TRUE]
        /\ output' = output /\ arguments' = arguments
    BY <1>4 DEF HostFails
  <2>2. DOMAIN tool' = ToolFields /\ tool'.name = tool.name /\ tool'.step = "exit" /\ tool'.status = 1
        /\ tool'.size = tool.size
    BY <1>1, <2>1 DEF ToolFields
  <2>3. ~ Ended'
    BY <2>2 DEF Ended
  <2>4. QED
    BY <2>1, <2>2, <2>3, OutputStays
<1>5. CASE Close
  <2>1. tool.step = "close" /\ output' = output /\ arguments' = arguments
    BY <1>5 DEF Close
  <2>2. PICK torn : tool' = [tool EXCEPT !.step = "exit", !.torn = torn]
    BY <1>5 DEF Close
  <2>3. DOMAIN tool' = ToolFields /\ tool'.name = tool.name /\ tool'.step = "exit"
        /\ tool'.size = tool.size
    BY <1>1, <2>2 DEF ToolFields
  <2>4. Ended
    BY <2>1 DEF Ended
  <2>5. QED
    BY <2>1, <2>3, <2>4, OutputStays
<1>6. ASSUME NEW phase, NEW t, DOMAIN t = ToolFields, t.name = tool.name, GotoStep(phase, t)
      PROVE  DOMAIN tool' = ToolFields /\ tool'.name = tool.name
  BY <1>6, GoesTo DEF ToolFields
<1>7. ASSUME NEW status, Exit(status)
      PROVE  DOMAIN tool' = ToolFields /\ tool'.name = tool.name
  BY <1>1, <1>7, Exits DEF ToolFields
<1>8. CASE MakeCreate \/ MakeOpened \/ MakeEnd \/ DumpRead
  <2>1. output' = output /\ tool.name \in {"maketoysfs", "dumptoysfs"}
    BY <1>8 DEF MakeCreate, MakeOpened, MakeEnd, DumpRead, At
  <2>2. \/ \E status : Exit(status)
        \/ \E phase, t : DOMAIN t = ToolFields /\ t.name = tool.name /\ GotoStep(phase, t)
    <3>1. PICK t : t = [tool EXCEPT !.at = 0]
      OBVIOUS
    <3>2. DOMAIN t = ToolFields /\ t.name = tool.name
      BY <1>1, <3>1 DEF ToolFields
    <3>3. \/ \E status : Exit(status)
          \/ \E phase : GotoStep(phase, tool) \/ GotoStep(phase, t)
      BY <1>8, <3>1 DEF MakeCreate, MakeOpened, MakeEnd, DumpRead
    <3>4. QED
      BY <1>1, <3>2, <3>3
  <2>3. QED
    BY <1>1, <1>2, <1>6, <1>7, <2>1, <2>2
<1>9. CASE MakeOpen \/ DumpOpened
  <2>1. output' = output /\ tool.name \in {"maketoysfs", "dumptoysfs"}
    BY <1>9 DEF MakeOpen, DumpOpened, At
  <2>2. (\E status : Exit(status)) \/ \E phase, x : GotoStep(phase, [tool EXCEPT !.file = x])
    BY <1>9 DEF MakeOpen, DumpOpened
  <2>3. CASE \E phase, x : GotoStep(phase, [tool EXCEPT !.file = x])
    <3>1. PICK phase, x : GotoStep(phase, [tool EXCEPT !.file = x])
      BY <2>3
    <3>2. PICK t : t = [tool EXCEPT !.file = x]
      OBVIOUS
    <3>3. DOMAIN t = ToolFields /\ t.name = tool.name
      BY <1>1, <3>2 DEF ToolFields
    <3>4. QED
      BY <1>1, <1>2, <1>6, <2>1, <3>1, <3>2, <3>3
  <2>4. QED
    BY <1>1, <1>2, <1>7, <2>1, <2>2, <2>3
<1>10. CASE MakeRead
  <2>1. PICK n : GotoStep("append", [tool EXCEPT !.at = @ + n, !.eof = n < BlockSize])
    BY <1>10 DEF MakeRead
  <2>2. PICK t : t = [tool EXCEPT !.at = @ + n, !.eof = n < BlockSize]
    OBVIOUS
  <2>3. DOMAIN t = ToolFields /\ t.name = tool.name
    BY <1>1, <2>2 DEF ToolFields
  <2>4. output' = output /\ tool.name = "maketoysfs"
    BY <1>10 DEF MakeRead, At
  <2>5. QED
    BY <1>1, <1>2, <1>6, <2>1, <2>2, <2>3, <2>4
<1>11. CASE MakeWritten
  <2>1. PICK t : t = [tool EXCEPT !.i = @ + 1]
    OBVIOUS
  <2>2. DOMAIN t = ToolFields /\ t.name = tool.name
    BY <1>1, <2>1 DEF ToolFields
  <2>3. Exit(1) \/ GotoStep("read", tool) \/ GotoStep("next", t)
    BY <1>11, <2>1 DEF MakeWritten
  <2>4. output' = output /\ tool.name = "maketoysfs"
    BY <1>11 DEF MakeWritten, At
  <2>5. QED
    BY <1>1, <1>2, <1>6, <1>7, <2>2, <2>3, <2>4
<1>12. CASE MakeWrite
  <2>1. PICK s : s = [b \in 1 .. NumBlocks |-> <<"block", disk[b - 1]>>]
    OBVIOUS
  <2>2. DOMAIN s = 1 .. NumBlocks /\ s = [i \in DOMAIN s |-> s[i]]
    BY <2>1
  <2>3. NumBlocks \in Nat
    BY BlockFSAssumption DEF BlockFSAssumption
  <2>4. IsSeq(s)
    BY <2>2, <2>3, FunctionIsSeq
  <2>5. output' = s /\ GotoStep("close", tool) /\ tool.name = "maketoysfs"
    BY <1>12, <2>1 DEF MakeWrite, At
  <2>6. QED
    BY <1>1, <1>2, <1>6, <2>4, <2>5
<1>13. CASE DumpFile
  <2>1. PICK x : GotoStep("size", [tool EXCEPT !.file = x, !.i = tool.file])
    BY <1>13 DEF DumpFile
  <2>2. PICK t : t = [tool EXCEPT !.file = x, !.i = tool.file]
    OBVIOUS
  <2>3. DOMAIN t = ToolFields /\ t.name = tool.name
    BY <1>1, <2>2 DEF ToolFields
  <2>4. output' = output /\ tool.name = "dumptoysfs"
    BY <1>13 DEF DumpFile, At
  <2>5. QED
    BY <1>1, <1>2, <1>6, <2>1, <2>2, <2>3, <2>4
<1>14. CASE DumpSized
  <2>1. PICK t : t = [tool EXCEPT !.size = call.size, !.remaining = call.size,
                                  !.content = <<>>, !.lines = 0, !.last = NEW_LINE]
    OBVIOUS
  <2>2. DOMAIN t = ToolFields /\ t.name = tool.name
    BY <1>1, <2>1 DEF ToolFields
  <2>3. GotoStep("next", tool) \/ GotoStep("write", t)
    BY <1>14, <2>1 DEF DumpSized
  <2>4. output' = output /\ tool.name = "dumptoysfs"
    BY <1>14 DEF DumpSized, At
  <2>5. QED
    BY <1>1, <1>2, <1>6, <2>2, <2>3, <2>4
<1>15. CASE DumpContent
  <2>1. PICK a, b, c, d : GotoStep("write", [tool EXCEPT !.remaining = a, !.content = b,
                                                        !.lines = c, !.last = d])
    BY <1>15 DEF DumpContent
  <2>2. PICK t : t = [tool EXCEPT !.remaining = a, !.content = b, !.lines = c, !.last = d]
    OBVIOUS
  <2>3. DOMAIN t = ToolFields /\ t.name = tool.name
    BY <1>1, <2>2 DEF ToolFields
  <2>4. output' = output /\ tool.name = "dumptoysfs"
    BY <1>15 DEF DumpContent, At
  <2>5. QED
    BY <1>1, <1>2, <1>6, <2>1, <2>2, <2>3, <2>4
<1>16. CASE DumpEntry
  <2>1. PICK e : output' = Append(output, e)
    BY <1>16 DEF DumpEntry
  <2>2. IsSeq(<<e>>)
    BY OneIsSeq
  <2>3. Append(output, e) = output \o <<e>> /\ Joins(output \o <<e>>, output, <<e>>)
    BY <1>1, <2>2, AppendIs, Concatenated
  <2>4. IsSeq(output')
    BY <2>1, <2>3 DEF Joins
  <2>5. GotoStep("next", tool) /\ tool.name = "dumptoysfs"
    BY <1>16 DEF DumpEntry, At
  <2>6. QED
    BY <1>1, <1>2, <1>6, <2>4, <2>5
<1>17. CASE DumpEnd
  <2>1. output' = output /\ tool.name = "dumptoysfs" /\ GotoStep("close", tool)
    BY <1>17 DEF DumpEnd, At
  <2>2. QED
    BY <1>1, <1>2, <1>6, <2>1
<1>18. QED
  BY <1>3, <1>4, <1>5, <1>8, <1>9, <1>10, <1>11, <1>12, <1>13, <1>14, <1>15, <1>16, <1>17
     DEF FileTools

-----------------------------------------------------------------------------
(***************************************************************************)
(* What the programs write before and after the sectors that they copy.    *)
(***************************************************************************)
LEMMA PairIsSeq ==
  ASSUME NEW x, NEW y
  PROVE  IsSeq(<<x, y>>) /\ Len(<<x, y>>) = 2 /\ <<x, y>>[1] = x /\ <<x, y>>[2] = y
<1>1. <<x, y>> \in Seq({x, y})
  OBVIOUS
<1>2. QED
  BY <1>1 DEF IsSeq

LEMMA FourIsSeq ==
  ASSUME NEW a, NEW b, NEW c, NEW d, NEW s, s = <<a, b, c, d>>
  PROVE  IsSeq(s) /\ Len(s) = 4 /\ s[1] = a /\ s[2] = b /\ s[3] = c /\ s[4] = d
<1>1. s \in Seq({a, b, c, d}) /\ Len(s) = 4 /\ s[1] = a /\ s[2] = b /\ s[3] = c /\ s[4] = d
  OBVIOUS
<1>2. QED
  BY <1>1 DEF IsSeq

\* The sectors that the firmware reads, in the twelve first ones.
HeaderIs(h, efi, volume) ==
  /\ IsSeq(h) /\ Len(h) = 12
  /\ h[1] = <<"boot", [reserved |-> 1, table |-> 2, root |-> 1, cluster |-> SECTORS_PER_CLUSTER,
                       total |-> 16 + Sectors(volume.size)]>>
  /\ h[2] = <<"fat", [i \in 0 .. NIBBLES \div 2 - 1 |-> FatWord(PartitionWords(efi, volume), i)]>>
  /\ h[3] = <<"fat", [i \in NIBBLES \div 2 .. NIBBLES - 1 |-> FatWord(PartitionWords(efi, volume), i)]>>
  /\ (\A w \in PartitionWords(efi, volume) : w[1] < NIBBLES) =>
       h[4] = <<"directory", <<Entry("EFI", 2, 0),
                               Entry("TOYSFS", 4 + NUM_BOOT_LOADER_CLUSTERS, volume.size)>> >>
  /\ h[5] = <<"directory", <<Entry(".", 2, 0), Entry("..", 0, 0), Entry("BOOT", 3, 0)>> >>
  /\ h[9] = <<"directory", <<Entry(".", 3, 0), Entry("..", 2, 0), Entry("BOOTX64 EFI", 4, efi.size)>> >>

LEMMA HeaderSectors ==
  ASSUME NEW efi, NEW volume
  PROVE  HeaderIs(PartitionHeader(efi, volume), efi, volume)
<1> DEFINE words == PartitionWords(efi, volume)
           root == <<Entry("EFI", 2, 0), Entry("TOYSFS", 4 + NUM_BOOT_LOADER_CLUSTERS, volume.size)>>
           a == <<"boot", [reserved |-> 1, table |-> 2, root |-> 1, cluster |-> SECTORS_PER_CLUSTER,
                           total |-> 16 + Sectors(volume.size)]>>
           b == <<"fat", [i \in 0 .. NIBBLES \div 2 - 1 |-> FatWord(words, i)]>>
           c == <<"fat", [i \in NIBBLES \div 2 .. NIBBLES - 1 |-> FatWord(words, i)]>>
           d == IF \A w \in words : w[1] < NIBBLES THEN <<"directory", root>> ELSE <<"damaged">>
           e == <<"directory", <<Entry(".", 2, 0), Entry("..", 0, 0), Entry("BOOT", 3, 0)>> >>
           f == <<"directory", <<Entry(".", 3, 0), Entry("..", 2, 0), Entry("BOOTX64 EFI", 4, efi.size)>> >>
<1>1. PartitionHeader(efi, volume) = <<a, b, c, d>> \o <<e>> \o Zeros(3) \o <<f>> \o Zeros(3)
  BY Zenon DEF PartitionHeader
<1>2. (\A w \in words : w[1] < NIBBLES) => d = <<"directory", root>>
  BY Zenon
<1> HIDE DEF a, b, c, d, e, f
<1>3. PICK s : s = <<a, b, c, d>>
  OBVIOUS
<1>4. IsSeq(s) /\ Len(s) = 4 /\ s[1] = a /\ s[2] = b /\ s[3] = c /\ s[4] = d
  BY <1>3, FourIsSeq
<1>5. PICK z : z = Zeros(3)
  OBVIOUS
<1>6. IsSeq(z) /\ Len(z) = 3
  BY <1>5, ZerosIs
<1>7. IsSeq(<<e>>) /\ Len(<<e>>) = 1 /\ <<e>>[1] = e
  BY OneIsSeq, Zenon
<1>8. IsSeq(<<f>>) /\ Len(<<f>>) = 1 /\ <<f>>[1] = f
  BY OneIsSeq, Zenon
<1>9. PICK t : t = s \o <<e>>
  OBVIOUS
<1>10. IsSeq(t) /\ Len(t) = 5 /\ t[5] = e /\ \A i \in 1 .. 4 : t[i] = s[i]
  <2>1. Joins(t, s, <<e>>)
    BY <1>4, <1>7, <1>9, Concatenated
  <2>2. QED
    BY <1>4, <1>7, <2>1 DEF Joins
<1>11. PICK u : u = t \o z
  OBVIOUS
<1>12. IsSeq(u) /\ Len(u) = 8 /\ \A i \in 1 .. 5 : u[i] = t[i]
  <2>1. Joins(u, t, z)
    BY <1>6, <1>10, <1>11, Concatenated
  <2>2. QED
    BY <1>6, <1>10, <2>1 DEF Joins
<1>13. PICK v : v = u \o <<f>>
  OBVIOUS
<1>14. IsSeq(v) /\ Len(v) = 9 /\ v[9] = f /\ \A i \in 1 .. 8 : v[i] = u[i]
  <2>1. Joins(v, u, <<f>>)
    BY <1>8, <1>12, <1>13, Concatenated
  <2>2. QED
    BY <1>8, <1>12, <2>1 DEF Joins
<1>15. PICK h : h = v \o z
  OBVIOUS
<1>16. IsSeq(h) /\ Len(h) = 12 /\ \A i \in 1 .. 9 : h[i] = v[i]
  <2>1. Joins(h, v, z)
    BY <1>6, <1>14, <1>15, Concatenated
  <2>2. QED
    BY <1>6, <1>14, <2>1 DEF Joins
<1>17. h = PartitionHeader(efi, volume)
  BY <1>1, <1>3, <1>5, <1>9, <1>11, <1>13, <1>15
<1>18. h[1] = a /\ h[2] = b /\ h[3] = c /\ h[4] = d /\ h[5] = e /\ h[9] = f
  BY <1>4, <1>10, <1>12, <1>14, <1>16
<1>19. HeaderIs(h, efi, volume)
  BY <1>2, <1>16, <1>18, Zenon DEF HeaderIs, a, b, c, e, f
<1>20. QED
  BY <1>17, <1>19

LEMMA EfiFits ==
  ASSUME IsFile(host.efi), FatSizes
  PROVE  Len(host.efi.sectors) \in 1 .. 4 /\ Clusters(host.efi.size) = 1
<1>1. PICK s \in Nat \ {0} : s = SECTOR_SIZE
  BY SectorSizes
<1>2. PICK n : n = host.efi.size
  OBVIOUS
<1>3. n \in Nat \ {0} /\ n <= 4 * s /\ CLUSTER_SIZE = 4 * s /\ Len(host.efi.sectors) = Sectors(n)
  BY <1>1, <1>2, SectorSizes DEF IsFile, FatSizes
<1>4. n + s - 1 < s * 5 /\ n + s - 1 \in Nat /\ n + s - 1 >= s
  BY <1>3
<1>5. PICK x : x = n + s - 1
  OBVIOUS
<1>6. x \div s < 5 /\ x \div s \in Nat /\ x % s \in 0 .. s - 1 /\ x = (x % s) + (x \div s) * s
  BY <1>4, <1>5, DivBelow, DivMod
<1>7. x \div s # 0
  BY <1>4, <1>5, <1>6
<1>8. Sectors(n) \in 1 .. 4
  <2>1. Sectors(n) = x \div s
    BY <1>1, <1>5 DEF Sectors
  <2>2. PICK q : q = x \div s
    OBVIOUS
  <2>3. q \in Nat /\ q < 5 /\ q # 0
    BY <1>6, <1>7, <2>2
  <2>4. q \in 1 .. 4
    BY <2>3
  <2>5. QED
    BY <2>1, <2>2, <2>4
<1>9. PICK c \in Nat \ {0} : c = 4 * s
  OBVIOUS
<1>10. PICK y : y = n - 1
  OBVIOUS
<1>11. y \in 0 .. c - 1 /\ n + c - 1 = y + 1 * c
  BY <1>3, <1>9, <1>10
<1>12. (y + 1 * c) \div c = 1
  BY <1>11, DivModUnique
<1>13. QED
  BY <1>2, <1>3, <1>8, <1>9, <1>11, <1>12 DEF Clusters

\* The first 16 sectors of the partition.
LEMMA FatHeadIs ==
  ASSUME IsFile(host.efi), FatSizes
  PROVE  /\ IsSeq(FatHead) /\ Len(FatHead) = 16
         /\ HeaderIs(PartitionHeader(host.efi, host.toysfs), host.efi, host.toysfs)
         /\ \A i \in 1 .. 12 : FatHead[i] = PartitionHeader(host.efi, host.toysfs)[i]
         /\ \A j \in 1 .. Len(host.efi.sectors) : FatHead[12 + j] = host.efi.sectors[j]
<1>1. PICK h : h = PartitionHeader(host.efi, host.toysfs)
  OBVIOUS
<1>0. HeaderIs(h, host.efi, host.toysfs)
  BY <1>1, HeaderSectors
<1>2. HeaderIs(h, host.efi, host.toysfs) /\ IsSeq(h) /\ Len(h) = 12
  BY <1>0, Zenon DEF HeaderIs
<1>3. PICK s : s = host.efi.sectors
  OBVIOUS
<1>4. IsSeq(s) /\ Len(s) \in 1 .. 4
  BY <1>3, EfiFits DEF IsFile
<1>5. PICK z : z = Zeros(4 - Len(s))
  OBVIOUS
<1>6. IsSeq(z) /\ Len(z) = 4 - Len(s)
  <2>0. PICK k \in 1 .. 4 : k = Len(s)
    BY <1>4
  <2>1. PICK n \in Nat : n = 4 - k
    OBVIOUS
  <2>2. QED
    BY <1>5, <2>0, <2>1, ZerosIs
<1>7. PICK t : t = h \o s
  OBVIOUS
<1>8. Joins(t, h, s)
  BY <1>2, <1>4, <1>7, Concatenated
<1>9. PICK u : u = t \o z
  OBVIOUS
<1>10. Joins(u, t, z)
  BY <1>6, <1>8, <1>9, Concatenated DEF Joins
<1>11. u = FatHead
  BY <1>1, <1>3, <1>5, <1>7, <1>9 DEF FatHead, SECTORS_PER_CLUSTER
<1>12. IsSeq(u) /\ Len(u) = 16
  BY <1>2, <1>4, <1>6, <1>8, <1>10 DEF Joins
<1>13. \A i \in 1 .. 12 : u[i] = h[i]
  BY <1>2, <1>4, <1>8, <1>10 DEF Joins
<1>14. \A j \in 1 .. Len(s) : u[12 + j] = s[j]
  <2>1. ASSUME NEW j \in 1 .. Len(s)
        PROVE  u[12 + j] = s[j]
    <3>1. t[12 + j] = s[j]
      BY <1>2, <1>8 DEF Joins
    <3>2. 12 + j \in 1 .. Len(t)
      BY <1>2, <1>4, <1>8 DEF Joins
    <3>3. QED
      BY <1>10, <3>1, <3>2 DEF Joins
  <2>2. QED
    BY <2>1
<1>15. QED
  BY <1>1, <1>2, <1>3, <1>11, <1>12, <1>13, <1>14

LEMMA EntriesAre ==
  /\ NUM_TABLE_ENTRY_SECTORS \in Nat \ {0}
  /\ IsSeq(PartitionEntries) /\ Len(PartitionEntries) = NUM_TABLE_ENTRY_SECTORS
  /\ PartitionEntries[1] = <<"entries", PartitionEntry>>
<1>1. PICK n \in Nat \ {0} : n = NUM_TABLE_ENTRY_SECTORS
  BY ImagesAssumption DEF ImagesAssumption
<1>2. PICK e : e = <<"entries", PartitionEntry>>
  OBVIOUS
<1>3. IsSeq(<<e>>) /\ Len(<<e>>) = 1 /\ <<e>>[1] = e
  BY OneIsSeq
<1>4. PICK z : z = Zeros(n - 1)
  OBVIOUS
<1>5. IsSeq(z) /\ Len(z) = n - 1
  BY <1>1, <1>4, ZerosIs
<1>6. PICK s : s = <<e>> \o z
  OBVIOUS
<1>7. Joins(s, <<e>>, z)
  BY <1>3, <1>5, <1>6, Concatenated
<1>8. IsSeq(s) /\ Len(s) = n /\ s[1] = e
  BY <1>1, <1>3, <1>5, <1>7 DEF Joins
<1>9. s = PartitionEntries
  BY <1>1, <1>2, <1>4, <1>6 DEF PartitionEntries
<1>10. QED
  BY <1>1, <1>2, <1>8, <1>9

LEMMA ImageHeadIs ==
  /\ IsSeq(ImageHead) /\ Len(ImageHead) = 2 + NUM_TABLE_ENTRY_SECTORS
  /\ ImageHead[2] = <<"header", Checked(NewHeader)>>
  /\ ImageHead[3] = <<"entries", PartitionEntry>>
<1>1. PICK a, b : /\ a = <<"mbr", [starting_lba |-> 1, size_in_lba |-> ImageSectors - 1]>>
                  /\ b = <<"header", Checked(NewHeader)>>
  OBVIOUS
<1>2. PICK s : s = <<a, b>>
  OBVIOUS
<1>3. IsSeq(s) /\ Len(s) = 2 /\ s[2] = b
  BY <1>2, PairIsSeq
<1>4. PICK p : p = PartitionEntries
  OBVIOUS
<1>5. IsSeq(p) /\ Len(p) = NUM_TABLE_ENTRY_SECTORS /\ p[1] = <<"entries", PartitionEntry>>
      /\ NUM_TABLE_ENTRY_SECTORS \in Nat \ {0}
  BY <1>4, EntriesAre
<1>6. PICK h : h = s \o p
  OBVIOUS
<1>7. Joins(h, s, p)
  BY <1>3, <1>5, <1>6, Concatenated
<1>8. IsSeq(h) /\ Len(h) = 2 + NUM_TABLE_ENTRY_SECTORS /\ h[2] = b /\ h[3] = p[1]
  BY <1>3, <1>5, <1>7 DEF Joins
<1>9. h = ImageHead
  BY <1>1, <1>2, <1>4, <1>6 DEF ImageHead
<1>10. QED
  BY <1>1, <1>5, <1>8, <1>9

LEMMA ImageTailIs ==
  /\ IsSeq(ImageTail) /\ Len(ImageTail) = NUM_TABLE_ENTRY_SECTORS + 1
  /\ ImageTail[1] = <<"entries", PartitionEntry>>
  /\ ImageTail[NUM_TABLE_ENTRY_SECTORS + 1] = <<"header", AlternateHeader>>
<1>1. PICK p : p = PartitionEntries
  OBVIOUS
<1>2. IsSeq(p) /\ Len(p) = NUM_TABLE_ENTRY_SECTORS /\ p[1] = <<"entries", PartitionEntry>>
      /\ NUM_TABLE_ENTRY_SECTORS \in Nat \ {0}
  BY <1>1, EntriesAre
<1>3. PICK a : a = <<"header", AlternateHeader>>
  OBVIOUS
<1>4. IsSeq(<<a>>) /\ Len(<<a>>) = 1 /\ <<a>>[1] = a
  BY OneIsSeq
<1>5. PICK t : t = p \o <<a>>
  OBVIOUS
<1>6. Joins(t, p, <<a>>)
  BY <1>2, <1>4, <1>5, Concatenated
<1>7. IsSeq(t) /\ Len(t) = NUM_TABLE_ENTRY_SECTORS + 1 /\ t[1] = p[1] /\ t[NUM_TABLE_ENTRY_SECTORS + 1] = a
  BY <1>2, <1>4, <1>6 DEF Joins
<1>8. t = ImageTail
  BY <1>1, <1>3, <1>5 DEF ImageTail
<1>9. QED
  BY <1>2, <1>3, <1>7, <1>8

-----------------------------------------------------------------------------
(***************************************************************************)
(* The steps of the programs.                                              *)
(***************************************************************************)
\* The copy of a sector, and its end.
LEMMA CopyNext ==
  ASSUME NEW head, IsSeq(head), Len(head) > 0, NEW sectors, IsSeq(sectors),
         output # <<>>, Copying(head, sectors), DOMAIN tool = ToolFields
  PROVE  /\ tool.i < Len(sectors) =>
              /\ tool.i + 1 \in 0 .. Len(sectors) /\ IsSeq(Append(output, sectors[tool.i + 1]))
              /\ Append(output, sectors[tool.i + 1]) # <<>>
              /\ Append(output, sectors[tool.i + 1]) = head \o SubSeq(sectors, 1, tool.i + 1)
         /\ ~ tool.i < Len(sectors) => output = head \o sectors
<1>1. PICK i, n : i = tool.i /\ n = Len(sectors)
  OBVIOUS
<1>2. n \in Nat /\ i \in 0 .. n /\ output = head \o SubSeq(sectors, 1, i)
  BY <1>1, SeqIs DEF Copying
<1>3. PICK u : u = SubSeq(sectors, 1, i)
  OBVIOUS
<1>4. IsSeq(u) /\ (i = n => u = sectors)
  BY <1>1, <1>2, <1>3, PrefixIs
<1>5. ASSUME i < n
      PROVE  /\ i + 1 \in 0 .. n /\ IsSeq(Append(output, sectors[i + 1]))
             /\ Append(output, sectors[i + 1]) # <<>>
             /\ Append(output, sectors[i + 1]) = head \o SubSeq(sectors, 1, i + 1)
  <2>1. PICK x : x = sectors[i + 1]
    OBVIOUS
  <2>2. u \o <<x>> = SubSeq(sectors, 1, i + 1)
    <3>1. i \in 0 .. Len(sectors) /\ i < Len(sectors)
      BY <1>1, <1>2, <1>5
    <3>2. SubSeq(sectors, 1, i) \o <<sectors[i + 1]>> = SubSeq(sectors, 1, i + 1)
      BY <3>1, PrefixIs
    <3>3. QED
      BY <1>3, <2>1, <3>2
  <2>3. IsSeq(<<x>>) /\ Len(<<x>>) = 1
    BY OneIsSeq
  <2>4. Joins(output, head, u) /\ output = head \o u
    BY <1>2, <1>3, <1>4, Concatenated
  <2>5. IsSeq(output)
    BY <2>4 DEF Joins
  <2>6. Append(output, x) = output \o <<x>> /\ Joins(output \o <<x>>, output, <<x>>)
    BY <2>3, <2>5, AppendIs, Concatenated
  <2>7. output \o <<x>> = head \o (u \o <<x>>)
    BY <1>4, <2>3, <2>4, JoinAssoc
  <2>8. IsSeq(Append(output, x)) /\ Len(Append(output, x)) = Len(output) + 1
    BY <2>3, <2>6 DEF Joins
  <2>9. Len(output) \in Nat
    BY <2>5, SeqIs
  <2>10. Append(output, x) # <<>>
    BY <2>8, <2>9, EmptyIsSeq
  <2>11. i + 1 \in 0 .. n
    BY <1>2, <1>5
  <2>12. QED
    BY <2>1, <2>2, <2>6, <2>7, <2>8, <2>10, <2>11
<1>6. ASSUME ~ i < n
      PROVE  output = head \o sectors
  <2>1. i = n
    BY <1>2, <1>6
  <2>2. u = sectors
    BY <1>4, <2>1
  <2>3. QED
    BY <1>2, <1>3, <2>2
<1>7. QED
  BY <1>1, <1>5, <1>6

\* The copy begins.
LEMMA CopyStarts ==
  ASSUME NEW head, IsSeq(head), Len(head) > 0, NEW sectors, IsSeq(sectors)
  PROVE  head # <<>> /\ head = head \o SubSeq(sectors, 1, 0) /\ 0 \in 0 .. Len(sectors)
<1>1. Len(sectors) \in Nat /\ 0 \in 0 .. Len(sectors)
  BY SeqIs
<1>2. SubSeq(sectors, 1, 0) = <<>>
  BY <1>1, PrefixIs
<1>3. head \o <<>> = head
  BY JoinEmpty
<1>4. head # <<>>
  BY EmptyIsSeq
<1>5. QED
  BY <1>1, <1>2, <1>3, <1>4

\* A program starts.
LEMMA StartIs ==
  ASSUME NEW name, Starts(name)
  PROVE  /\ DOMAIN tool' = ToolFields /\ tool'.name = name /\ tool'.step = "read" /\ tool'.i = 0
         /\ output' = <<>> /\ IsSeq(output') /\ ~ Ended'
<1>1. tool' = [NoTool EXCEPT !.name = name, !.step = "read"] /\ output' = <<>>
  BY DEF Starts
<1>2. NoTool.i = 0
  BY DEF NoTool
<1>3. DOMAIN tool' = ToolFields /\ tool'.name = name /\ tool'.step = "read" /\ tool'.i = 0
  BY <1>1, <1>2, NoToolFields DEF ToolFields
<1>4. QED
  BY <1>1, <1>3, EmptyIsSeq DEF Ended

LEMMA EfiSteps ==
  ASSUME HostRight, BootEfiStart \/ BootEfiRead \/ BootEfiWrite
  PROVE  HostRight'
<1>1. DOMAIN tool = ToolFields /\ DOMAIN host = {"toysfs", "efi", "fatfs"} /\ IsSeq(output)
  BY DEF HostRight
<1>2. CASE BootEfiStart
  <2>1. PICK size \in CodeSizes :
          tool' = [NoTool EXCEPT !.name = "makebootefi", !.step = "read", !.size = size]
    BY <1>2 DEF BootEfiStart
  <2>2. output' = <<>> /\ host' = [host EXCEPT !.toysfs = File(output)]
    BY <1>2 DEF BootEfiStart
  <2>3. DOMAIN tool' = ToolFields /\ tool'.name = "makebootefi" /\ tool'.step = "read" /\ tool'.size = size
    BY <2>1, NoToolFields DEF ToolFields
  <2>4. DOMAIN host' = {"toysfs", "efi", "fatfs"} /\ host'.toysfs = File(output)
    BY <1>1, <2>2
  <2>5. IsFile(host'.toysfs)
    BY <1>1, <2>4, FileIs
  <2>6. EfiRight'
    BY <2>3 DEF EfiRight, Ended
  <2>7. QED
    BY <2>2, <2>3, <2>4, <2>5, <2>6, EmptyIsSeq DEF HostRight
<1>3. CASE BootEfiRead
  <2>1. tool.name = "makebootefi" /\ tool.step = "read" /\ UNCHANGED <<output, host, arguments>>
    BY <1>3 DEF BootEfiRead, At, Keep
  <2>2. IsFile(host.toysfs) /\ tool.size \in CodeSizes /\ CodeSizes \subseteq Nat
    BY <2>1, ImagesAssumption DEF HostRight, EfiRight, ImagesAssumption
  <2>3. CASE Exit(1)
    <3>1. /\ DOMAIN tool' = ToolFields /\ tool'.step = "exit" /\ tool'.status = 1
          /\ tool'.name = tool.name /\ tool'.size = tool.size
      BY <1>1, <2>3, Exits DEF ToolFields
    <3>2. EfiRight'
      BY <2>2, <3>1 DEF EfiRight, Ended
    <3>3. QED
      BY <1>1, <2>1, <2>2, <3>1, <3>2 DEF HostRight
  <2>4. CASE GotoStep("write", tool) /\ tool.size < CODE_SECTORS * SECTOR_SIZE + 1
    <3>1. /\ DOMAIN tool' = ToolFields /\ tool'.step = "write"
          /\ tool'.name = tool.name /\ tool'.size = tool.size
      BY <1>1, <2>4, GoesTo DEF ToolFields
    <3>2. tool.size <= CODE_SECTORS * SECTOR_SIZE
      <4>1. PICK n \in Nat : n = CODE_SECTORS * SECTOR_SIZE
        BY SectorSizes
      <4>2. PICK k \in Nat : k = tool.size
        BY <2>2
      <4>3. k < n + 1
        BY <2>4, <4>1, <4>2
      <4>4. k <= n
        BY <4>3
      <4>5. QED
        BY <4>1, <4>2, <4>4
    <3>3. EfiRight'
      BY <2>2, <3>1, <3>2 DEF EfiRight, Ended
    <3>4. QED
      BY <1>1, <2>1, <2>2, <3>1, <3>3 DEF HostRight
  <2>5. QED
    BY <1>3, <2>3, <2>4 DEF BootEfiRead
<1>4. CASE BootEfiWrite
  <2>1. tool.name = "makebootefi" /\ tool.step = "write" /\ UNCHANGED host /\ GotoStep("close", tool)
        /\ output' = EfiOutput(tool.size)
    BY <1>4 DEF BootEfiWrite, At, EfiOutput
  <2>2. /\ IsFile(host.toysfs) /\ tool.size \in CodeSizes /\ tool.size <= CODE_SECTORS * SECTOR_SIZE
    BY <2>1 DEF HostRight, EfiRight
  <2>3. /\ DOMAIN tool' = ToolFields /\ tool'.step = "close"
        /\ tool'.name = tool.name /\ tool'.size = tool.size
    BY <1>1, <2>1, GoesTo DEF ToolFields
  <2>4. IsSeq(output')
    BY <2>1, EfiSectors
  <2>5. EfiRight'
    BY <2>1, <2>2, <2>3 DEF EfiRight
  <2>6. QED
    BY <1>1, <2>1, <2>2, <2>3, <2>4, <2>5 DEF HostRight
<1>5. QED
  BY <1>2, <1>3, <1>4

LEMMA FatSteps ==
  ASSUME HostRight, FatStart \/ FatRead \/ FatHeader \/ FatCopy
  PROVE  HostRight'
<1>1. DOMAIN tool = ToolFields /\ DOMAIN host = {"toysfs", "efi", "fatfs"} /\ IsSeq(output)
  BY DEF HostRight
<1>2. CASE FatStart
  <2>1. /\ host' = [host EXCEPT !.efi = File(output)] /\ Starts("makefatfs")
        /\ tool.name = "makebootefi" /\ Ended
    BY <1>2 DEF FatStart, Succeeded, At, Ended
  <2>2. DOMAIN host' = {"toysfs", "efi", "fatfs"} /\ host'.efi = File(output) /\ host'.toysfs = host.toysfs
    BY <1>1, <2>1
  <2>3. IsFile(host'.efi) /\ IsFile(host'.toysfs)
    BY <1>1, <2>1, <2>2, FileIs DEF HostRight
  <2>4. IsBootEfi(host'.efi)
    BY <2>1, <2>2 DEF HostRight, EfiRight, IsBootEfi
  <2>5. /\ DOMAIN tool' = ToolFields /\ tool'.name = "makefatfs" /\ tool'.step = "read" /\ tool'.i = 0
        /\ output' = <<>> /\ IsSeq(output') /\ ~ Ended'
    BY <2>1, StartIs
  <2>6. FatRight'
    BY <2>5 DEF FatRight
  <2>7. QED
    BY <2>2, <2>3, <2>4, <2>5, <2>6 DEF HostRight
<1>3. CASE FatRead \/ FatHeader \/ FatCopy
  <2>1. tool.name = "makefatfs" /\ UNCHANGED <<host, arguments>>
    BY <1>3 DEF FatRead, FatHeader, FatCopy, At, Keep
  <2>2. /\ IsFile(host.toysfs) /\ IsFile(host.efi) /\ (Made => IsBootEfi(host.efi)) /\ FatRight
    BY <2>1 DEF HostRight
  <2>3. FatHead' = FatHead /\ (FatSizes' <=> FatSizes) /\ (Made' <=> Made)
    BY <2>1, HostSame DEF Made
  <2>4. SUFFICES DOMAIN tool' = ToolFields /\ tool'.name = tool.name /\ IsSeq(output') /\ FatRight'
    BY <1>1, <2>1, <2>2, <2>3 DEF HostRight
  <2>5. CASE FatRead
    <3>1. tool.step = "read" /\ output' = output /\ output = <<>> /\ tool.i = 0
      BY <2>2, <2>5 DEF FatRead, At, FatRight
    <3>2. CASE Exit(1)
      <4>1. /\ DOMAIN tool' = ToolFields /\ tool'.step = "exit" /\ tool'.status = 1
            /\ tool'.name = tool.name
        BY <1>1, <3>2, Exits DEF ToolFields
      <4>2. QED
        BY <1>1, <3>1, <4>1 DEF FatRight, Ended
    <3>3. CASE GotoStep("write", tool) /\ FatSizes
      <4>1. /\ DOMAIN tool' = ToolFields /\ tool'.step = "write"
            /\ tool'.name = tool.name /\ tool'.i = tool.i
        BY <1>1, <3>3, GoesTo DEF ToolFields
      <4>2. QED
        BY <1>1, <2>3, <3>1, <3>3, <4>1 DEF FatRight, Ended, Copying
    <3>4. QED
      BY <2>5, <3>2, <3>3 DEF FatRead, FatSizes
  <2>6. CASE FatHeader
    <3>1. tool.step = "write" /\ tool' = tool /\ output' = FatHead /\ output = <<>>
      BY <2>6 DEF FatHeader, At, FatHead
    <3>2. FatSizes /\ tool.i = 0
      BY <2>2, <3>1 DEF FatRight, Copying
    <3>3. IsSeq(FatHead) /\ Len(FatHead) = 16 /\ Len(FatHead) > 0
      <4>1. IsSeq(FatHead) /\ Len(FatHead) = 16
        BY <2>2, <3>2, FatHeadIs
      <4>2. QED
        BY <4>1
    <3>4. PICK s : s = host.toysfs.sectors
      OBVIOUS
    <3>5. IsSeq(s)
      BY <2>2, <3>4 DEF IsFile
    <3>6. FatHead # <<>> /\ FatHead = FatHead \o SubSeq(s, 1, 0) /\ 0 \in 0 .. Len(s)
      BY <3>3, <3>5, CopyStarts
    <3>7. Copying(FatHead, s)'
      BY <2>1, <2>3, <3>1, <3>2, <3>4, <3>6 DEF Copying
    <3>8. QED
      BY <1>1, <2>1, <2>3, <3>1, <3>2, <3>3, <3>4, <3>7 DEF FatRight, Ended
  <2>7. CASE FatCopy
    <3>1. tool.step = "write" /\ output # <<>>
      BY <2>7 DEF FatCopy, At
    <3>2. PICK s : s = host.toysfs.sectors
      OBVIOUS
    <3>3. FatSizes /\ Copying(FatHead, s) /\ IsSeq(s)
      BY <2>2, <3>1, <3>2 DEF FatRight, IsFile
    <3>4. IsSeq(FatHead) /\ Len(FatHead) = 16 /\ Len(FatHead) > 0
      <4>1. IsSeq(FatHead) /\ Len(FatHead) = 16
        BY <2>2, <3>3, FatHeadIs
      <4>2. QED
        BY <4>1
    <3>5. CASE tool.i < Len(s)
      <4>1. output' = Append(output, s[tool.i + 1]) /\ tool' = [tool EXCEPT !.i = @ + 1]
        BY <2>7, <3>2, <3>5 DEF FatCopy
      <4>2. DOMAIN tool' = ToolFields /\ tool'.name = tool.name /\ tool'.step = tool.step
            /\ tool'.i = tool.i + 1
        BY <1>1, <4>1 DEF ToolFields
      <4>3. /\ tool.i + 1 \in 0 .. Len(s) /\ IsSeq(output') /\ output' # <<>>
            /\ output' = FatHead \o SubSeq(s, 1, tool.i + 1)
        BY <1>1, <3>1, <3>3, <3>4, <3>5, <4>1, CopyNext
      <4>4. Copying(FatHead, s)'
        BY <2>1, <2>3, <3>2, <4>2, <4>3 DEF Copying
      <4>5. QED
        BY <2>1, <2>3, <3>1, <3>2, <3>3, <4>2, <4>3, <4>4 DEF FatRight, Ended
    <3>6. CASE ~ tool.i < Len(s)
      <4>1. output' = output /\ GotoStep("close", tool)
        BY <2>7, <3>2, <3>6 DEF FatCopy
      <4>2. DOMAIN tool' = ToolFields /\ tool'.name = tool.name /\ tool'.step = "close"
        BY <1>1, <4>1, GoesTo DEF ToolFields
      <4>3. output = FatHead \o s
        BY <1>1, <3>1, <3>3, <3>4, <3>6, CopyNext
      <4>4. QED
        BY <1>1, <2>1, <2>3, <3>2, <3>3, <4>1, <4>2, <4>3 DEF FatRight, Ended
    <3>7. QED
      BY <3>5, <3>6
  <2>8. QED
    BY <1>3, <2>5, <2>6, <2>7
<1>4. QED
  BY <1>2, <1>3

LEMMA ImageSteps ==
  ASSUME HostRight, ImageStart \/ ImageRead \/ ImageHeader \/ ImageCopy
  PROVE  HostRight'
<1>1. DOMAIN tool = ToolFields /\ DOMAIN host = {"toysfs", "efi", "fatfs"} /\ IsSeq(output)
  BY DEF HostRight
<1>2. CASE ImageStart
  <2>1. /\ host' = [host EXCEPT !.fatfs = File(output)] /\ Starts("maketoysimg")
        /\ tool.name = "makefatfs" /\ Ended /\ arguments' = arguments
    BY <1>2 DEF ImageStart, Succeeded, At, Ended, Keep
  <2>2. /\ DOMAIN host' = {"toysfs", "efi", "fatfs"} /\ host'.fatfs = File(output)
        /\ host'.efi = host.efi /\ host'.toysfs = host.toysfs
    BY <1>1, <2>1
  <2>3. IsFile(host.efi) /\ IsFile(host.toysfs) /\ (Made => IsBootEfi(host.efi)) /\ FatRight
    BY <2>1 DEF HostRight
  <2>4. FatSizes /\ output = FatHead \o host.toysfs.sectors
    BY <2>1, <2>3 DEF FatRight
  <2>5. FatHead' = FatHead /\ (FatSizes' <=> FatSizes) /\ (Made' <=> Made)
    BY <2>1, <2>2, Zenon DEF FatHead, FatSizes, Made
  <2>6. /\ DOMAIN tool' = ToolFields /\ tool'.name = "maketoysimg" /\ tool'.step = "read" /\ tool'.i = 0
        /\ output' = <<>> /\ IsSeq(output') /\ ~ Ended'
    BY <2>1, StartIs
  <2>7. ImageRight'
    BY <2>2, <2>4, <2>5, <2>6 DEF ImageRight
  <2>8. QED
    BY <2>2, <2>3, <2>5, <2>6, <2>7 DEF HostRight
<1>3. CASE ImageRead \/ ImageHeader \/ ImageCopy
  <2>1. tool.name = "maketoysimg" /\ UNCHANGED <<host, arguments>>
    BY <1>3 DEF ImageRead, ImageHeader, ImageCopy, At, Keep
  <2>2. /\ IsFile(host.toysfs) /\ IsFile(host.efi) /\ (Made => IsBootEfi(host.efi)) /\ ImageRight
    BY <2>1 DEF HostRight
  <2>3. /\ FatHead' = FatHead /\ ImageHead' = ImageHead /\ ImageTail' = ImageTail
        /\ (FatSizes' <=> FatSizes) /\ (Made' <=> Made)
    BY <2>1, HostSame DEF Made
  <2>4. SUFFICES DOMAIN tool' = ToolFields /\ tool'.name = tool.name /\ IsSeq(output') /\ ImageRight'
    BY <1>1, <2>1, <2>2, <2>3 DEF HostRight
  <2>5. /\ FatSizes' /\ host'.fatfs = File(FatHead' \o host'.toysfs.sectors)
    BY <2>1, <2>2, <2>3 DEF ImageRight
  <2>6. PICK s : s = host.fatfs.sectors
    OBVIOUS
  <2>7. IsSeq(s)
    <3>1. IsSeq(FatHead) /\ IsSeq(host.toysfs.sectors)
      BY <2>2, FatHeadIs DEF ImageRight, IsFile
    <3>2. IsSeq(FatHead \o host.toysfs.sectors)
      BY <3>1, Concatenated DEF Joins
    <3>3. QED
      BY <2>2, <2>6, <3>2, FileIs DEF ImageRight
  <2>8. IsSeq(ImageHead) /\ Len(ImageHead) > 0
    BY ImageHeadIs, ImagesAssumption DEF ImagesAssumption
  <2>9. CASE ImageRead
    <3>1. tool.step = "read" /\ output' = output /\ output = <<>> /\ tool.i = 0
      BY <2>2, <2>9 DEF ImageRead, At, ImageRight
    <3>2. CASE Exit(1)
      <4>1. /\ DOMAIN tool' = ToolFields /\ tool'.step = "exit" /\ tool'.status = 1
            /\ tool'.name = tool.name
        BY <1>1, <3>2, Exits DEF ToolFields
      <4>2. QED
        BY <1>1, <2>5, <3>1, <4>1 DEF ImageRight, Ended
    <3>3. CASE GotoStep("write", tool)
      <4>1. /\ DOMAIN tool' = ToolFields /\ tool'.step = "write"
            /\ tool'.name = tool.name /\ tool'.i = tool.i
        BY <1>1, <3>3, GoesTo DEF ToolFields
      <4>2. QED
        BY <1>1, <2>5, <3>1, <4>1 DEF ImageRight, Ended, Copying
    <3>4. QED
      BY <2>9, <3>2, <3>3 DEF ImageRead
  <2>10. CASE ImageHeader
    <3>1. tool.step = "write" /\ tool' = tool /\ output' = ImageHead /\ output = <<>>
      BY <2>10 DEF ImageHeader, At, ImageHead
    <3>2. tool.i = 0
      BY <2>2, <3>1 DEF ImageRight, Copying
    <3>3. ImageHead # <<>> /\ ImageHead = ImageHead \o SubSeq(s, 1, 0) /\ 0 \in 0 .. Len(s)
      BY <2>7, <2>8, CopyStarts
    <3>4. Copying(ImageHead, s)'
      BY <2>1, <2>3, <2>6, <3>1, <3>2, <3>3 DEF Copying
    <3>5. QED
      BY <1>1, <2>1, <2>3, <2>5, <2>6, <2>8, <3>1, <3>4 DEF ImageRight, Ended
  <2>11. CASE ImageCopy
    <3>1. tool.step = "write" /\ output # <<>> /\ Copying(ImageHead, s)
      BY <2>2, <2>6, <2>11 DEF ImageCopy, At, ImageRight
    <3>2. CASE tool.i < Len(s)
      <4>1. output' = Append(output, s[tool.i + 1]) /\ tool' = [tool EXCEPT !.i = @ + 1]
        BY <2>6, <2>11, <3>2 DEF ImageCopy
      <4>2. DOMAIN tool' = ToolFields /\ tool'.name = tool.name /\ tool'.step = tool.step
            /\ tool'.i = tool.i + 1
        BY <1>1, <4>1 DEF ToolFields
      <4>3. /\ tool.i + 1 \in 0 .. Len(s) /\ IsSeq(output') /\ output' # <<>>
            /\ output' = ImageHead \o SubSeq(s, 1, tool.i + 1)
        BY <1>1, <2>7, <2>8, <3>1, <3>2, <4>1, CopyNext
      <4>4. Copying(ImageHead, s)'
        BY <2>1, <2>3, <2>6, <4>2, <4>3 DEF Copying
      <4>5. QED
        BY <2>1, <2>3, <2>5, <2>6, <3>1, <4>2, <4>3, <4>4 DEF ImageRight, Ended
    <3>3. CASE ~ tool.i < Len(s)
      <4>1. GotoStep("close", tool)
            /\ output' = output \o PartitionEntries \o <<(<<"header", AlternateHeader>>)>>
        BY <2>6, <2>11, <3>3 DEF ImageCopy
      <4>2. DOMAIN tool' = ToolFields /\ tool'.name = tool.name /\ tool'.step = "close"
        BY <1>1, <4>1, GoesTo DEF ToolFields
      <4>3. output = ImageHead \o s
        BY <1>1, <2>7, <2>8, <3>1, <3>3, CopyNext
      <4>4. PICK h : h = <<"header", AlternateHeader>>
        OBVIOUS
      <4>5. IsSeq(<<h>>) /\ IsSeq(PartitionEntries)
        BY OneIsSeq, EntriesAre
      <4>6. output \o PartitionEntries \o <<h>> = output \o (PartitionEntries \o <<h>>)
        BY <1>1, <4>5, JoinAssoc
      <4>7. output' = (ImageHead \o s) \o ImageTail
        BY <4>1, <4>3, <4>4, <4>6 DEF ImageTail
      <4>8. IsSeq(output')
        BY <1>1, <4>3, <4>7, ImageTailIs, Concatenated DEF Joins
      <4>9. QED
        BY <2>1, <2>3, <2>5, <2>6, <4>2, <4>7, <4>8 DEF ImageRight, Ended
    <3>4. QED
      BY <3>2, <3>3
  <2>12. QED
    BY <1>3, <2>9, <2>10, <2>11
<1>4. QED
  BY <1>2, <1>3

LEMMA HostInit == ImagesInit => HostRight
<1> SUFFICES ASSUME ImagesInit
             PROVE  HostRight
  OBVIOUS
<1>1. output = <<>> /\ IsSeq(output)
  BY EmptyIsSeq DEF ImagesInit
<1>2. DOMAIN Off = {"toysfs", "efi", "fatfs"}
  BY DEF Off
<1>3. CASE tool = MakeToysFS /\ host = Off
  <2>1. DOMAIN tool = ToolFields /\ tool.name = "maketoysfs"
    BY <1>3, NoToolFields DEF MakeToysFS, ToolFields
  <2>2. QED
    BY <1>1, <1>2, <1>3, <2>1 DEF HostRight
<1>4. CASE /\ arguments = <<>>
           /\ tool = [NoTool EXCEPT !.name = "makefatfs", !.step = "read"]
           /\ \E size \in OtherFiles :
                host = [Off EXCEPT !.efi = Other("code", size[1]), !.toysfs = Other("block", size[2])]
  <2>1. PICK size \in OtherFiles :
          host = [Off EXCEPT !.efi = Other("code", size[1]), !.toysfs = Other("block", size[2])]
    BY <1>4
  <2>2. size[1] \in Nat /\ size[2] \in Nat
    BY <2>1, ImagesAssumption DEF ImagesAssumption
  <2>3. PICK a, b : a = Other("code", size[1]) /\ b = Other("block", size[2])
    OBVIOUS
  <2>4. host = [Off EXCEPT !.efi = a, !.toysfs = b]
    BY <2>1, <2>3
  <2>5. DOMAIN host = {"toysfs", "efi", "fatfs"} /\ host.efi = a /\ host.toysfs = b
    BY <1>2, <2>4
  <2>6. IsFile(a) /\ IsFile(b)
    BY <2>2, <2>3, OtherIs
  <2>7. NoTool.i = 0
    BY DEF NoTool
  <2>8. DOMAIN tool = ToolFields /\ tool.name = "makefatfs" /\ tool.step = "read" /\ tool.i = 0
    BY <1>4, <2>7, NoToolFields DEF ToolFields
  <2>9. ~ Made /\ FatRight
    BY <1>1, <1>4, <2>8 DEF Made, FatRight, Ended
  <2>10. QED
    BY <1>1, <2>5, <2>6, <2>8, <2>9 DEF HostRight
<1>5. QED
  BY <1>3, <1>4 DEF ImagesInit

\* The facts about the programs are inductive.
LEMMA HostKeeps == HostRight /\ [ImagesNext]_all => HostRight'
<1> SUFFICES ASSUME HostRight, [ImagesNext]_all
             PROVE  HostRight'
  OBVIOUS
<1>1. DOMAIN tool = ToolFields /\ DOMAIN host = {"toysfs", "efi", "fatfs"} /\ IsSeq(output)
  BY DEF HostRight
<1>2. CASE FileTools /\ UNCHANGED <<loader, host>>
  BY <1>2, FileToolsHost
<1>3. CASE UNCHANGED all \/ Use
  <2>1. tool' = tool /\ output' = output /\ host' = host /\ arguments' = arguments
    BY <1>3 DEF all, Use, tools
  <2>2. QED
    BY <1>1, <2>1, OutputStays
<1>4. CASE SwitchOn
  <2>1. tool' = NoTool /\ output' = <<>> /\ host' = Off
    BY <1>4 DEF SwitchOn
  <2>2. NoTool.name = "none" /\ DOMAIN Off = {"toysfs", "efi", "fatfs"}
    BY DEF NoTool, Off
  <2>3. QED
    BY <2>1, <2>2, NoToolFields, EmptyIsSeq DEF HostRight
<1>5. CASE SaveFiles
  <2>1. PICK tar : tool' = DumpToysFS(tar)
    BY <1>5 DEF SaveFiles
  <2>2. DOMAIN tool' = ToolFields /\ tool'.name = "dumptoysfs"
    BY <2>1, NoToolFields DEF DumpToysFS, ToolFields
  <2>3. output' = output /\ host' = host
    BY <1>5 DEF SaveFiles
  <2>4. QED
    BY <1>1, <2>2, <2>3 DEF HostRight
<1>6. QED
  BY <1>2, <1>3, <1>4, <1>5, EfiSteps, FatSteps, ImageSteps DEF ImagesNext, ToolStep

-----------------------------------------------------------------------------
(***************************************************************************)
(* The partition table.                                                    *)
(***************************************************************************)
LEMMA SubSeqIs ==
  ASSUME NEW s, IsSeq(s), NEW f, IsSeq(f), NEW k \in Nat, NEW n, n = Len(f), k + n <= Len(s),
         \A i \in 1 .. n : s[k + i] = f[i]
  PROVE  SubSeq(s, k + 1, k + n) = f
<1>1. PICK S : s \in Seq(S)
  BY DEF IsSeq
<1>2. PICK F : f \in Seq(F)
  BY DEF IsSeq
<1>3. PICK u : u = SubSeq(s, k + 1, k + n)
  OBVIOUS
<1>4. n \in Nat /\ DOMAIN f = 1 .. n /\ f = [i \in 1 .. n |-> f[i]]
  BY <1>2
<1>5. u \in Seq(S) /\ Len(u) = n /\ \A i \in 1 .. n : u[i] = s[k + i]
  <2>1. PICK a, b : a = k + 1 /\ b = k + n
    OBVIOUS
  <2>2. a \in Nat /\ b \in Nat /\ b <= Len(s) /\ b - a + 1 = n /\ 1 <= a
    BY <1>4, <2>1
  <2>3. u = SubSeq(s, a, b)
    BY <1>3, <2>1
  <2>4. u \in Seq(S) /\ Len(u) = n /\ \A i \in 1 .. n : u[i] = s[a + i - 1]
    BY <1>1, <1>4, <2>2, <2>3
  <2>5. \A i \in 1 .. n : a + i - 1 = k + i
    BY <1>4, <2>1
  <2>6. QED
    BY <2>4, <2>5
<1>6. u = [i \in 1 .. n |-> u[i]]
  BY <1>5
<1>7. \A i \in 1 .. n : u[i] = f[i]
  BY <1>5
<1>8. u = f
  BY <1>4, <1>6, <1>7
<1>9. QED
  BY <1>3, <1>8

HeaderFields ==
  {"my_lba", "alternate_lba", "first_usable_lba", "last_usable_lba", "partition_entry_lba",
   "partition_entry_array_crc32", "header_crc32"}

IsHeader(h) ==
  DOMAIN h = HeaderFields /\ h = [x \in DOMAIN h |-> h[x]] /\ h.header_crc32 = NoCrc

\* The checksums of c are right.
HasChecksums(c) ==
  /\ c.partition_entry_array_crc32 = Crc32(PartitionEntry)
  /\ c.header_crc32 = Crc32([c EXCEPT !.header_crc32 = NoCrc])

LEMMA CheckedIs ==
  ASSUME NEW h, IsHeader(h)
  PROVE  /\ HasChecksums(Checked(h))
         /\ \A x \in {"my_lba", "alternate_lba", "partition_entry_lba"} : Checked(h)[x] = h[x]
<1>1. DOMAIN h = HeaderFields /\ h = [x \in DOMAIN h |-> h[x]] /\ h.header_crc32 = NoCrc
  BY DEF IsHeader
<1>2. PICK a : a = Crc32(PartitionEntry)
  OBVIOUS
<1>3. PICK g : g = [h EXCEPT !.partition_entry_array_crc32 = a]
  OBVIOUS
<1>4. PICK b : b = Crc32(g)
  OBVIOUS
<1>5. PICK c : c = [g EXCEPT !.header_crc32 = b]
  OBVIOUS
<1>6. c = Checked(h)
  BY <1>2, <1>3, <1>4, <1>5, Zenon DEF Checked
<1>7. DOMAIN g = HeaderFields /\ g = [x \in DOMAIN g |-> g[x]] /\ g.partition_entry_array_crc32 = a
      /\ \A x \in HeaderFields : x # "partition_entry_array_crc32" => g[x] = h[x]
  BY <1>1, <1>3 DEF HeaderFields
<1>8. DOMAIN c = HeaderFields /\ c = [x \in DOMAIN c |-> c[x]] /\ c.header_crc32 = b
      /\ \A x \in HeaderFields : x # "header_crc32" => c[x] = g[x]
  BY <1>5, <1>7 DEF HeaderFields
<1>9. g.header_crc32 = NoCrc
  BY <1>1, <1>7 DEF HeaderFields
<1>10. PICK e : e = [c EXCEPT !.header_crc32 = NoCrc]
  OBVIOUS
<1>11. DOMAIN e = HeaderFields /\ e = [x \in DOMAIN e |-> e[x]] /\ e.header_crc32 = NoCrc
       /\ \A x \in HeaderFields : x # "header_crc32" => e[x] = c[x]
  BY <1>8, <1>10 DEF HeaderFields
<1>12. \A x \in HeaderFields : e[x] = g[x]
  BY <1>8, <1>9, <1>11
<1>13. e = g
  BY <1>7, <1>11, <1>12
<1>14. HasChecksums(c)
  <2>1. c.partition_entry_array_crc32 = a
    BY <1>7, <1>8 DEF HeaderFields
  <2>2. c.header_crc32 = Crc32(e)
    BY <1>4, <1>8, <1>13
  <2>3. QED
    BY <1>2, <1>10, <2>1, <2>2, Zenon DEF HasChecksums
<1>15. \A x \in {"my_lba", "alternate_lba", "partition_entry_lba"} : c[x] = h[x]
  BY <1>7, <1>8 DEF HeaderFields
<1>16. QED
  BY <1>6, <1>14, <1>15

LEMMA NewHeaderIs ==
  /\ IsHeader(NewHeader) /\ NewHeader.my_lba = 1 /\ NewHeader.partition_entry_lba = 2
  /\ NewHeader.alternate_lba = ImageSectors - 1
BY DEF IsHeader, NewHeader, HeaderFields

LEMMA AlternateHeaderIs ==
  /\ HasChecksums(AlternateHeader) /\ AlternateHeader.my_lba = ImageSectors - 1
  /\ AlternateHeader.alternate_lba = 1 /\ AlternateHeader.partition_entry_lba = LastUsable + 1
<1>1. PICK h : h = NewHeader
  OBVIOUS
<1>2. PICK m : m = ImageSectors - 1
  OBVIOUS
<1>3. PICK l : l = LastUsable + 1
  OBVIOUS
<1>4. IsHeader(h) /\ h.my_lba = 1 /\ h.alternate_lba = m
  BY <1>1, <1>2, NewHeaderIs
<1>5. PICK e : e = [h EXCEPT !.my_lba = m, !.alternate_lba = 1, !.partition_entry_lba = l]
  OBVIOUS
<1>6. /\ IsHeader(e) /\ e.my_lba = m /\ e.alternate_lba = 1 /\ e.partition_entry_lba = l
  BY <1>4, <1>5 DEF IsHeader, HeaderFields
<1>7. PICK a : a = AlternateHeader
  OBVIOUS
<1>8. a = Checked(e)
  BY <1>1, <1>3, <1>4, <1>5, <1>7, Zenon DEF AlternateHeader
<1>9. HasChecksums(a) /\ \A x \in {"my_lba", "alternate_lba", "partition_entry_lba"} : a[x] = e[x]
  BY <1>6, <1>8, CheckedIs
<1>10. QED
  BY <1>2, <1>3, <1>6, <1>7, <1>9

\* What is where on the disk.
InImage(n, l) ==
  /\ n = NUM_TABLE_ENTRY_SECTORS /\ n \in Nat \ {0} /\ l \in Nat \ {0}
  /\ l = Len(host.fatfs.sectors) /\ IsSeq(host.fatfs.sectors)
  /\ IsSeq(output) /\ Len(output) = 3 + 2 * n + l
  /\ output[2] = <<"header", Checked(NewHeader)>>
  /\ output[3] = <<"entries", PartitionEntry>>
  /\ \A i \in 1 .. l : output[(2 + n) + i] = host.fatfs.sectors[i]
  /\ output[3 + n + l] = <<"entries", PartitionEntry>>
  /\ output[3 + 2 * n + l] = <<"header", AlternateHeader>>

\* What the partition has.
InPartition(v) ==
  /\ v = host.toysfs.sectors /\ IsSeq(v) /\ FatSizes
  /\ IsFile(host.efi) /\ IsFile(host.toysfs) /\ (Made => IsBootEfi(host.efi))
  /\ IsSeq(FatHead) /\ Len(FatHead) = 16
  /\ Joins(host.fatfs.sectors, FatHead, v)

LEMMA DiskIs ==
  ASSUME HostRight, Succeeded("maketoysimg")
  PROVE  /\ \E n, l : InImage(n, l)
         /\ \E v : InPartition(v)
<1>1. tool.name = "maketoysimg" /\ Ended
  BY DEF Succeeded, At, Ended
<1>2. /\ IsFile(host.toysfs) /\ IsFile(host.efi) /\ (Made => IsBootEfi(host.efi)) /\ FatSizes
      /\ host.fatfs = File(FatHead \o host.toysfs.sectors) /\ IsSeq(output)
      /\ output = (ImageHead \o host.fatfs.sectors) \o ImageTail
  BY <1>1 DEF HostRight, ImageRight
<1>3. PICK v : v = host.toysfs.sectors
  OBVIOUS
<1>4. PICK f : f = host.fatfs.sectors
  OBVIOUS
<1>5. IsSeq(v) /\ IsSeq(FatHead) /\ Len(FatHead) = 16
  BY <1>2, <1>3, FatHeadIs DEF IsFile
<1>6. Joins(FatHead \o v, FatHead, v)
  BY <1>5, Concatenated
<1>7. f = FatHead \o v
  <2>1. IsSeq(FatHead \o v)
    BY <1>6 DEF Joins
  <2>2. File(FatHead \o v).sectors = FatHead \o v
    BY <2>1, FileIs
  <2>3. QED
    BY <1>2, <1>3, <1>4, <2>2
<1>8. InPartition(v)
  BY <1>2, <1>3, <1>4, <1>5, <1>6, <1>7 DEF InPartition
<1>9. PICK n, l : n = NUM_TABLE_ENTRY_SECTORS /\ l = Len(f)
  OBVIOUS
<1>10. IsSeq(f) /\ l \in Nat \ {0}
  <2>1. IsSeq(f) /\ Len(f) = 16 + Len(v) /\ Len(v) \in Nat
    BY <1>5, <1>6, <1>7, SeqIs DEF Joins
  <2>2. QED
    BY <1>9, <2>1
<1>11. PICK h : h = ImageHead
  OBVIOUS
<1>12. PICK t : t = ImageTail
  OBVIOUS
<1>13. /\ IsSeq(h) /\ Len(h) = 2 + n /\ n \in Nat \ {0}
       /\ h[2] = <<"header", Checked(NewHeader)>> /\ h[3] = <<"entries", PartitionEntry>>
  BY <1>9, <1>11, ImageHeadIs, EntriesAre
<1>14. /\ IsSeq(t) /\ Len(t) = n + 1
       /\ t[1] = <<"entries", PartitionEntry>> /\ t[n + 1] = <<"header", AlternateHeader>>
  BY <1>9, <1>12, ImageTailIs
<1>15. PICK u : u = h \o f
  OBVIOUS
<1>16. Joins(u, h, f)
  BY <1>10, <1>13, <1>15, Concatenated
<1>17. PICK o : o = u \o t
  OBVIOUS
<1>18. Joins(o, u, t)
  BY <1>14, <1>16, <1>17, Concatenated DEF Joins
<1>19. o = output
  BY <1>2, <1>4, <1>11, <1>12, <1>15, <1>17
<1>20. IsSeq(o) /\ Len(o) = 3 + 2 * n + l /\ Len(u) = 2 + n + l
  BY <1>9, <1>10, <1>13, <1>14, <1>16, <1>18 DEF Joins
<1>21. o[2] = h[2] /\ o[3] = h[3]
  <2>1. u[2] = h[2] /\ u[3] = h[3]
    BY <1>13, <1>16 DEF Joins
  <2>2. QED
    BY <1>10, <1>13, <1>18, <1>20, <2>1 DEF Joins
<1>22. \A i \in 1 .. l : o[(2 + n) + i] = f[i]
  <2>1. ASSUME NEW i \in 1 .. l
        PROVE  o[(2 + n) + i] = f[i]
    <3>1. u[(2 + n) + i] = f[i]
      BY <1>9, <1>13, <1>16 DEF Joins
    <3>2. (2 + n) + i \in 1 .. Len(u)
      BY <1>10, <1>13, <1>20
    <3>3. QED
      BY <1>18, <3>1, <3>2 DEF Joins
  <2>2. QED
    BY <2>1
<1>23. o[3 + n + l] = t[1] /\ o[3 + 2 * n + l] = t[n + 1]
  <2>1. o[(2 + n + l) + 1] = t[1] /\ o[(2 + n + l) + (n + 1)] = t[n + 1]
    BY <1>13, <1>14, <1>18, <1>20 DEF Joins
  <2>2. (2 + n + l) + 1 = 3 + n + l /\ (2 + n + l) + (n + 1) = 3 + 2 * n + l
    BY <1>10, <1>13
  <2>3. QED
    BY <2>1, <2>2
<1>24. InImage(n, l)
  BY <1>4, <1>9, <1>10, <1>13, <1>14, <1>19, <1>20, <1>21, <1>22, <1>23 DEF InImage
<1>25. QED
  BY <1>8, <1>24

\* A header with right checksums, that gives the place of the partition.
LEMMA HeaderAt ==
  ASSUME NEW n, NEW l, InImage(n, l), NEW lba, NEW h, HasChecksums(h), h.my_lba = lba,
         Lba(lba) = <<"header", h>>, Lba(h.partition_entry_lba) = <<"entries", PartitionEntry>>
  PROVE  ValidHeader(lba) /\ Partition(lba) = host.fatfs.sectors
<1>1. Lba(lba)[1] = "header" /\ Lba(lba)[2] = h
  <2>1. PICK s : s = <<"header", h>>
    OBVIOUS
  <2>2. s[1] = "header" /\ s[2] = h /\ Lba(lba) = s
    BY <2>1
  <2>3. QED
    BY <2>2
<1>2. PICK e : e = <<"entries", PartitionEntry>>
  OBVIOUS
<1>3. e[1] = "entries" /\ e[2] = PartitionEntry /\ Lba(h.partition_entry_lba) = e
  BY <1>2
<1>4. ValidHeader(lba)
  BY <1>1, <1>3, Zenon DEF ValidHeader, HasChecksums
<1>5. PICK f : f = host.fatfs.sectors
  OBVIOUS
<1>6. /\ n \in Nat \ {0} /\ l \in Nat \ {0} /\ l = Len(f) /\ IsSeq(f) /\ IsSeq(output)
      /\ Len(output) = 3 + 2 * n + l /\ \A i \in 1 .. l : output[(2 + n) + i] = f[i]
      /\ n = NUM_TABLE_ENTRY_SECTORS
  BY <1>5 DEF InImage
<1>7. SubSeq(output, (2 + n) + 1, (2 + n) + l) = f
  <2>1. 2 + n \in Nat /\ (2 + n) + l <= Len(output)
    BY <1>6
  <2>2. QED
    BY <1>6, <2>1, SubSeqIs
<1>8. PartitionEntry.starting_lba + 1 = (2 + n) + 1 /\ PartitionEntry.ending_lba + 1 = (2 + n) + l
  BY <1>5, <1>6 DEF PartitionEntry, FirstUsable, LastUsable
<1>9. Partition(lba) = SubSeq(output, PartitionEntry.starting_lba + 1, PartitionEntry.ending_lba + 1)
  BY <1>1, <1>3, Zenon DEF Partition
<1>10. QED
  BY <1>4, <1>5, <1>7, <1>8, <1>9

LEMMA FirstHeader ==
  ASSUME NEW n, NEW l, InImage(n, l)
  PROVE  /\ ValidHeader(1) /\ Partition(1) = host.fatfs.sectors
         /\ Lba(1)[2].alternate_lba = ImageSectors - 1
<1>1. PICK h : h = Checked(NewHeader)
  OBVIOUS
<1>2. HasChecksums(h) /\ h.my_lba = 1 /\ h.partition_entry_lba = 2 /\ h.alternate_lba = ImageSectors - 1
  BY <1>1, CheckedIs, NewHeaderIs
<1>3. Lba(1) = <<"header", h>> /\ Lba(2) = <<"entries", PartitionEntry>>
  <2>1. 1 + 1 \in DOMAIN output /\ 2 + 1 \in DOMAIN output
    BY SeqIs DEF InImage
  <2>2. Lba(1) = output[2] /\ Lba(2) = output[3]
    BY <2>1 DEF Lba
  <2>3. QED
    BY <1>1, <2>2, Zenon DEF InImage
<1>4. PICK s : s = <<"header", h>>
  OBVIOUS
<1>5. s[2] = h /\ Lba(1) = s
  BY <1>3, <1>4
<1>6. QED
  BY <1>2, <1>3, <1>5, HeaderAt

LEMMA SecondHeader ==
  ASSUME NEW n, NEW l, InImage(n, l), ImageSectors - 1 # MIN_IMAGE_SECTORS - 1
  PROVE  /\ ImageSectors - 1 = Len(output) - 1
         /\ ValidHeader(ImageSectors - 1) /\ Partition(ImageSectors - 1) = host.fatfs.sectors
         /\ Lba(ImageSectors - 1)[2].alternate_lba = 1
<1>1. n \in Nat \ {0} /\ l \in Nat \ {0} /\ Len(output) = 3 + 2 * n + l /\ DOMAIN output = 1 .. Len(output)
      /\ n = NUM_TABLE_ENTRY_SECTORS /\ l = Len(host.fatfs.sectors)
  BY SeqIs DEF InImage
<1>2. ImageSectors = 3 + 2 * n + l
  BY <1>1 DEF ImageSectors
<1>3. PICK h : h = AlternateHeader
  OBVIOUS
<1>4. PICK k : k = ImageSectors - 1
  OBVIOUS
<1>5. HasChecksums(h) /\ h.my_lba = k /\ h.alternate_lba = 1 /\ h.partition_entry_lba = LastUsable + 1
  BY <1>3, <1>4, AlternateHeaderIs
<1>6. LastUsable + 1 = 2 + n + l
  BY <1>1 DEF LastUsable, FirstUsable
<1>7. k + 1 = 3 + 2 * n + l /\ k + 1 \in DOMAIN output /\ (2 + n + l) + 1 \in DOMAIN output
      /\ (2 + n + l) + 1 = 3 + n + l
  <2>1. n \in Nat \ {0} /\ l \in Nat \ {0}
    BY <1>1
  <2>2. PICK m : m = 3 + 2 * n + l
    OBVIOUS
  <2>3. DOMAIN output = 1 .. m /\ k = m - 1
    BY <1>1, <1>2, <1>4, <2>2
  <2>4. m \in Nat /\ m \in 1 .. m /\ 3 + n + l \in 1 .. m /\ (2 + n + l) + 1 = 3 + n + l
    BY <2>1, <2>2
  <2>5. k + 1 = m
    BY <2>3, <2>4
  <2>6. QED
    BY <2>2, <2>3, <2>4, <2>5
<1>8. Lba(k) = <<"header", h>> /\ Lba(2 + n + l) = <<"entries", PartitionEntry>>
  <2>1. Lba(k) = output[3 + 2 * n + l] /\ Lba(2 + n + l) = output[3 + n + l]
    BY <1>7 DEF Lba
  <2>2. QED
    BY <1>3, <2>1, Zenon DEF InImage
<1>9. PICK s : s = <<"header", h>>
  OBVIOUS
<1>10. s[2] = h /\ Lba(k) = s
  BY <1>8, <1>9
<1>11. ValidHeader(k) /\ Partition(k) = host.fatfs.sectors
  BY <1>5, <1>6, <1>8, HeaderAt
<1>12. QED
  BY <1>1, <1>2, <1>4, <1>5, <1>10, <1>11

(***************************************************************************)
(* The disk has a second header, for the same partition.                   *)
(***************************************************************************)
THEOREM BackupHeaderIsRight == ImagesSpec => []BackupHeader
<1>1. HostRight => BackupHeader
  <2> SUFFICES ASSUME HostRight, Succeeded("maketoysimg"),
                      Lba(1)[2].alternate_lba # MIN_IMAGE_SECTORS - 1
               PROVE  /\ Lba(1)[2].alternate_lba = Len(output) - 1
                      /\ ValidHeader(Lba(1)[2].alternate_lba)
                      /\ Lba(Lba(1)[2].alternate_lba)[2].alternate_lba = 1
                      /\ Partition(Lba(1)[2].alternate_lba) = Partition(1)
    BY Zenon DEF BackupHeader
  <2>1. PICK n, l : InImage(n, l)
    BY DiskIs
  <2>2. Lba(1)[2].alternate_lba = ImageSectors - 1 /\ Partition(1) = host.fatfs.sectors
    BY <2>1, FirstHeader
  <2>3. QED
    BY <2>1, <2>2, SecondHeader
<1>2. ImagesSpec => ImagesInit /\ [][ImagesNext]_all
  BY PTL DEF ImagesSpec
<1>3. QED
  BY <1>1, <1>2, HostInit, HostKeeps, PTL

-----------------------------------------------------------------------------
(***************************************************************************)
(* The file allocation table.                                              *)
(***************************************************************************)
LEMMA Nibbles ==
  ASSUME NEW x \in 0 .. 15, NEW b0, NEW b1, NEW b2, NEW b3,
         b0 = (IF (x \div 1) % 2 = 1 THEN 1 ELSE 0), b1 = (IF (x \div 2) % 2 = 1 THEN 2 ELSE 0),
         b2 = (IF (x \div 4) % 2 = 1 THEN 4 ELSE 0), b3 = (IF (x \div 8) % 2 = 1 THEN 8 ELSE 0)
  PROVE  b0 + b1 + b2 + b3 = x
OBVIOUS

\* A word to which nothing, or x only, is added.
LEMMA FatWordIs ==
  ASSUME NEW words, NEW i, i \notin 0 .. 11, NEW x \in 0 .. 15,
         \A w \in words : w[1] = i => w[2] = x, \E w \in words : w[1] = i
  PROVE  FatWord(words, i) = x
<1> DEFINE set == {w[2] : w \in {v \in words : v[1] = i}}
                    \cup {CASE i = 0 -> 8 [] i \in 1 .. 11 -> 15 [] OTHER -> 0}
           bit(k) == IF \E y \in set : (y \div 2 ^ k) % 2 = 1 THEN 2 ^ k ELSE 0
<1>1. set = {x, 0}
  <2>1. (CASE i = 0 -> 8 [] i \in 1 .. 11 -> 15 [] OTHER -> 0) = 0
    BY i # 0, i \notin 1 .. 11
  <2>2. {w[2] : w \in {v \in words : v[1] = i}} = {x}
    OBVIOUS
  <2>3. QED
    BY <2>1, <2>2
<1>2. FatWord(words, i) = bit(0) + bit(1) + bit(2) + bit(3)
  BY Zenon DEF FatWord
<1> HIDE DEF set
<1>3. /\ bit(0) = (IF (x \div 1) % 2 = 1 THEN 1 ELSE 0) /\ bit(1) = (IF (x \div 2) % 2 = 1 THEN 2 ELSE 0)
      /\ bit(2) = (IF (x \div 4) % 2 = 1 THEN 4 ELSE 0) /\ bit(3) = (IF (x \div 8) % 2 = 1 THEN 8 ELSE 0)
  <2>1. 2 ^ 0 = 1 /\ 2 ^ 1 = 2 /\ 2 ^ 2 = 4 /\ 2 ^ 3 = 8
    OBVIOUS
  <2>2. (0 \div 1) % 2 = 0 /\ (0 \div 2) % 2 = 0 /\ (0 \div 4) % 2 = 0 /\ (0 \div 8) % 2 = 0
    OBVIOUS
  <2>3. bit(0) = (IF (x \div 1) % 2 = 1 THEN 1 ELSE 0)
    BY <1>1, <2>1, <2>2
  <2>4. bit(1) = (IF (x \div 2) % 2 = 1 THEN 2 ELSE 0)
    BY <1>1, <2>1, <2>2
  <2>5. bit(2) = (IF (x \div 4) % 2 = 1 THEN 4 ELSE 0)
    BY <1>1, <2>1, <2>2
  <2>6. bit(3) = (IF (x \div 8) % 2 = 1 THEN 8 ELSE 0)
    BY <1>1, <2>1, <2>2
  <2>7. QED
    BY <2>3, <2>4, <2>5, <2>6
<1> HIDE DEF bit
<1>4. bit(0) + bit(1) + bit(2) + bit(3) = x
  BY <1>3, Nibbles
<1>5. QED
  BY <1>2, <1>4

Digit(v, k) == (v \div 16 ^ k) % 16

TwelveBits(v) == v \in Nat /\ v <= 4095

LEMMA Digits ==
  ASSUME NEW v, TwelveBits(v)
  PROVE  /\ \A k \in 0 .. 2 : Digit(v, k) \in 0 .. 15
         /\ Digit(v, 0) + 16 * Digit(v, 1) + 256 * Digit(v, 2) = v
<1>0. v \in Nat /\ v < 4096
  BY DEF TwelveBits
<1>1. Digit(v, 0) = v % 16 /\ Digit(v, 1) = (v \div 16) % 16 /\ Digit(v, 2) = (v \div 256) % 16
  BY <1>0 DEF Digit
<1>2. v % 16 \in 0 .. 15 /\ (v \div 16) % 16 \in 0 .. 15 /\ (v \div 256) % 16 \in 0 .. 15
  BY <1>0
<1>3. (v % 16) + 16 * ((v \div 16) % 16) + 256 * ((v \div 256) % 16) = v
  BY <1>0
<1>4. \A k \in 0 .. 2 : k = 0 \/ k = 1 \/ k = 2
  OBVIOUS
<1>5. QED
  BY <1>1, <1>2, <1>3, <1>4

\* The entry of cluster c, for the boot loader, in cluster 4, and n clusters from the fifth.
EntryOf(c, n) == IF c = 4 \/ c = 4 + n THEN END ELSE c + 1

\* What a word can be.
IsWord(w, c, value) == \E k \in 0 .. 2 : w = <<3 * c + k, Digit(value, k)>>

LEMMA FatWordsAre ==
  ASSUME NEW first, NEW size, NEW last, last = first + Clusters(size) - 1, NEW w
  PROVE  w \in FatWords(first, size)
           <=> \E c \in first .. last : IsWord(w, c, IF c = last THEN END ELSE c + 1)
<1> DEFINE value(entry) == IF entry = last THEN END ELSE entry + 1
<1>1. FatWords(first, size)
        = {<<3 * entry + k, (value(entry) \div 16 ^ k) % 16>> : entry \in first .. last, k \in 0 .. 2}
  BY DEF FatWords
<1> HIDE DEF value
<1>2. w \in FatWords(first, size)
        <=> \E entry \in first .. last, k \in 0 .. 2 :
              w = <<3 * entry + k, (value(entry) \div 16 ^ k) % 16>>
  BY <1>1
<1>3. w \in FatWords(first, size)
        <=> \E c \in first .. last : IsWord(w, c, value(c))
  BY <1>2, Zenon DEF IsWord, Digit
<1>4. QED
  BY <1>3 DEF value

LEMMA WordsAre ==
  ASSUME NEW efi, NEW volume, Clusters(efi.size) = 1, NEW n \in Nat, n = Clusters(volume.size), NEW w
  PROVE  w \in PartitionWords(efi, volume) <=> \E c \in 4 .. 4 + n : IsWord(w, c, EntryOf(c, n))
<1>1. PICK a, b : a = FatWords(4, efi.size) /\ b = FatWords(4 + NUM_BOOT_LOADER_CLUSTERS, volume.size)
  OBVIOUS
<1>2. PartitionWords(efi, volume) = a \cup b
  BY <1>1 DEF PartitionWords
<1>3. w \in a <=> IsWord(w, 4, END)
  <2>1. 4 = 4 + Clusters(efi.size) - 1
    OBVIOUS
  <2>2. w \in a <=> \E c \in 4 .. 4 : IsWord(w, c, IF c = 4 THEN END ELSE c + 1)
    BY <1>1, <2>1, FatWordsAre
  <2>3. 4 .. 4 = {4}
    OBVIOUS
  <2>4. QED
    BY <2>2, <2>3, Zenon
<1>4. w \in b <=> \E c \in 5 .. 4 + n : IsWord(w, c, IF c = 4 + n THEN END ELSE c + 1)
  <2>1. PICK l : l = 4 + n
    OBVIOUS
  <2>2. l = 5 + n - 1 /\ b = FatWords(5, volume.size)
    BY <1>1, <2>1 DEF NUM_BOOT_LOADER_CLUSTERS
  <2>3. w \in b <=> \E c \in 5 .. l : IsWord(w, c, IF c = l THEN END ELSE c + 1)
    BY <2>2, FatWordsAre
  <2>4. QED
    BY <2>1, <2>3
<1>5. EntryOf(4, n) = END /\ \A c \in 5 .. 4 + n : EntryOf(c, n) = IF c = 4 + n THEN END ELSE c + 1
  BY DEF EntryOf
<1>6. w \in b <=> \E c \in 5 .. 4 + n : IsWord(w, c, EntryOf(c, n))
  BY <1>4, <1>5
<1>7. w \in a <=> IsWord(w, 4, EntryOf(4, n))
  BY <1>3, <1>5
<1>8. \A c : c \in 4 .. 4 + n <=> c = 4 \/ c \in 5 .. 4 + n
  OBVIOUS
<1>9. QED
  BY <1>2, <1>6, <1>7, <1>8, Zenon

IsEntry(v, c, n) == v = EntryOf(c, n)

\* The word k of the entry of cluster c.
LEMMA WordIs ==
  ASSUME NEW efi, NEW volume, Clusters(efi.size) = 1, NEW n \in Nat, n = Clusters(volume.size),
         NEW c \in 4 .. 4 + n, NEW k \in 0 .. 2, NEW v, TwelveBits(v), IsEntry(v, c, n)
  PROVE  FatWord(PartitionWords(efi, volume), 3 * c + k) = Digit(v, k)
<1>1. PICK words : words = PartitionWords(efi, volume)
  OBVIOUS
<1>2. \A w : w \in words <=> \E d \in 4 .. 4 + n : IsWord(w, d, EntryOf(d, n))
  BY <1>1, WordsAre
<1>3. PICK x : x = Digit(v, k)
  OBVIOUS
<1>4. PICK i : i = 3 * c + k
  OBVIOUS
<1>5. x \in 0 .. 15
  BY <1>3, Digits
<1>6. i \notin 0 .. 11
  BY <1>4
<1>7. ASSUME NEW w \in words, w[1] = i
      PROVE  w[2] = x
  <2>0. PICK d \in 4 .. 4 + n : IsWord(w, d, EntryOf(d, n))
    BY <1>2
  <2>1. PICK j \in 0 .. 2 : w = <<3 * d + j, Digit(EntryOf(d, n), j)>>
    BY <2>0 DEF IsWord
  <2>2. 3 * d + j = 3 * c + k
    BY <1>4, <1>7, <2>1
  <2>3. d = c /\ j = k
    BY <2>2
  <2>4. QED
    BY <1>3, <2>1, <2>3 DEF IsEntry
<1>8. \E w \in words : w[1] = i
  <2>1. PICK w : w = <<i, x>>
    OBVIOUS
  <2>2. w[1] = i /\ w = <<3 * c + k, Digit(v, k)>>
    BY <1>3, <1>4, <2>1
  <2>3. w \in words
    BY <1>2, <2>2 DEF IsWord, IsEntry
  <2>4. QED
    BY <2>2, <2>3
<1>9. FatWord(words, i) = x
  BY <1>5, <1>6, <1>7, <1>8, FatWordIs
<1>10. QED
  BY <1>1, <1>3, <1>4, <1>9

\* The table of a partition.
HasTable(p, efi, volume) ==
  /\ p[1] = <<"boot", [reserved |-> 1, table |-> 2, root |-> 1, cluster |-> SECTORS_PER_CLUSTER,
                       total |-> 16 + Sectors(volume.size)]>>
  /\ p[2] = <<"fat", [i \in 0 .. NIBBLES \div 2 - 1 |-> FatWord(PartitionWords(efi, volume), i)]>>
  /\ p[3] = <<"fat", [i \in NIBBLES \div 2 .. NIBBLES - 1 |-> FatWord(PartitionWords(efi, volume), i)]>>

\* The table has n clusters, and the four first ones and that of the boot loader.
FitsIn(volume, n) ==
  /\ n \in Nat /\ n = Clusters(volume.size) /\ volume.size = n * CLUSTER_SIZE
  /\ 5 + n <= NIBBLES \div 3

LEMMA NibblesAre == NIBBLES \in Nat /\ NIBBLES <= 12288
BY ImagesAssumption DEF ImagesAssumption

LEMMA ClustersAre ==
  ASSUME NEW n \in Nat, 5 + n <= NIBBLES \div 3
  PROVE  3 * (5 + n) <= NIBBLES /\ 5 + n < 4097
<1>1. PICK q : q = NIBBLES \div 3
  OBVIOUS
<1>2. q \in Nat /\ 3 * q <= NIBBLES
  BY <1>1, NibblesAre
<1>3. 3 * (5 + n) <= NIBBLES
  BY <1>1, <1>2, NibblesAre
<1>4. QED
  BY <1>3, NibblesAre

LEMMA EntriesFit ==
  ASSUME NEW n \in Nat, 5 + n <= NIBBLES \div 3, NEW c \in 4 .. 4 + n
  PROVE  TwelveBits(EntryOf(c, n))
<1>1. c = 4 \/ c = 4 + n \/ c + 1 <= 4095
  BY ClustersAre
<1>2. c + 1 \in Nat /\ END = 4095 /\ 4095 \in Nat
  BY DEF END
<1>3. CASE c = 4 \/ c = 4 + n
  BY <1>2, <1>3 DEF EntryOf, TwelveBits
<1>4. CASE ~ (c = 4 \/ c = 4 + n)
  BY <1>1, <1>2, <1>4 DEF EntryOf, TwelveBits
<1>5. QED
  BY <1>3, <1>4

LEMMA NextClusterIs ==
  ASSUME NEW p, NEW efi, NEW volume, HasTable(p, efi, volume), Clusters(efi.size) = 1,
         NEW n, FitsIn(volume, n), NEW c \in 4 .. 4 + n
  PROVE  NextCluster(p, c) = EntryOf(c, n)
<1> DEFINE word(i) == IF i < NIBBLES \div 2 THEN p[2][2][i] ELSE p[3][2][i]
<1>1. NextCluster(p, c) = word(3 * c) + 16 * word(3 * c + 1) + 256 * word(3 * c + 2)
  BY Zenon DEF NextCluster
<1>2. PICK v : v = EntryOf(c, n)
  OBVIOUS
<1>3. n \in Nat /\ n = Clusters(volume.size) /\ 3 * (5 + n) <= NIBBLES /\ TwelveBits(v) /\ IsEntry(v, c, n)
  <2>1. n \in Nat /\ n = Clusters(volume.size) /\ 5 + n <= NIBBLES \div 3
    BY DEF FitsIn
  <2>2. 3 * (5 + n) <= NIBBLES
    BY <2>1, ClustersAre
  <2>3. TwelveBits(v)
    BY <1>2, <2>1, EntriesFit
  <2>4. QED
    BY <1>2, <2>1, <2>2, <2>3 DEF IsEntry
<1>4. PICK words : words = PartitionWords(efi, volume)
  OBVIOUS
<1>5. PICK h : h = NIBBLES \div 2
  OBVIOUS
<1>6. h \in Nat
  BY <1>5, NibblesAre
<1>7. ASSUME NEW i \in Nat, i < NIBBLES
      PROVE  word(i) = FatWord(words, i)
  <2>1. PICK a, b : /\ a = [j \in 0 .. h - 1 |-> FatWord(words, j)]
                    /\ b = [j \in h .. NIBBLES - 1 |-> FatWord(words, j)]
    OBVIOUS
  <2>2. p[2] = <<"fat", a>> /\ p[3] = <<"fat", b>>
    BY <1>4, <1>5, <2>1, Zenon DEF HasTable
  <2>3. p[2][2] = a /\ p[3][2] = b
    BY <2>2
  <2>4. CASE i < h
    <3>1. i \in 0 .. h - 1
      BY <1>6, <2>4
    <3>2. a[i] = FatWord(words, i)
      BY <2>1, <3>1
    <3>3. QED
      BY <1>5, <2>3, <2>4, <3>2
  <2>5. CASE ~ i < h
    <3>1. i \in h .. NIBBLES - 1
      BY <1>6, <1>7, <2>5, NibblesAre
    <3>2. b[i] = FatWord(words, i)
      BY <2>1, <3>1
    <3>3. QED
      BY <1>5, <2>3, <2>5, <3>2
  <2>6. QED
    BY <2>4, <2>5
<1> HIDE DEF word
<1>8. ASSUME NEW k \in 0 .. 2
      PROVE  word(3 * c + k) = Digit(v, k)
  <2>1. PICK i : i = 3 * c + k
    OBVIOUS
  <2>2. i \in Nat /\ i < NIBBLES
    BY <1>3, <2>1, NibblesAre
  <2>3. FatWord(words, i) = Digit(v, k)
    BY <1>3, <1>4, <2>1, WordIs
  <2>4. QED
    BY <1>7, <2>1, <2>2, <2>3
<1>9. word(3 * c) = Digit(v, 0) /\ word(3 * c + 1) = Digit(v, 1) /\ word(3 * c + 2) = Digit(v, 2)
  <2>1. 3 * c + 0 = 3 * c
    OBVIOUS
  <2>2. QED
    BY <1>8, <2>1
<1>10. Digit(v, 0) + 16 * Digit(v, 1) + 256 * Digit(v, 2) = v
  BY <1>3, Digits
<1>11. QED
  BY <1>1, <1>2, <1>9, <1>10

LEMMA BootIs ==
  ASSUME NEW p, NEW efi, NEW volume, HasTable(p, efi, volume)
  PROVE  /\ FirstData(p) = 4 /\ p[1][2].cluster = 4 /\ p[1][2].total = 16 + Sectors(volume.size)
         /\ \A c, j : SectorOf(p, c, j) = 4 + (c - 2) * 4 + j + 1
<1>1. PICK b : b = [reserved |-> 1, table |-> 2, root |-> 1, cluster |-> SECTORS_PER_CLUSTER,
                    total |-> 16 + Sectors(volume.size)]
  OBVIOUS
<1>2. p[1] = <<"boot", b>>
  BY <1>1, Zenon DEF HasTable
<1>3. p[1][2] = b
  BY <1>2
<1>4. /\ b.reserved = 1 /\ b.table = 2 /\ b.root = 1 /\ b.cluster = 4
      /\ b.total = 16 + Sectors(volume.size)
  BY <1>1 DEF SECTORS_PER_CLUSTER
<1>5. FirstData(p) = 4
  BY <1>3, <1>4 DEF FirstData
<1>6. \A c, j : SectorOf(p, c, j) = 4 + (c - 2) * 4 + j + 1
  BY <1>3, <1>4, <1>5, Zenon DEF SectorOf
<1>7. QED
  BY <1>3, <1>4, <1>5, <1>6

LEMMA SectorsFit ==
  ASSUME NEW volume, NEW n, FitsIn(volume, n)
  PROVE  Sectors(volume.size) = 4 * n
<1>1. PICK s \in Nat \ {0} : s = SECTOR_SIZE
  BY SectorSizes
<1>2. n \in Nat /\ volume.size = n * (4 * s)
  BY <1>1, SectorSizes DEF FitsIn
<1>3. volume.size = (4 * n) * s /\ 4 * n \in Nat
  BY <1>2
<1>4. QED
  BY <1>1, <1>3, SectorsOf

LEMMA IsClusterIf ==
  ASSUME NEW p, NEW efi, NEW volume, HasTable(p, efi, volume), NEW n, FitsIn(volume, n),
         NEW c \in 4 .. 4 + n
  PROVE  IsCluster(p, c)
<1>1. n \in Nat /\ FirstData(p) = 4 /\ p[1][2].cluster = 4 /\ p[1][2].total = 16 + 4 * n
  BY BootIs, SectorsFit DEF FitsIn
<1>2. (16 + 4 * n - 4) \div 4 = 3 + n
  BY <1>1
<1>3. c >= 2 /\ c - 2 < 3 + n
  BY <1>1
<1>4. QED
  BY <1>1, <1>2, <1>3 DEF IsCluster

\* The chain of m clusters from the first.
LEMMA ChainOf ==
  ASSUME NEW p, NEW entry, NEW file, NEW first \in Nat, NEW m \in Nat, m = Clusters(file.size),
         entry.first_cluster = first, entry.file_size = file.size,
         file.size > 0 => m > 0, IsSeq(file.sectors), Len(file.sectors) <= 4 * m,
         \A k \in 0 .. m - 1 :
            /\ IsCluster(p, first + k)
            /\ NextCluster(p, first + k) = IF k = m - 1 THEN END ELSE first + (k + 1),
         \A i \in 1 .. Len(file.sectors) :
            p[SectorOf(p, first + ((i - 1) \div 4), (i - 1) % 4)] = file.sectors[i]
  PROVE  IsFileOf(p, entry, file)
<1> DEFINE clusters[k \in 0 .. Clusters(file.size)] ==
             IF k = 0 THEN entry.first_cluster
             ELSE IF IsCluster(p, clusters[k - 1]) THEN NextCluster(p, clusters[k - 1]) ELSE 0
           next(c) == IF IsCluster(p, c) THEN NextCluster(p, c) ELSE 0
<1>1. \E f : f = [k \in 0 .. m |-> IF k = 0 THEN first ELSE next(f[k - 1])]
  <2> DEFINE g == [k \in 0 .. m |-> IF k = m /\ m # 0 THEN END ELSE first + k]
             h == [k \in 0 .. m |-> IF k = 0 THEN first ELSE next(g[k - 1])]
  <2>1. ASSUME NEW k \in 0 .. m
        PROVE  g[k] = h[k]
    <3>1. CASE k = 0
      BY <3>1
    <3>2. CASE k # 0
      <4>1. PICK j : j = k - 1
        OBVIOUS
      <4>2. j \in 0 .. m - 1 /\ j \in 0 .. m /\ k = j + 1 /\ m # 0
        BY <3>2, <4>1
      <4>3. g[j] = first + j
        BY <4>2
      <4>4. next(first + j) = IF j = m - 1 THEN END ELSE first + (j + 1)
        BY <4>2
      <4>5. h[k] = next(g[j])
        BY <3>2, <4>1
      <4>6. g[k] = IF k = m THEN END ELSE first + k
        BY <4>2
      <4>7. k = m <=> j = m - 1
        BY <4>2
      <4>8. QED
        BY <4>2, <4>3, <4>4, <4>5, <4>6, <4>7
    <3>3. QED
      BY <3>1, <3>2
  <2>2. g = h
    BY <2>1
  <2> HIDE DEF g, next
  <2>3. g = [k \in 0 .. m |-> IF k = 0 THEN first ELSE next(g[k - 1])]
    BY <2>2
  <2>4. QED
    BY <2>3
<1>2. clusters = [k \in 0 .. m |-> IF k = 0 THEN first ELSE next(clusters[k - 1])]
  <2>1. \E f : f = [k \in 0 .. Clusters(file.size) |->
                     IF k = 0 THEN entry.first_cluster ELSE next(f[k - 1])]
    BY <1>1
  <2>2. clusters = [k \in 0 .. Clusters(file.size) |->
                     IF k = 0 THEN entry.first_cluster ELSE next(clusters[k - 1])]
    BY <2>1, Zenon
  <2> HIDE DEF clusters, next
  <2>3. QED
    BY <2>2
<1>3. PICK f : f = clusters
  OBVIOUS
<1> HIDE DEF clusters
<1>4. f = [k \in 0 .. m |-> IF k = 0 THEN first ELSE next(f[k - 1])]
  BY <1>2, <1>3
<1>5. f[0] = first
  BY <1>4
<1>6. \A k \in 0 .. m - 1 : k \in {j \in 0 .. m - 1 : f[j] = first + j}
  <2> DEFINE S == {j \in 0 .. m - 1 : f[j] = first + j}
  <2>1. CASE m = 0
    BY <2>1
  <2>2. CASE m # 0
    <3>1. 0 \in S
      BY <1>5, <2>2
    <3>2. ASSUME NEW k \in 0 .. (m - 1) - 1, k \in S
          PROVE  k + 1 \in S
      <4>1. k \in 0 .. m - 1 /\ k # m - 1 /\ k + 1 \in 0 .. m - 1 /\ k + 1 \in 0 .. m /\ k + 1 # 0
        OBVIOUS
      <4>2. f[k + 1] = next(f[k])
        BY <1>4, <4>1
      <4>3. f[k + 1] = first + (k + 1)
        BY <3>2, <4>1, <4>2
      <4>4. QED
        BY <4>1, <4>3
    <3> HIDE DEF S
    <3>3. 0 \in Int /\ m - 1 \in Int
      OBVIOUS
    <3>4. \A k \in 0 .. m - 1 : k \in S
      BY <3>1, <3>2, <3>3, IntervalInduction, Zenon
    <3>5. QED
      BY <3>4 DEF S
  <2>3. QED
    BY <2>1, <2>2
<1>7. m > 0 => f[m] = END
  <2>1. SUFFICES ASSUME m > 0
                 PROVE  f[m] = END
    OBVIOUS
  <2>2. PICK j : j = m - 1
    OBVIOUS
  <2>3. j \in 0 .. m - 1 /\ m \in 0 .. m /\ m # 0
    BY <2>1, <2>2
  <2>4. f[m] = next(f[j])
    BY <1>4, <2>2, <2>3
  <2>5. QED
    BY <1>6, <2>2, <2>3, <2>4
<1>8. \A k \in 0 .. m - 1 : IsCluster(p, f[k])
  BY <1>6
<1>9. ASSUME NEW i \in DOMAIN file.sectors
      PROVE  p[SectorOf(p, f[(i - 1) \div SECTORS_PER_CLUSTER], (i - 1) % SECTORS_PER_CLUSTER)]
               = file.sectors[i]
  <2>1. i \in 1 .. Len(file.sectors) /\ Len(file.sectors) \in Nat
    BY SeqIs
  <2>2. PICK q : q = (i - 1) \div 4
    OBVIOUS
  <2>3. i - 1 \in Nat /\ i - 1 < 4 * m
    <3>1. PICK l : l = Len(file.sectors)
      OBVIOUS
    <3>2. l \in Nat /\ i \in 1 .. l /\ l <= 4 * m
      BY <2>1, <3>1
    <3>3. QED
      BY <3>2
  <2>4. q \in 0 .. m - 1
    BY <2>2, <2>3
  <2>5. f[q] = first + q
    BY <1>6, <2>4
  <2>6. QED
    BY <2>1, <2>2, <2>5 DEF SECTORS_PER_CLUSTER
<1>10. /\ file.size > 0 => clusters[Clusters(file.size)] = END
       /\ \A k \in 0 .. Clusters(file.size) - 1 : IsCluster(p, clusters[k])
       /\ \A i \in DOMAIN file.sectors :
            p[SectorOf(p, clusters[(i - 1) \div SECTORS_PER_CLUSTER], (i - 1) % SECTORS_PER_CLUSTER)]
              = file.sectors[i]
  BY <1>3, <1>7, <1>8, <1>9
<1>11. QED
  BY <1>10, Zenon DEF IsFileOf, clusters

-----------------------------------------------------------------------------
(***************************************************************************)
(* The files of the partition.                                             *)
(***************************************************************************)
LEMMA NamedIs ==
  ASSUME NEW s, NEW k \in 1 .. Len(s), IsSeq(s), NEW name, s[k].name = name,
         \A i \in 1 .. Len(s) : i # k => s[i].name # name
  PROVE  EntryNamed(s, name) = s[k]
<1>1. PICK D : D = {s[i] : i \in DOMAIN s}
  OBVIOUS
<1>2. DOMAIN s = 1 .. Len(s)
  BY SeqIs
<1>3. s[k] \in D /\ \A e \in D : e.name = name => e = s[k]
  BY <1>1, <1>2
<1>4. (CHOOSE e \in D : e.name = name) = s[k]
  BY <1>3
<1>5. QED
  BY <1>1, <1>4 DEF EntryNamed

LEMMA RootNames ==
  ASSUME NEW s, NEW x, s = <<Entry("EFI", 2, 0), Entry("TOYSFS", 4 + NUM_BOOT_LOADER_CLUSTERS, x)>>
  PROVE  /\ EntryNamed(s, "EFI").first_cluster = 2
         /\ EntryNamed(s, "TOYSFS").first_cluster = 5 /\ EntryNamed(s, "TOYSFS").file_size = x
<1>1. PICK a, b : a = Entry("EFI", 2, 0) /\ b = Entry("TOYSFS", 4 + NUM_BOOT_LOADER_CLUSTERS, x)
  OBVIOUS
<1>2. IsSeq(s) /\ Len(s) = 2 /\ s[1] = a /\ s[2] = b
  BY <1>1, PairIsSeq
<1>3. /\ a.name = "EFI" /\ a.first_cluster = 2
      /\ b.name = "TOYSFS" /\ b.first_cluster = 5 /\ b.file_size = x
  BY <1>1 DEF Entry, NUM_BOOT_LOADER_CLUSTERS
<1>4. 1 \in 1 .. Len(s) /\ 2 \in 1 .. Len(s) /\ \A i \in 1 .. Len(s) : i = 1 \/ i = 2
  BY <1>2
<1>5. EntryNamed(s, "EFI") = a
  BY <1>2, <1>3, <1>4, NamedIs
<1>6. EntryNamed(s, "TOYSFS") = b
  BY <1>2, <1>3, <1>4, NamedIs
<1>7. QED
  BY <1>3, <1>5, <1>6

\* The third entry of a directory, after those of the directory and of its parent.
LEMMA ThirdName ==
  ASSUME NEW s, NEW c, NEW d, NEW name, name \notin {".", ".."}, NEW cluster, NEW size,
         s = <<Entry(".", c, 0), Entry("..", d, 0), Entry(name, cluster, size)>>
  PROVE  EntryNamed(s, name).first_cluster = cluster /\ EntryNamed(s, name).file_size = size
<1>1. PICK a, b, e : a = Entry(".", c, 0) /\ b = Entry("..", d, 0) /\ e = Entry(name, cluster, size)
  OBVIOUS
<1>2. s = <<a, b, e>>
  BY <1>1
<1>3. s \in Seq({a, b, e}) /\ Len(s) = 3 /\ s[1] = a /\ s[2] = b /\ s[3] = e
  BY <1>2
<1>4. IsSeq(s)
  BY <1>3 DEF IsSeq
<1>5. a.name = "." /\ b.name = ".." /\ e.name = name /\ e.first_cluster = cluster /\ e.file_size = size
  BY <1>1 DEF Entry
<1>6. 3 \in 1 .. Len(s) /\ \A i \in 1 .. Len(s) : i = 1 \/ i = 2 \/ i = 3
  BY <1>3
<1>7. EntryNamed(s, name) = e
  BY <1>3, <1>4, <1>5, <1>6, NamedIs
<1>8. QED
  BY <1>5, <1>7

\* The sectors of the partition.
LEMMA PartitionIs ==
  ASSUME NEW v, InPartition(v), NEW p, p = host.fatfs.sectors
  PROVE  /\ Len(p) = 16 + Len(v) /\ \A b \in DOMAIN v : p[16 + b] = v[b]
         /\ HasTable(p, host.efi, host.toysfs) /\ Clusters(host.efi.size) = 1
         /\ Len(host.efi.sectors) \in 1 .. 4
         /\ \A j \in 1 .. Len(host.efi.sectors) : p[12 + j] = host.efi.sectors[j]
         /\ (\A w \in PartitionWords(host.efi, host.toysfs) : w[1] < NIBBLES) =>
               p[4] = <<"directory", <<Entry("EFI", 2, 0),
                        Entry("TOYSFS", 4 + NUM_BOOT_LOADER_CLUSTERS, host.toysfs.size)>> >>
         /\ p[5] = <<"directory", <<Entry(".", 2, 0), Entry("..", 0, 0), Entry("BOOT", 3, 0)>> >>
         /\ p[9] = <<"directory", <<Entry(".", 3, 0), Entry("..", 2, 0),
                                    Entry("BOOTX64 EFI", 4, host.efi.size)>> >>
<1>1. PICK h : h = PartitionHeader(host.efi, host.toysfs)
  OBVIOUS
<1>2. PICK f : f = FatHead
  OBVIOUS
<1>3. PICK e : e = host.efi.sectors
  OBVIOUS
<1>4. IsFile(host.efi) /\ FatSizes /\ IsSeq(v) /\ Joins(p, f, v)
  BY <1>2 DEF InPartition
<1>5. /\ Len(f) = 16 /\ HeaderIs(h, host.efi, host.toysfs)
      /\ \A i \in 1 .. 12 : f[i] = h[i]
      /\ \A j \in 1 .. Len(e) : f[12 + j] = e[j]
  BY <1>1, <1>2, <1>3, <1>4, FatHeadIs
<1>6. Len(e) \in 1 .. 4 /\ Clusters(host.efi.size) = 1
  BY <1>3, <1>4, EfiFits
<1>7. /\ Len(p) = 16 + Len(v) /\ \A b \in 1 .. Len(v) : p[16 + b] = v[b]
      /\ \A i \in 1 .. 16 : p[i] = f[i]
  BY <1>4, <1>5 DEF Joins
<1>8. \A i \in 1 .. 12 : p[i] = h[i]
  <2>1. \A i \in 1 .. 12 : i \in 1 .. 16
    OBVIOUS
  <2>2. QED
    BY <1>5, <1>7, <2>1, Zenon
<1>9. \A j \in 1 .. Len(e) : p[12 + j] = e[j]
  <2>1. \A j \in 1 .. Len(e) : 12 + j \in 1 .. 16
    <3>1. PICK l \in 1 .. 4 : l = Len(e)
      BY <1>6
    <3>2. \A j \in 1 .. l : 12 + j \in 1 .. 16
      BY <3>1
    <3>3. QED
      BY <3>1, <3>2
  <2>2. QED
    BY <1>5, <1>7, <2>1, Zenon
<1>10. p[1] = h[1] /\ p[2] = h[2] /\ p[3] = h[3] /\ p[4] = h[4] /\ p[5] = h[5] /\ p[9] = h[9]
  BY <1>8
<1>11. HasTable(p, host.efi, host.toysfs)
  BY <1>5, <1>10, Zenon DEF HasTable, HeaderIs
<1>12. DOMAIN v = 1 .. Len(v)
  BY <1>4, SeqIs
<1>13. QED
  BY <1>3, <1>5, <1>6, <1>7, <1>9, <1>10, <1>11, <1>12, Zenon DEF HeaderIs

\* The words of the table are in it.
LEMMA WordsFit ==
  ASSUME NEW efi, NEW volume, Clusters(efi.size) = 1, NEW n, FitsIn(volume, n)
  PROVE  \A w \in PartitionWords(efi, volume) : w[1] < NIBBLES
<1>1. n \in Nat /\ n = Clusters(volume.size) /\ 5 + n <= NIBBLES \div 3
  BY DEF FitsIn
<1>2. 3 * (5 + n) <= NIBBLES /\ NIBBLES \in Nat
  BY <1>1, ClustersAre, NibblesAre
<1>3. ASSUME NEW w \in PartitionWords(efi, volume)
      PROVE  w[1] < NIBBLES
  <2>1. PICK c \in 4 .. 4 + n : IsWord(w, c, EntryOf(c, n))
    BY <1>1, WordsAre
  <2>2. PICK k \in 0 .. 2 : w = <<3 * c + k, Digit(EntryOf(c, n), k)>>
    BY <2>1 DEF IsWord
  <2>3. w[1] = 3 * c + k
    BY <2>2
  <2>4. 3 * c + k < NIBBLES
    BY <1>1, <1>2
  <2>5. QED
    BY <2>3, <2>4
<1>4. QED
  BY <1>3

LEMMA FitsIs ==
  ASSUME IsFile(host.toysfs), FatFits
  PROVE  FitsIn(host.toysfs, Clusters(host.toysfs.size))
<1>1. PICK c \in Nat \ {0} : c = CLUSTER_SIZE
  BY SectorSizes
<1>2. PICK size : size = host.toysfs.size
  OBVIOUS
<1>3. size \in Nat /\ size % c = 0 /\ 4 + 1 + Clusters(size) <= NIBBLES \div 3
  BY <1>1, <1>2 DEF IsFile, FatFits, NUM_BOOT_LOADER_CLUSTERS
<1>4. PICK q : q = size \div c
  OBVIOUS
<1>5. q \in Nat /\ size = q * c
  <2>1. size \div c \in Nat /\ size = (size % c) + (size \div c) * c
    BY <1>3, DivMod
  <2>2. QED
    BY <1>3, <1>4, <2>1
<1>6. PICK x : x = c - 1
  OBVIOUS
<1>7. x \in 0 .. c - 1 /\ size + c - 1 = x + q * c
  <2>1. PICK r \in Nat : r = q * c
    BY <1>3, <1>5
  <2>2. size = r /\ x \in 0 .. c - 1
    BY <1>5, <1>6, <2>1
  <2>3. size + c - 1 = x + r
    BY <1>6, <2>1, <2>2
  <2>4. QED
    BY <2>1, <2>2, <2>3
<1>8. (x + q * c) \div c = q
  BY <1>5, <1>7, DivModUnique
<1>9. Clusters(size) = q
  BY <1>1, <1>7, <1>8 DEF Clusters
<1>10. QED
  BY <1>1, <1>2, <1>3, <1>5, <1>9, SectorSizes DEF FitsIn

LEMMA BootLoaderFound ==
  ASSUME NEW p, NEW efi, NEW volume, HasTable(p, efi, volume), Clusters(efi.size) = 1, IsFile(efi),
         NEW n, FitsIn(volume, n), Len(efi.sectors) \in 1 .. 4,
         \A j \in 1 .. Len(efi.sectors) : p[12 + j] = efi.sectors[j],
         NEW entry, entry.first_cluster = 4, entry.file_size = efi.size
  PROVE  IsFileOf(p, entry, efi)
<1>1. n \in Nat
  BY DEF FitsIn
<1>2. ASSUME NEW k \in 0 .. 1 - 1
      PROVE  /\ IsCluster(p, 4 + k)
             /\ NextCluster(p, 4 + k) = IF k = 1 - 1 THEN END ELSE 4 + (k + 1)
  <2>1. k = 0 /\ 4 \in 4 .. 4 + n
    BY <1>1
  <2>2. IsCluster(p, 4) /\ NextCluster(p, 4) = EntryOf(4, n)
    BY <2>1, IsClusterIf, NextClusterIs
  <2>3. EntryOf(4, n) = END
    BY DEF EntryOf
  <2>4. QED
    BY <2>1, <2>2, <2>3
<1>3. ASSUME NEW i \in 1 .. Len(efi.sectors)
      PROVE  p[SectorOf(p, 4 + ((i - 1) \div 4), (i - 1) % 4)] = efi.sectors[i]
  <2>1. i \in 1 .. 4
    <3>1. PICK l \in 1 .. 4 : l = Len(efi.sectors)
      OBVIOUS
    <3>2. i \in 1 .. l
      BY <3>1
    <3>3. QED
      BY <3>2
  <2>2. (i - 1) \div 4 = 0 /\ (i - 1) % 4 = i - 1
    BY <2>1
  <2>3. SectorOf(p, 4, i - 1) = 4 + (4 - 2) * 4 + (i - 1) + 1
    BY BootIs
  <2>4. 4 + (4 - 2) * 4 + (i - 1) + 1 = 12 + i
    BY <2>1
  <2>5. 4 + 0 = 4
    OBVIOUS
  <2>6. QED
    BY <2>2, <2>3, <2>4, <2>5
<1>4. IsSeq(efi.sectors) /\ Len(efi.sectors) <= 4 * 1
  BY DEF IsFile
<1>5. QED
  BY <1>2, <1>3, <1>4, ChainOf

LEMMA VolumeFound ==
  ASSUME NEW p, NEW efi, NEW volume, HasTable(p, efi, volume), Clusters(efi.size) = 1, IsFile(volume),
         NEW n, FitsIn(volume, n),
         \A b \in DOMAIN volume.sectors : p[16 + b] = volume.sectors[b],
         NEW entry, entry.first_cluster = 5, entry.file_size = volume.size
  PROVE  IsFileOf(p, entry, volume)
<1>1. n \in Nat /\ n = Clusters(volume.size) /\ volume.size = n * CLUSTER_SIZE
  BY DEF FitsIn
<1>2. PICK s : s = volume.sectors
  OBVIOUS
<1>3. IsSeq(s) /\ Len(s) = 4 * n /\ DOMAIN s = 1 .. 4 * n
  BY <1>2, SectorsFit, SeqIs DEF IsFile
<1>4. volume.size > 0 => n > 0
  <2>1. PICK c \in Nat : c = CLUSTER_SIZE
    BY SectorSizes
  <2>2. n = 0 => n * c = 0
    OBVIOUS
  <2>3. QED
    BY <1>1, <2>1, <2>2
<1>5. ASSUME NEW k \in 0 .. n - 1
      PROVE  /\ IsCluster(p, 5 + k)
             /\ NextCluster(p, 5 + k) = IF k = n - 1 THEN END ELSE 5 + (k + 1)
  <2>1. PICK c : c = 5 + k
    OBVIOUS
  <2>2. c \in 4 .. 4 + n
    BY <1>1, <2>1
  <2>3. IsCluster(p, c) /\ NextCluster(p, c) = EntryOf(c, n)
    BY <2>2, IsClusterIf, NextClusterIs
  <2>4. c # 4 /\ (c = 4 + n <=> k = n - 1) /\ c + 1 = 5 + (k + 1)
    BY <1>1, <2>1
  <2>5. EntryOf(c, n) = IF k = n - 1 THEN END ELSE 5 + (k + 1)
    BY <2>4 DEF EntryOf
  <2>6. QED
    BY <2>1, <2>3, <2>5
<1>6. ASSUME NEW i \in 1 .. Len(s)
      PROVE  p[SectorOf(p, 5 + ((i - 1) \div 4), (i - 1) % 4)] = s[i]
  <2>1. PICK q, r : q = (i - 1) \div 4 /\ r = (i - 1) % 4
    OBVIOUS
  <2>2. i \in Nat \ {0} /\ q \in Nat /\ r \in 0 .. 3 /\ i - 1 = 4 * q + r
    BY <1>1, <1>3, <2>1
  <2>3. SectorOf(p, 5 + q, r) = 4 + ((5 + q) - 2) * 4 + r + 1
    BY BootIs
  <2>4. 4 + ((5 + q) - 2) * 4 + r + 1 = 16 + i
    BY <2>2
  <2>5. p[16 + i] = s[i]
    BY <1>2, <1>3
  <2>6. QED
    BY <2>1, <2>3, <2>4, <2>5
<1>7. Len(s) <= 4 * n
  <2>1. PICK m \in Nat : m = 4 * n
    BY <1>1
  <2>2. m <= m
    BY <2>1
  <2>3. QED
    BY <1>3, <2>1, <2>2
<1>8. QED
  BY <1>1, <1>2, <1>3, <1>4, <1>5, <1>6, <1>7, ChainOf

\* The firmware finds both files.
LEMMA FilesFound ==
  ASSUME NEW v, InPartition(v), NEW p, p = host.fatfs.sectors, FatFits
  PROVE  /\ IsFileOf(p, BootEntry(p), host.efi)
         /\ IsFileOf(p, EntryNamed(Root(p), "TOYSFS"), host.toysfs)
<1>1. PICK n : n = Clusters(host.toysfs.size)
  OBVIOUS
<1>2. /\ IsFile(host.efi) /\ IsFile(host.toysfs) /\ v = host.toysfs.sectors
      /\ FitsIn(host.toysfs, n)
  BY <1>1, FitsIs DEF InPartition
<1>3. /\ HasTable(p, host.efi, host.toysfs) /\ Clusters(host.efi.size) = 1
      /\ \A b \in DOMAIN v : p[16 + b] = v[b]
      /\ Len(host.efi.sectors) \in 1 .. 4
      /\ \A j \in 1 .. Len(host.efi.sectors) : p[12 + j] = host.efi.sectors[j]
  BY PartitionIs
<1>4. PICK r : r = <<Entry("EFI", 2, 0), Entry("TOYSFS", 4 + NUM_BOOT_LOADER_CLUSTERS, host.toysfs.size)>>
  OBVIOUS
<1>5. PICK d : d = <<Entry(".", 2, 0), Entry("..", 0, 0), Entry("BOOT", 3, 0)>>
  OBVIOUS
<1>6. PICK b : b = <<Entry(".", 3, 0), Entry("..", 2, 0), Entry("BOOTX64 EFI", 4, host.efi.size)>>
  OBVIOUS
<1>7. p[4] = <<"directory", r>> /\ p[5] = <<"directory", d>> /\ p[9] = <<"directory", b>>
  <2>1. \A w \in PartitionWords(host.efi, host.toysfs) : w[1] < NIBBLES
    BY <1>2, <1>3, WordsFit
  <2>2. p[4] = <<"directory", r>>
    BY <1>4, <2>1, PartitionIs
  <2>3. p[5] = <<"directory", d>>
    BY <1>5, PartitionIs
  <2>4. p[9] = <<"directory", b>>
    BY <1>6, PartitionIs
  <2>5. QED
    BY <2>2, <2>3, <2>4
<1>8. p[4][2] = r /\ p[5][2] = d /\ p[9][2] = b
  BY <1>7
<1>9. FirstData(p) = 4 /\ SectorOf(p, 2, 0) = 5 /\ SectorOf(p, 3, 0) = 9
  BY <1>3, BootIs
<1>10. Root(p) = r
  BY <1>8, <1>9 DEF Root
<1>11. /\ EntryNamed(r, "EFI").first_cluster = 2
       /\ EntryNamed(r, "TOYSFS").first_cluster = 5
       /\ EntryNamed(r, "TOYSFS").file_size = host.toysfs.size
  BY <1>4, RootNames
<1>12. PICK e : e = EntryNamed(r, "EFI")
  OBVIOUS
<1>13. DirectoryAt(p, e) = d
  BY <1>8, <1>9, <1>11, <1>12 DEF DirectoryAt
<1>14. PICK f : f = EntryNamed(d, "BOOT")
  OBVIOUS
<1>15. f.first_cluster = 3
  BY <1>5, <1>14, ThirdName
<1>16. DirectoryAt(p, f) = b
  BY <1>8, <1>9, <1>15 DEF DirectoryAt
<1>17. PICK g : g = EntryNamed(b, "BOOTX64 EFI")
  OBVIOUS
<1>18. g.first_cluster = 4 /\ g.file_size = host.efi.size
  <2>1. PICK z : z = host.efi.size
    OBVIOUS
  <2>2. PICK name : name = "BOOTX64 EFI"
    OBVIOUS
  <2>3. name \notin {".", ".."}
    BY <2>2
  <2>4. b = <<Entry(".", 3, 0), Entry("..", 2, 0), Entry(name, 4, z)>> /\ g = EntryNamed(b, name)
    BY <1>6, <1>17, <2>1, <2>2
  <2>5. g.first_cluster = 4 /\ g.file_size = z
    BY <2>3, <2>4, ThirdName
  <2>6. QED
    BY <2>1, <2>5
<1>19. BootEntry(p) = g
  BY <1>10, <1>12, <1>13, <1>14, <1>16, <1>17, Zenon DEF BootEntry
<1>20. IsFileOf(p, g, host.efi)
  BY <1>2, <1>3, <1>18, BootLoaderFound
<1>21. PICK t : t = EntryNamed(r, "TOYSFS")
  OBVIOUS
<1>22. IsFileOf(p, t, host.toysfs)
  BY <1>2, <1>3, <1>11, <1>21, VolumeFound
<1>23. QED
  BY <1>10, <1>19, <1>20, <1>21, <1>22

\* The firmware runs the code of the boot loader from its first byte.
LEMMA EntryCodeIs ==
  ASSUME NEW size
  PROVE  EntryCode(EfiOutput(size)) = Code(size)
<1>1. PICK s \in Nat \ {0} : s = SECTOR_SIZE
  BY SectorSizes
<1>2. PICK o : o = EfiOutput(size)
  OBVIOUS
<1>3. PICK h : h = EFI_HEADER
  OBVIOUS
<1>4. PICK c : c = Code(size)
  OBVIOUS
<1>5. /\ o[1] = <<"efi", h>>
      /\ \A k \in 1 .. 3 : o[1 + k] = <<"code", SubSeq(c, (k - 1) * s + 1, k * s)>>
  BY <1>1, <1>2, <1>3, <1>4, EfiSectors DEF CODE_SECTORS
<1>6. o[1][2] = h
  BY <1>5
<1>7. h.address_of_entry_point = 4096 /\ h.virtual_address = 4096 /\ h.pointer_to_raw_data = s
      /\ h.size_of_raw_data = 3 * s
  BY <1>1, <1>3 DEF EFI_HEADER, CODE_SECTORS
<1>8. c \in Seq(Nat) /\ Len(c) = 3 * s /\ DOMAIN c = 1 .. 3 * s /\ c = [i \in 1 .. 3 * s |-> c[i]]
  <2>1. PICK n \in Nat : n = 3 * s
    OBVIOUS
  <2>2. c = [i \in 1 .. n |-> IF i <= size THEN i ELSE 0]
    BY <1>1, <1>4, <2>1 DEF Code, CODE_SECTORS
  <2>3. c \in [1 .. n -> Nat]
    BY <2>2
  <2>4. QED
    BY <2>1, <2>3
<1>9. PICK first : first = h.pointer_to_raw_data + h.address_of_entry_point - h.virtual_address
  OBVIOUS
<1>10. first = s
  BY <1>1, <1>7, <1>9
<1> DEFINE cell(i) == o[(i \div SECTOR_SIZE) + 1][2][(i % SECTOR_SIZE) + 1]
<1>11. EntryCode(o) = [i \in 1 .. 3 * s |-> cell(first + i - 1)]
  BY <1>6, <1>7, <1>9 DEF EntryCode
<1>12. ASSUME NEW i \in 1 .. 3 * s
       PROVE  cell(first + i - 1) = c[i]
  <2>1. PICK x : x = i - 1
    OBVIOUS
  <2>2. x \in Nat /\ x < s * 3
    BY <2>1
  <2>3. PICK q, r : q = x \div s /\ r = x % s
    OBVIOUS
  <2>4. q \in Nat /\ r \in 0 .. s - 1 /\ x = r + q * s /\ q < 3
    BY <2>2, <2>3, DivMod, DivBelow
  <2>5. q = 0 \/ q = 1 \/ q = 2
    BY <2>4
  <2>6. first + i - 1 = r + (q + 1) * s
    BY <1>10, <2>1, <2>4, <2>5
  <2>7. (r + (q + 1) * s) % s = r /\ (r + (q + 1) * s) \div s = q + 1
    BY <2>4, DivModUnique
  <2>8. cell(first + i - 1) = o[(q + 1) + 1][2][r + 1]
    BY <1>1, <2>6, <2>7
  <2>9. PICK k \in 1 .. 3 : k = q + 1
    BY <2>5
  <2>10. PICK t : t = SubSeq(c, (k - 1) * s + 1, k * s)
    OBVIOUS
  <2>11. o[1 + k] = <<"code", t>>
    BY <1>5, <2>10
  <2>12. o[1 + k][2] = t
    BY <2>11
  <2>13. PICK a, b : a = (k - 1) * s + 1 /\ b = k * s
    OBVIOUS
  <2>14. a \in Nat /\ b \in Nat /\ 1 <= a /\ b <= 3 * s /\ b - a + 1 = s /\ a + (r + 1) - 1 = i
    BY <2>1, <2>4, <2>5, <2>9, <2>13
  <2>15. r + 1 \in 1 .. s
    BY <2>4
  <2>16. t = SubSeq(c, a, b)
    BY <2>10, <2>13
  <2>17. t[r + 1] = c[a + (r + 1) - 1]
    <3>1. PICK m \in Nat : m = 3 * s
      BY <1>1
    <3>2. c \in Seq(Nat) /\ Len(c) = m /\ a \in Nat /\ b \in Nat /\ 1 <= a /\ b <= m
      BY <1>8, <2>14, <3>1
    <3>3. \A j \in 1 .. b - a + 1 : t[j] = c[a + j - 1]
      BY <2>16, <3>2
    <3>4. QED
      BY <2>14, <2>15, <3>3
  <2>18. QED
    BY <2>8, <2>9, <2>12, <2>14, <2>17
<1> HIDE DEF cell
<1>13. EntryCode(o) = [i \in 1 .. 3 * s |-> c[i]]
  BY <1>11, <1>12
<1>14. QED
  BY <1>2, <1>4, <1>8, <1>13

LEMMA MadeIs ==
  ASSUME NEW v, InPartition(v), NEW p, p = host.fatfs.sectors, Made
  PROVE  /\ \E size \in CodeSizes : EntryCode(host.efi.sectors) = Code(size)
         /\ \A s \in 13 .. 15 : p[s + 1] = host.efi.sectors[s - 11]
<1>1. PICK size \in CodeSizes : host.efi = File(EfiOutput(size))
  BY DEF InPartition, IsBootEfi
<1>2. PICK o : o = EfiOutput(size)
  OBVIOUS
<1>3. IsSeq(o) /\ Len(o) = 4
  BY <1>2, EfiSectors
<1>4. host.efi.sectors = o
  BY <1>1, <1>2, <1>3, FileIs
<1>5. \A j \in 1 .. 4 : p[12 + j] = o[j]
  BY <1>3, <1>4, PartitionIs
<1>6. ASSUME NEW s \in 13 .. 15
      PROVE  p[s + 1] = o[s - 11]
  <2>1. PICK j : j = s - 11
    OBVIOUS
  <2>2. j \in 1 .. 4 /\ 12 + j = s + 1
    BY <2>1
  <2>3. QED
    BY <1>5, <2>1, <2>2
<1>7. QED
  BY <1>2, <1>4, <1>6, EntryCodeIs

(***************************************************************************)
(* The firmware, the boot loader and the kernel find what they look for on *)
(* the disk, each in its way.                                              *)
(***************************************************************************)
THEOREM DiskBootsAlways == ImagesSpec => []DiskBoots
<1>1. ASSUME HostRight
      PROVE  DiskBoots
  <2>1. SUFFICES ASSUME Succeeded("maketoysimg")
                 PROVE  /\ ValidHeader(1)
                        /\ FatFits => /\ IsFileOf(Partition(1), BootEntry(Partition(1)), host.efi)
                                      /\ IsFileOf(Partition(1), EntryNamed(Root(Partition(1)), "TOYSFS"),
                                                  host.toysfs)
                        /\ Len(Partition(1)) = FIRST_LOGICAL_BLOCK_ADDRESS + Len(host.toysfs.sectors)
                        /\ \A b \in DOMAIN host.toysfs.sectors :
                             Partition(1)[FIRST_LOGICAL_BLOCK_ADDRESS + b] = host.toysfs.sectors[b]
                        /\ Made => /\ \E size \in CodeSizes : EntryCode(host.efi.sectors) = Code(size)
                                   /\ \A s \in 13 .. 15 : Partition(1)[s + 1] = host.efi.sectors[s - 11]
    BY Zenon DEF DiskBoots
  <2>2. PICK n, l : InImage(n, l)
    BY <1>1, <2>1, DiskIs
  <2>3. PICK v : InPartition(v)
    BY <1>1, <2>1, DiskIs
  <2>4. PICK p : p = Partition(1)
    OBVIOUS
  <2>5. ValidHeader(1) /\ p = host.fatfs.sectors
    BY <2>2, <2>4, FirstHeader
  <2>6. FatFits => IsFileOf(p, BootEntry(p), host.efi) /\ IsFileOf(p, EntryNamed(Root(p), "TOYSFS"), host.toysfs)
    BY <2>3, <2>5, FilesFound
  <2>7. v = host.toysfs.sectors
    BY <2>3 DEF InPartition
  <2>8. Len(p) = 16 + Len(v) /\ \A b \in DOMAIN v : p[16 + b] = v[b]
    BY <2>3, <2>5, PartitionIs
  <2>9. Made => /\ \E size \in CodeSizes : EntryCode(host.efi.sectors) = Code(size)
                /\ \A s \in 13 .. 15 : p[s + 1] = host.efi.sectors[s - 11]
    BY <2>3, <2>5, MadeIs
  <2>10. QED
    BY <2>4, <2>5, <2>6, <2>7, <2>8, <2>9, Zenon DEF FIRST_LOGICAL_BLOCK_ADDRESS
<1>2. ImagesSpec => ImagesInit /\ [][ImagesNext]_all
  BY PTL DEF ImagesSpec
<1>3. QED
  BY <1>1, <1>2, HostInit, HostKeeps, PTL

-----------------------------------------------------------------------------
(***************************************************************************)
(* The boot loader (Boot).  It reads the disk that a call left at any      *)
(* point, and it follows next_block and next_file with no other test than  *)
(* that of the last block.                                                 *)
(*                                                                         *)
(* At any point, the blocks along next_block end, from any block: those of *)
(* a file whose call was interrupted may go on with the free blocks.       *)
(***************************************************************************)
HasPath(d, b) == \E g, m : IsPath(d, b, g, m)

\* A block with no next one is a path.
LEMMA PathOfOne ==
  ASSUME NEW d, NEW b \in FileIds, Link(d)[b] = 0
  PROVE  HasPath(d, b)
<1> DEFINE g == [k \in 0 .. 0 |-> b]
<1>1. g \in [0 .. 0 -> FileIds] /\ g[0] = b
  OBVIOUS
<1> HIDE DEF g
<1>2. IsPath(d, b, g, 0)
  BY <1>1 DEF IsPath
<1>3. QED
  BY <1>2 DEF HasPath

\* A block before a path.
LEMMA PathBefore ==
  ASSUME NEW d, NEW b \in FileIds, HasPath(d, Link(d)[b])
  PROVE  HasPath(d, b)
<1> DEFINE s == Link(d)
<1>1. PICK h, m : IsPath(d, s[b], h, m)
  BY DEF HasPath
<1>2. /\ m \in Nat /\ h \in [0 .. m -> FileIds] /\ h[0] = s[b]
      /\ \A k \in 1 .. m : h[k] = s[h[k - 1]]
      /\ s[h[m]] = 0
  BY <1>1 DEF IsPath
<1> HIDE DEF s
<1> DEFINE g == [k \in 0 .. m + 1 |-> IF k = 0 THEN b ELSE h[k - 1]]
<1>3. g \in [0 .. m + 1 -> FileIds] /\ g[0] = b
  BY <1>2
<1>4. \A k \in 1 .. m + 1 : g[k] = h[k - 1]
  BY <1>2
<1>5. \A k \in 1 .. m + 1 : g[k] = s[g[k - 1]]
  <2> TAKE k \in 1 .. m + 1
  <2>1. CASE k = 1
    BY <1>2, <1>3, <1>4, <2>1
  <2>2. CASE k # 1
    <3>1. k - 1 \in 1 .. m + 1 /\ k - 1 \in 1 .. m
      BY <1>2, <2>2
    <3>2. g[k - 1] = h[(k - 1) - 1] /\ h[k - 1] = s[h[(k - 1) - 1]] /\ g[k] = h[k - 1]
      BY <1>2, <1>4, <3>1
    <3>3. QED
      BY <3>2
  <2>3. QED
    BY <2>1, <2>2
<1>6. s[g[m + 1]] = 0 /\ m + 1 \in Nat
  BY <1>2, <1>4
<1> HIDE DEF g
<1>7. IsPath(d, b, g, m + 1)
  BY <1>3, <1>5, <1>6 DEF IsPath, s
<1>8. QED
  BY <1>7 DEF HasPath

\* The blocks of a list, whose last ones may go on along other paths.
LEMMA ListEnds ==
  ASSUME NEW d, NEW s \in [FileIds -> Blocks], NEW a \in Blocks, NEW S \in SUBSET FileIds,
         Links(s, a, S),
         \A b \in S : \/ Link(d)[b] = s[b]
                      \/ s[b] = 0 /\ (Link(d)[b] = 0 \/ HasPath(d, Link(d)[b]))
  PROVE  \A b \in S : HasPath(d, b)
<1>1. PICK g : IsWalk(g, a, s)
  BY WalkExists
<1>2. Members(g) = S /\ g[NumBlocks] = 0
  BY <1>1, WalkOfList DEF Ends
<1>3. /\ g \in [0 .. NumBlocks -> Blocks] /\ NumBlocks \in Nat /\ 0 \notin FileIds
      /\ \A k \in 1 .. NumBlocks : g[k] = IF g[k - 1] = 0 THEN 0 ELSE s[g[k - 1]]
  BY <1>1, BlockSets DEF IsWalk
<1>4. \A k \in 0 .. NumBlocks : g[k] # 0 => g[k] \in S
  BY <1>2, <1>3 DEF Members
<1> DEFINE T == {j \in 0 .. NumBlocks : g[NumBlocks - j] # 0 => HasPath(d, g[NumBlocks - j])}
<1>5. 0 \in T
  BY <1>2, <1>3
<1>6. ASSUME NEW j \in 0 .. NumBlocks - 1, j \in T PROVE j + 1 \in T
  <2>1. PICK k : k = NumBlocks - (j + 1)
    OBVIOUS
  <2>2. /\ k \in 0 .. NumBlocks /\ k + 1 \in 1 .. NumBlocks /\ NumBlocks - j = k + 1
        /\ j + 1 \in 0 .. NumBlocks /\ (k + 1) - 1 = k
    BY <1>3, <2>1
  <2>3. g[k + 1] # 0 => HasPath(d, g[k + 1])
    BY <1>6, <2>2
  <2>4. g[k + 1] = IF g[k] = 0 THEN 0 ELSE s[g[k]]
    BY <1>3, <2>2
  <2>5. ASSUME g[k] # 0 PROVE HasPath(d, g[k])
    <3>1. PICK b : b = g[k]
      OBVIOUS
    <3>2. b \in S /\ b \in FileIds /\ g[k + 1] = s[b]
      BY <1>4, <2>2, <2>4, <2>5, <3>1
    <3>3. Link(d)[b] = 0 \/ HasPath(d, Link(d)[b])
      BY <2>3, <3>2
    <3>4. HasPath(d, b)
      BY <3>2, <3>3, PathOfOne, PathBefore
    <3>5. QED
      BY <3>1, <3>4
  <2>6. QED
    BY <2>1, <2>2, <2>5
<1>7. \A j \in 0 .. NumBlocks : j \in T
  <2> HIDE DEF T
  <2>1. 0 \in Int /\ NumBlocks \in Int
    BY <1>3
  <2>2. QED
    BY <1>5, <1>6, <2>1, IntervalInduction, Zenon
<1>8. ASSUME NEW b \in S PROVE HasPath(d, b)
  <2>1. PICK k \in 0 .. NumBlocks : g[k] = b
    BY <1>2, <1>3 DEF Members
  <2>2. NumBlocks - k \in 0 .. NumBlocks /\ NumBlocks - (NumBlocks - k) = k /\ b # 0
    BY <1>3
  <2>3. QED
    BY <1>7, <2>1, <2>2
<1>9. QED
  BY <1>8

\* The next block may be the first free one where the layout has none.
LEMMA LayoutEnds ==
  ASSUME NEW d, NEW own, NEW s \in [FileIds -> Blocks], NEW M \in SUBSET FileIds, NEW h \in Blocks,
         Layout(own, s, M, h),
         \A b \in FileIds : \/ Link(d)[b] = s[b]
                            \/ own[b] # 0 /\ s[b] = 0 /\ Link(d)[b] \in {0, h}
  PROVE  \A b \in FileIds : HasPath(d, b)
<1>1. /\ own \in [FileIds -> M \cup {0}] /\ Links(s, h, Own(own, 0))
      /\ \A f \in M : Links(s, f, Own(own, f))
  BY DEF Layout
<1>2. \A f : Own(own, f) \in SUBSET FileIds
  BY DEF Own
<1>3. \A b \in Own(own, 0) : HasPath(d, b)
  <2>1. \A b \in Own(own, 0) : Link(d)[b] = s[b]
    BY DEF Own
  <2>2. QED
    BY <1>1, <1>2, <2>1, ListEnds
<1>4. h = 0 \/ HasPath(d, h)
  <2>1. h # 0 => h \in FileIds /\ own[h] = 0
    BY HeadFacts
  <2>2. h # 0 => h \in Own(own, 0)
    BY <2>1 DEF Own
  <2>3. QED
    BY <1>3, <2>2
<1>5. ASSUME NEW f \in M PROVE \A b \in Own(own, f) : HasPath(d, b)
  <2>1. \A b \in Own(own, f) : b \in FileIds
    BY DEF Own
  <2>2. \A b \in Own(own, f) : \/ Link(d)[b] = s[b]
                               \/ s[b] = 0 /\ (Link(d)[b] = 0 \/ HasPath(d, Link(d)[b]))
    BY <1>4, <2>1
  <2>3. f \in Blocks /\ Links(s, f, Own(own, f)) /\ Own(own, f) \in SUBSET FileIds
    BY <1>1, <1>2, BlockSets
  <2>4. QED
    BY <2>2, <2>3, ListEnds
<1>6. ASSUME NEW b \in FileIds PROVE HasPath(d, b)
  <2>1. PICK f : f = own[b]
    OBVIOUS
  <2>2. b \in Own(own, f) /\ f \in M \cup {0}
    BY <1>1, <2>1 DEF Own
  <2>3. QED
    BY <1>3, <1>5, <2>2
<1>7. QED
  BY <1>6

LEMMA DiskEnds ==
  ASSUME NEW L, NEW own, BlockInvariantOf(L, own)
  PROVE  \A b \in FileIds : HasPath(disk, b)
<1> DEFINE s == Link(disk)
<1>1. /\ L \in SUBSET FileIds /\ DiskOK(disk, L) /\ pc \in Steps /\ s \in [FileIds -> Blocks]
      /\ FreeHead(disk) \in Blocks
  BY InvariantFacts, DiskLinks
<1>2. ASSUME NEW M \in SUBSET FileIds, NEW h \in Blocks, Layout(own, s, M, h)
      PROVE  \A b \in FileIds : HasPath(disk, b)
  BY <1>1, <1>2, LayoutEnds
<1>3. ASSUME NEW w \in FileIds, NEW h \in Blocks, Layout(own, Cut(s, w), L, h), s[w] \in {0, h},
             own[w] # 0
      PROVE  \A b \in FileIds : HasPath(disk, b)
  <2>1. PICK t : t = Cut(s, w)
    OBVIOUS
  <2>2. t \in [FileIds -> Blocks] /\ t[w] = 0 /\ \A b \in FileIds : b # w => t[b] = s[b]
    BY <1>1, <2>1, BlockSets DEF Cut
  <2>3. \A b \in FileIds : \/ s[b] = t[b]
                           \/ own[b] # 0 /\ t[b] = 0 /\ s[b] \in {0, h}
    BY <1>3, <2>2
  <2>4. QED
    BY <1>1, <1>3, <2>1, <2>2, <2>3, LayoutEnds
<1> HIDE DEF s
<1>4. CASE pc \in {"idle", "done", "find", "found", "size", "read", "scan", "link", "fill", "free"}
  <2>1. Layout(own, s, L, FreeHead(disk))
    BY <1>4 DEF BlockInvariantOf, Whole, AtFind, AtFound, AtQuery, AtScan, AtLink, AtFill, AtFree, s
  <2>2. QED
    BY <1>1, <1>2, <2>1
<1>5. CASE pc = "publish"
  <2>1. Layout(own, s, L \cup {call.newFile}, call.newFree) /\ call.newFile \in FileIds
        /\ call.newFree \in Blocks
    BY <1>5 DEF BlockInvariantOf, AtPublish, NewBlock, s
  <2>2. QED
    BY <1>1, <1>2, <2>1
<1>6. CASE pc = "commit"
  <2>1. Layout(own, s, L, call.newFree) /\ call.newFree \in Blocks
    BY <1>6 DEF BlockInvariantOf, AtCommit, s
  <2>2. QED
    BY <1>1, <1>2, <2>1
<1>7. CASE pc \in {"unlink", "deleted"}
  <2>1. Layout(own, s, L \ {call.file}, call.file) /\ call.file \in L
    BY <1>7 DEF BlockInvariantOf, AtUnlink, AtDeleted, Closed, s
  <2>2. call.file \in Blocks
    BY <1>1, <2>1, BlockSets
  <2>3. QED
    BY <1>1, <1>2, <2>1, <2>2
<1>8. CASE pc = "write"
  <2>1. /\ Layout(own, Cut(s, writer[call.file]), L, call.newFree)
        /\ s[writer[call.file]] \in {0, call.newFree} /\ call.newFree \in Blocks
        /\ writer[call.file] \in FileIds /\ own[writer[call.file]] = call.file /\ call.file # 0
    BY <1>8, WriteFacts, BlockSets DEF s
  <2>2. QED
    BY <1>3, <2>1
<1>9. CASE pc = "freed"
  <2>1. /\ Layout(own, Cut(s, call.file), L, call.newFree) /\ call.file \in L
        /\ s[call.file] \in {0, call.newFree} /\ call.newFree \in FileIds
    BY <1>9 DEF BlockInvariantOf, AtFreed, Closed, s
  <2>2. PICK t : t = Cut(s, call.file)
    OBVIOUS
  <2>3. own[call.file] = call.file
    BY <1>1, <2>1, <2>2, FirstBlocks
  <2>4. own[call.file] # 0 /\ call.file \in FileIds /\ call.newFree \in Blocks
    BY <1>1, <2>1, <2>3, BlockSets
  <2>5. QED
    BY <1>3, <2>1, <2>4
<1>10. CASE pc = "clear"
  <2>1. /\ Layout(own, Cut(s, call.file), L, FreeHead(disk)) /\ call.file \in L
        /\ s[call.file] \in {0, FreeHead(disk)}
    BY <1>10 DEF BlockInvariantOf, AtClear, Closed, s
  <2>2. PICK t : t = Cut(s, call.file)
    OBVIOUS
  <2>3. own[call.file] = call.file
    BY <1>1, <2>1, <2>2, FirstBlocks
  <2>4. own[call.file] # 0 /\ call.file \in FileIds
    BY <1>1, <2>1, <2>3, BlockSets
  <2>5. QED
    BY <1>1, <1>3, <2>1, <2>4
<1>11. QED
  BY <1>1, <1>4, <1>5, <1>6, <1>7, <1>8, <1>9, <1>10 DEF Steps

-----------------------------------------------------------------------------
\* A walk that does not end comes back to a block.
LEMMA WalkComesBack ==
  ASSUME NEW g, NEW a, NEW s, IsWalk(g, a, s), g[NumBlocks] # 0
  PROVE  \E k \in 0 .. NumBlocks - 1 : g[k] = g[NumBlocks]
<1>1. /\ g \in [0 .. NumBlocks -> Blocks] /\ NumBlocks \in Nat /\ NumBlocks > 0
      /\ \A k \in 1 .. NumBlocks : g[k] = IF g[k - 1] = 0 THEN 0 ELSE s[g[k - 1]]
      /\ Blocks = FileIds \cup {0} /\ Blocks = 0 .. NumBlocks - 1 /\ 0 \notin FileIds
  BY BlockSets DEF IsWalk
<1>2. \A k \in 0 .. NumBlocks : g[k] # 0
  <2> DEFINE T == {j \in 0 .. NumBlocks : g[NumBlocks - j] # 0}
  <2>1. 0 \in T
    BY <1>1
  <2>2. ASSUME NEW j \in 0 .. NumBlocks - 1, j \in T PROVE j + 1 \in T
    <3>1. PICK k : k = NumBlocks - (j + 1)
      OBVIOUS
    <3>2. /\ k + 1 \in 1 .. NumBlocks /\ NumBlocks - j = k + 1
          /\ j + 1 \in 0 .. NumBlocks /\ (k + 1) - 1 = k
      BY <1>1, <3>1
    <3>3. g[k + 1] = IF g[k] = 0 THEN 0 ELSE s[g[k]]
      BY <1>1, <3>2
    <3>4. QED
      BY <2>2, <3>1, <3>2, <3>3
  <2>3. \A j \in 0 .. NumBlocks : j \in T
    <3> HIDE DEF T
    <3>1. 0 \in Int /\ NumBlocks \in Int
      BY <1>1
    <3>2. QED
      BY <2>1, <2>2, <3>1, IntervalInduction, Zenon
  <2>4. ASSUME NEW k \in 0 .. NumBlocks PROVE g[k] # 0
    <3>1. NumBlocks - k \in 0 .. NumBlocks /\ NumBlocks - (NumBlocks - k) = k
      BY <1>1
    <3>2. QED
      BY <2>3, <3>1
  <2>5. QED
    BY <2>4
<1>3. PICK i \in 0 .. NumBlocks, j \in 0 .. NumBlocks : i # j /\ g[i] = g[j]
  <2>1. IsFiniteSet(0 .. NumBlocks) /\ Cardinality(0 .. NumBlocks) = NumBlocks + 1
    BY <1>1, FS_Interval
  <2>2. IsFiniteSet(Blocks) /\ Cardinality(Blocks) = NumBlocks
    <3>1. NumBlocks - 1 \in Int /\ 0 \in Int
      BY <1>1
    <3>2. IsFiniteSet(0 .. NumBlocks - 1)
          /\ Cardinality(0 .. NumBlocks - 1) = IF 0 > NumBlocks - 1 THEN 0 ELSE NumBlocks - 1 - 0 + 1
      BY <3>1, FS_Interval
    <3>3. Blocks = 0 .. NumBlocks - 1
      BY BlockSets
    <3>4. Cardinality(0 .. NumBlocks - 1) = NumBlocks
      BY <1>1, <3>2
    <3>5. QED
      BY <3>2, <3>3, <3>4
  <2>3. Cardinality(Blocks) < Cardinality(0 .. NumBlocks)
    BY <1>1, <2>1, <2>2
  <2>4. SUFFICES ASSUME \A i, j \in 0 .. NumBlocks : i # j => g[i] # g[j] PROVE FALSE
    OBVIOUS
  <2>5. g \in [0 .. NumBlocks -> Blocks]
    BY <1>1
  <2>6. QED
    BY <2>1, <2>2, <2>3, <2>4, <2>5, NoInjection, Zenon
<1>4. ASSUME NEW p \in 0 .. NumBlocks, NEW q \in 0 .. NumBlocks, p < q, g[p] = g[q]
      PROVE  \E k \in 0 .. NumBlocks - 1 : g[k] = g[NumBlocks]
  <2> DEFINE T == {t \in 0 .. NumBlocks - q : g[p + t] = g[q + t]}
  <2>1. 0 \in T
    BY <1>1, <1>4
  <2>2. ASSUME NEW t \in 0 .. (NumBlocks - q) - 1, t \in T PROVE t + 1 \in T
    <3>1. PICK x, y : x = p + (t + 1) /\ y = q + (t + 1)
      OBVIOUS
    <3>2. /\ x \in 1 .. NumBlocks /\ y \in 1 .. NumBlocks /\ t + 1 \in 0 .. NumBlocks - q
          /\ x - 1 = p + t /\ y - 1 = q + t
      BY <1>1, <1>4, <3>1
    <3>3. g[x - 1] = g[y - 1]
      BY <2>2, <3>2
    <3>4. g[x] = g[y]
      BY <1>1, <3>2, <3>3
    <3>5. QED
      BY <3>1, <3>2, <3>4
  <2>3. \A t \in 0 .. NumBlocks - q : t \in T
    <3> HIDE DEF T
    <3>1. 0 \in Int /\ NumBlocks - q \in Int
      BY <1>1
    <3>2. QED
      BY <2>1, <2>2, <3>1, IntervalInduction, Zenon
  <2>4. PICK t : t = NumBlocks - q
    OBVIOUS
  <2>5. t \in 0 .. NumBlocks - q /\ q + t = NumBlocks /\ p + t \in 0 .. NumBlocks - 1
    BY <1>1, <1>4, <2>4
  <2>6. g[p + t] = g[NumBlocks]
    BY <2>3, <2>5
  <2>7. QED
    BY <2>5, <2>6
<1>5. i < j \/ j < i
  BY <1>1, <1>3
<1>6. QED
  BY <1>3, <1>4, <1>5

\* The file that follows one of the list is in the list.
LEMMA ListedNext ==
  ASSUME NEW d, NEW x, x \in Listed(d) \cup {SUPER_BLOCK}, NextFile(d[x]) \in FileIds
  PROVE  NextFile(d[x]) \in Listed(d)
<1> DEFINE g == FileChain(d)
           s == ValidFile(d)
<1>1. IsWalk(g, Valid(FirstFile(d)), s) /\ Listed(d) = Members(g)
  BY FileChainIsWalk DEF Listed
<1>2. /\ DOMAIN g = 0 .. NumBlocks /\ g \in [0 .. NumBlocks -> Blocks]
      /\ NumBlocks \in Nat /\ NumBlocks > 0
      /\ g[0] = Valid(FirstFile(d)) /\ 0 \notin FileIds
      /\ \A k \in 1 .. NumBlocks : g[k] = IF g[k - 1] = 0 THEN 0 ELSE s[g[k - 1]]
  BY <1>1, BlockSets DEF IsWalk
<1> HIDE DEF g
<1>3. CASE x = SUPER_BLOCK
  <2>1. g[0] = NextFile(d[x]) /\ g[0] # 0 /\ 0 \in 0 .. NumBlocks
    BY <1>2, <1>3 DEF Valid, FirstFile
  <2>2. g[0] \in Members(g)
    BY <1>2, <2>1 DEF Members
  <2>3. QED
    BY <1>1, <2>1, <2>2
<1>4. CASE x \in Listed(d)
  <2>1. PICK i \in 0 .. NumBlocks : g[i] = x
    BY <1>1, <1>2, <1>4 DEF Members
  <2>2. x # 0 /\ x \in FileIds
    <3>1. x # 0
      BY <1>1, <1>4 DEF Members
    <3>2. QED
      BY <1>2, <2>1, <3>1, BlockSets
  <2>3. PICK k \in 0 .. NumBlocks - 1 : g[k] = x
    <3>1. CASE i # NumBlocks
      <4>1. i \in 0 .. NumBlocks - 1
        BY <1>2, <3>1
      <4>2. QED
        BY <2>1, <4>1
    <3>2. CASE i = NumBlocks
      BY <1>1, <2>1, <2>2, <3>2, WalkComesBack
    <3>3. QED
      BY <3>1, <3>2
  <2>4. k + 1 \in 1 .. NumBlocks /\ k + 1 \in 0 .. NumBlocks /\ (k + 1) - 1 = k
    BY <1>2
  <2>5. g[k + 1] = s[x]
    BY <1>2, <2>2, <2>3, <2>4
  <2>6. s[x] = NextFile(d[x])
    BY <2>2 DEF ValidFile, Valid
  <2>7. g[k + 1] \in Members(g)
    BY <1>2, <2>4, <2>5, <2>6 DEF Members
  <2>8. QED
    BY <1>1, <2>5, <2>6, <2>7
<1>5. QED
  BY <1>3, <1>4

-----------------------------------------------------------------------------
(***************************************************************************)
(* What a call keeps up to its end: the files it is not about, and the     *)
(* bytes of the super block that would be a name.                          *)
(***************************************************************************)
EndKept ==
  Resting => \A f \in DOMAIN call.before \ {call.file} : Data(disk, f) = call.before[f].data

SuperHasNoName == Name(disk[SUPER_BLOCK]) = 0

\* A step leaves the data of the files that the call is not about.
LEMMA StepKeepsFile ==
  ASSUME NEW L, NEW own, BlockInvariantOf(L, own), BlockInvariant', StoreFacts, Step, ~ Resting,
         NEW f \in Others(L)
  PROVE  Data(disk', f) = Data(disk, f)
<1>1. PICK M, hold : BlockInvariantOf(M, hold)'
  BY DEF BlockInvariant
<1>2. PICK d, e : d = disk /\ e = disk'
  OBVIOUS
<1>3. L \in SUBSET FileIds /\ DiskOK(d, L) /\ DiskOK(e, M) /\ f \in L /\ f \in FileIds
  BY <1>1, <1>2 DEF BlockInvariantOf, Others
<1>4. PICK S : S = Own(own, f)
  OBVIOUS
<1>5. Links(Link(d), f, S) /\ own[f] = f
  BY <1>2, <1>4, OthersApart DEF Apart
<1>6. S \in SUBSET FileIds /\ f \in S
  BY <1>3, <1>4, <1>5 DEF Own
<1>7. Name(d[f]) \in Names
  BY <1>2, OthersListed
<1>8. Changes(e, own)
  BY <1>2, StepChanges
<1>9. Untouched(d, e, f, S)
  BY <1>2, <1>3, <1>4, <1>5, <1>8, ChangesFrame
<1>10. Name(e[f]) = Name(d[f]) /\ e[f][0] = d[f][0]
  BY <1>9, BlockSets DEF Untouched, Name
<1>11. {f} \in SUBSET FileIds /\ DiskOK(d, {f}) /\ DiskOK(e, {f})
  BY <1>3, <1>10 DEF DiskOK
<1>12. QED
  BY <1>2, <1>5, <1>6, <1>7, <1>9, <1>11, DataFrame

\* A call that ends keeps what it has to remember.
LEMMA CallEnds ==
  ASSUME DOMAIN call = Fields, Step, ~ Resting, Resting'
  PROVE  call'.before = call.before /\ call'.file = call.file
<1>1. ASSUME NEW c, DOMAIN c = Fields, c.before = call.before, c.file = call.file,
             NEW status, Done(status, c)
      PROVE  call'.before = call.before /\ call'.file = call.file
  BY <1>1 DEF Done, Fields
<1>2. pc' = "done" \/ pc' = "idle"
  BY DEF Resting
<1>3. CASE FindFails
  BY <1>1, <1>3 DEF FindFails
<1>4. CASE SizeStep
  <2>1. PICK c : c = [call EXCEPT !.size = @ + block_size(buffer) - call.used]
    OBVIOUS
  <2>2. DOMAIN c = Fields /\ c.before = call.before /\ c.file = call.file
    BY <2>1 DEF Fields
  <2>3. Done(OK, c)
    BY <1>2, <1>4, <2>1 DEF SizeStep, Goto
  <2>4. QED
    BY <1>1, <2>2, <2>3
<1>5. CASE OpenRead
  BY <1>1, <1>5 DEF OpenRead
<1>6. CASE ReadStep
  <2>1. \E n : Done(OK, [call EXCEPT !.bytes = @ \o CopyFrom(disk[reader.block], reader.offset, n),
                                     !.size = @ - n])
    BY <1>2, <1>6 DEF ReadStep, Goto
  <2>2. PICK x, y : Done(OK, [call EXCEPT !.bytes = x, !.size = y])
    BY <2>1
  <2>3. PICK c : c = [call EXCEPT !.bytes = x, !.size = y]
    OBVIOUS
  <2>4. DOMAIN c = Fields /\ c.before = call.before /\ c.file = call.file
    BY <2>3 DEF Fields
  <2>5. QED
    BY <1>1, <2>2, <2>3, <2>4
<1>7. CASE CreateStart \/ CreateScan \/ CreatePublish \/ WriteCommit \/ ClearSize \/ DeletePublish
  <2>1. \E status : Done(status, call)
    BY <1>2, <1>7 DEF CreateStart, CreateScan, CreatePublish, WriteCommit, ClearSize, DeletePublish, Goto
  <2>2. QED
    BY <1>1, <2>1
<1>8. QED
  BY <1>2, <1>3, <1>4, <1>5, <1>6, <1>7 DEF Step, FindStep, SizeStart, CreateLink, CreateFill, WriteStep,
     FreeStep, ClearStart, ClearFreed, DeleteStart, DeleteUnlink, Return, Resting, Goto, FreeStart

LEMMA EndKeeps ==
  ASSUME BlockInvariant, BlockInvariant', OthersKept, StoreFacts, EndKept, [AnyNext]_vars
  PROVE  EndKept'
<1>1. PICK L, own : BlockInvariantOf(L, own)
  BY DEF BlockInvariant
<1>2. DOMAIN call = Fields
  BY <1>1 DEF BlockInvariantOf
<1> SUFFICES ASSUME Resting', NEW f \in DOMAIN (call'.before) \ {call'.file}
             PROVE  Data(disk', f) = call'.before[f].data
  BY DEF EndKept
<1>3. CASE UNCHANGED vars
  BY <1>3 DEF EndKept, Resting, vars
<1>4. CASE AnyNext /\ Resting
  <2>1. \/ Return
        \/ disk' = disk /\ call' = call
    BY <1>4, Zenon DEF AnyNext, AnyClient, Step, FindStep, FindFails, SizeStart, SizeStep, OpenRead, ReadStep,
       CreateStart, CreateScan, CreateLink, CreateFill, CreatePublish, WriteStep, WriteCommit,
       FreeStep, ClearStart, ClearFreed, ClearSize, DeleteStart, DeleteUnlink, DeletePublish, Resting,
       Find, Create, Read, Write, CloseWriter, CloseReader
  <2>2. CASE Return
    BY <2>2 DEF Return, NoCall
  <2>3. CASE disk' = disk /\ call' = call
    BY <1>4, <2>3 DEF EndKept
  <2>4. QED
    BY <2>1, <2>2, <2>3
<1>5. CASE AnyNext /\ ~ Resting
  <2>1. Step
    BY <1>5, Zenon DEF AnyNext, AnyClient, Resting, Find, Create, Read, Write, CloseWriter, CloseReader, Begin
  <2>2. call'.before = call.before /\ call'.file = call.file
    BY <1>2, <1>5, <2>1, CallEnds
  <2>3. L = DOMAIN call.before /\ f \in Others(L)
    BY <1>1, <1>5, <2>2 DEF BlockInvariantOf, Resting, Others
  <2>4. Data(disk', f) = Data(disk, f)
    BY <1>1, <1>5, <2>1, <2>3, StepKeepsFile
  <2>5. Data(disk, f) = call.before[f].data
    BY <1>5, <2>2 DEF OthersKept
  <2>6. QED
    BY <2>2, <2>4, <2>5
<1>6. QED
  BY <1>3, <1>4, <1>5

LEMMA SuperCells ==
  ASSUME NEW v, v \in [Offsets -> Nat], NEW x, NEW y
  PROVE  /\ Name(block_set_next([v EXCEPT ![1] = x], y)) = Name(v)
         /\ Name([block_set_next(v, y) EXCEPT ![1] = x]) = Name(v)
         /\ Name(block_set_next(v, y)) = Name(v)
         /\ Name([v EXCEPT ![1] = x]) = Name(v)
  BY BlockSets DEF block_set_next, Name

LEMMA SuperKeeps ==
  ASSUME BlockInvariant, SuperHasNoName, [AnyNext]_vars
  PROVE  SuperHasNoName'
<1>1. PICK L, own : BlockInvariantOf(L, own)
  BY DEF BlockInvariant
<1>2. /\ disk \in [Blocks -> [Offsets -> Nat]] /\ L \in SUBSET FileIds
      /\ SUPER_BLOCK = 0 /\ 0 \in Blocks /\ 0 \notin FileIds /\ FileIds \subseteq Blocks
  BY <1>1, ByteDisk, BlockSets
<1>3. ASSUME NEW b \in FileIds, NEW v, disk' = [disk EXCEPT ![b] = v]
      PROVE  SuperHasNoName'
  BY <1>2, <1>3 DEF SuperHasNoName
<1>4. ASSUME NEW v, disk' = [disk EXCEPT ![SUPER_BLOCK] = v], Name(v) = Name(disk[SUPER_BLOCK])
      PROVE  SuperHasNoName'
  BY <1>2, <1>4 DEF SuperHasNoName
<1>5. CASE disk' = disk
  BY <1>5 DEF SuperHasNoName
<1>6. disk[SUPER_BLOCK] \in [Offsets -> Nat]
  BY <1>2
<1>7. CASE CreateLink
  <2>1. AtLink(L, own)
    BY <1>1, <1>7 DEF CreateLink, BlockInvariantOf
  <2>2. call.previous \in FileIds \cup {0}
    BY <1>2, <2>1 DEF AtLink, NewPlace
  <2>3. QED
    BY <1>3, <1>5, <1>7, <2>2 DEF CreateLink, WriteBlock
<1>8. CASE CreateFill
  <2>1. call.newFile \in FileIds
    BY <1>1, <1>8 DEF CreateFill, BlockInvariantOf, AtFill, NewBlock
  <2>2. QED
    BY <1>3, <1>8, <2>1 DEF CreateFill, WriteBlock
<1>9. CASE CreatePublish
  <2>1. PICK v : v = block_set_next([disk[SUPER_BLOCK] EXCEPT ![1] = call.newFirst], call.newFree)
    OBVIOUS
  <2>2. Name(v) = Name(disk[SUPER_BLOCK])
    <3>1. PICK u, x, y : u = disk[SUPER_BLOCK] /\ x = call.newFirst /\ y = call.newFree
      OBVIOUS
    <3>2. v = block_set_next([u EXCEPT ![1] = x], y)
      BY <2>1, <3>1
    <3>3. Name(block_set_next([u EXCEPT ![1] = x], y)) = Name(u)
      <4>1. u \in [Offsets -> Nat]
        BY <1>6, <3>1
      <4>2. QED
        BY <4>1, BlockSets DEF block_set_next, Name
    <3>4. QED
      BY <3>1, <3>2, <3>3
  <2>3. disk' = [disk EXCEPT ![SUPER_BLOCK] = v]
    BY <1>9, <2>1 DEF CreatePublish, WriteBlock
  <2>4. QED
    BY <1>4, <2>2, <2>3
<1>10. CASE WriteStep
  <2>1. writer[call.file] \in FileIds
    BY <1>1, <1>10, WriteFacts DEF WriteStep
  <2>2. QED
    BY <1>3, <1>5, <1>10, <2>1 DEF WriteStep, WriteBlock
<1>11. CASE WriteCommit
  BY <1>4, <1>5, <1>6, <1>11, SuperCells DEF WriteCommit, WriteBlock
<1>12. CASE FreeStep
  <2>1. call.block \in FileIds
    BY <1>1, <1>12, FreeFacts DEF FreeStep
  <2>2. QED
    BY <1>3, <1>5, <1>12, <2>1 DEF FreeStep, WriteBlock, ReadBlock
<1>13. CASE ClearFreed
  BY <1>4, <1>6, <1>13, SuperCells DEF ClearFreed, WriteBlock
<1>14. CASE ClearSize
  <2>1. call.file \in FileIds
    BY <1>1, <1>14, ClearSizeIs
  <2>2. QED
    BY <1>3, <1>14, <2>1 DEF ClearSize, WriteBlock
<1>15. CASE DeleteUnlink
  <2>1. AtUnlink(L, own)
    BY <1>1, <1>15 DEF DeleteUnlink, BlockInvariantOf
  <2>2. call.previous \in FileIds \cup {0}
    BY <1>2, <2>1 DEF AtUnlink, Follows
  <2>3. QED
    BY <1>3, <1>5, <1>15, <2>2 DEF DeleteUnlink, WriteBlock
<1>16. CASE DeletePublish
  BY <1>4, <1>6, <1>16, SuperCells DEF DeletePublish, WriteBlock
<1>17. CASE FindStep \/ FindFails \/ SizeStart \/ SizeStep \/ OpenRead \/ ReadStep \/ CreateStart
            \/ CreateScan \/ ClearStart \/ DeleteStart \/ Return
  BY <1>5, <1>17 DEF FindStep, FindFails, SizeStart, SizeStep, OpenRead, ReadStep, CreateStart,
     CreateScan, ClearStart, DeleteStart, Return, ReadBlock, FreeStart
<1>18. CASE AnyClient
  BY <1>5, <1>18, Zenon DEF AnyClient, Find, Create, Read, Write, CloseWriter, CloseReader, ReadBlock
<1>19. CASE UNCHANGED vars
  BY <1>5, <1>19 DEF vars
<1>20. QED
  BY <1>7, <1>8, <1>9, <1>10, <1>11, <1>12, <1>13, <1>14, <1>15, <1>16, <1>17, <1>18, <1>19
     DEF AnyNext, Step

-----------------------------------------------------------------------------
\* The files of the list have their header, whatever the point where the machine
\* stops, but when the list goes through a block whose header is not written.
LEMMA ListedSizes ==
  ASSUME NEW L, NEW own, BlockInvariantOf(L, own), ~ HalfLinked, NEW f \in Listed(disk)
  PROVE  HeaderSize(Name(disk[f])) <= disk[f][0]
<1>1. L \in SUBSET FileIds /\ DiskOK(disk, L) /\ pc \in Steps
  BY InvariantFacts
<1>2. CASE Listing(disk, L)
  BY <1>1, <1>2, ListedAre DEF DiskOK
<1>3. CASE pc \notin {"publish", "deleted"}
  <2>1. Listing(disk, L)
    BY <1>1, <1>3 DEF BlockInvariantOf, Steps, HalfLinked, Whole, AtFind, AtFound, AtQuery, AtScan,
       AtLink, AtFill, AtWrite, AtCommit, AtFree, AtFreed, AtClear, AtUnlink
  <2>2. QED
    BY <1>2, <2>1
<1>4. CASE pc = "publish" /\ ~ Listing(disk, L)
  <2>1. AtPublish(L, own)
    BY <1>4 DEF BlockInvariantOf
  <2>2. PICK M : M = L \cup {call.newFile}
    OBVIOUS
  <2>3. M \in SUBSET FileIds /\ Listing(disk, M)
    BY <1>1, <1>4, <2>1, <2>2 DEF AtPublish, NewBlock, Listing
  <2>4. disk[call.newFile][0] = HeaderSize(Name(disk[call.newFile]))
    BY <2>1 DEF AtPublish
  <2>5. f \in M
    BY <2>3, ListedAre
  <2>6. CASE f \in L
    BY <1>1, <2>6 DEF DiskOK
  <2>7. CASE f = call.newFile
    <3>1. disk[f][0] \in Nat
      BY <1>1, <2>3, <2>5, BlockSets DEF DiskOK
    <3>2. QED
      BY <2>4, <2>7, <3>1
  <2>8. QED
    BY <2>2, <2>5, <2>6, <2>7
<1>5. CASE pc = "deleted" /\ ~ Listing(disk, L)
  <2>1. AtDeleted(L, own)
    BY <1>5 DEF BlockInvariantOf
  <2>2. PICK M : M = L \ {call.file}
    OBVIOUS
  <2>3. M \in SUBSET FileIds /\ Listing(disk, M)
    BY <1>1, <1>5, <2>1, <2>2 DEF AtDeleted, Listing
  <2>4. f \in L
    BY <2>2, <2>3, ListedAre
  <2>5. QED
    BY <1>1, <2>4 DEF DiskOK
<1>6. QED
  BY <1>2, <1>3, <1>4, <1>5

LEMMA ListedAreFiles ==
  ASSUME NEW d
  PROVE  Listed(d) \subseteq FileIds
<1>1. FileChain(d) \in [0 .. NumBlocks -> Blocks]
  BY FileChainIsWalk DEF IsWalk
<1>2. QED
  BY <1>1, BlockSets DEF Listed, Members

-----------------------------------------------------------------------------
(***************************************************************************)
(* The blocks in memory: block j of the file at j * Chunk, but for its     *)
(* first cell, which is that of the last word of the block before.         *)
(***************************************************************************)
InMemory(mem, d, g, k) == \A j \in 0 .. k : \A o \in 1 .. Chunk : mem[j * Chunk + o] = d[g[j]][o]

LEMMA ChunkProducts ==
  ASSUME NEW k \in Nat
  PROVE  /\ k * Chunk \in Nat /\ Chunk \in Nat /\ Chunk >= 2 /\ Chunk = BlockSize - 1
         /\ (k + 1) * Chunk = k * Chunk + Chunk
         /\ MemorySize \in Nat /\ Chunk < MemorySize /\ BlockSize \in Nat
<1>1. /\ BlockSize \in Nat /\ BlockSize > 2
      /\ MemorySize \in Nat /\ MemorySize >= BlockSize
  BY BlockFSAssumption, BootAssumption DEF BlockFSAssumption, BootAssumption
<1>2. PICK c \in Nat : c = Chunk
  BY <1>1 DEF Chunk
<1>3. BlockSize = c + 1 /\ c >= 2
  BY <1>1, <1>2 DEF Chunk
<1>4. k * c \in Nat /\ (k + 1) * c = k * c + c
  OBVIOUS
<1>5. QED
  BY <1>1, <1>2, <1>3, <1>4

\* The size of a file from the size of its last block.
LEMMA LengthIs ==
  ASSUME NEW d, NEW n \in Names, NEW g, NEW m \in Nat, d[g[m]][0] \in 1 .. BlockSize
  PROVE  DataLength(d, n, g, m) = m * Chunk + d[g[m]][0] - HeaderSize(n)
<1>1. PICK h, c, u : h = HeaderSize(n) /\ c = Chunk /\ u = d[g[m]][0]
  OBVIOUS
<1>2. /\ h \in Nat /\ h >= 3 /\ h <= BlockSize /\ BlockSize \in Nat /\ c = BlockSize - 1 /\ c \in Nat
      /\ FirstChunk[n] = BlockSize - h /\ u \in 1 .. BlockSize
  BY <1>1, HeaderSizes, BlockSets DEF Chunk, FirstChunk
<1>3. m * c \in Nat
  BY <1>2
<1>4. DataLength(d, n, g, m) = ChunkStart(n, m) + u - DataStart(n, m)
  BY <1>1 DEF DataLength
<1>5. CASE m = 0
  <2>1. ChunkStart(n, m) = 0 /\ DataStart(n, m) = h
    BY <1>1, <1>5 DEF ChunkStart, DataStart
  <2>2. QED
    BY <1>1, <1>2, <1>4, <1>5, <2>1
<1>6. CASE m # 0
  <2>1. (m - 1) * c = m * c - c
    BY <1>2, <1>6
  <2>2. ChunkStart(n, m) = FirstChunk[n] + (m - 1) * c
    BY <1>1, <1>6 DEF ChunkStart
  <2>3. DataStart(n, m) = 1
    BY <1>6 DEF DataStart
  <2>4. QED
    BY <1>1, <1>2, <1>3, <1>4, <2>1, <2>2, <2>3
<1>7. QED
  BY <1>5, <1>6

\* From the header on, the memory is the data of the file.
LEMMA ImageIs ==
  ASSUME NEW d, NEW n \in Names, NEW g, NEW m \in Nat, d[g[m]][0] \in 1 .. BlockSize,
         NEW mem, InMemory(mem, d, g, m)
  PROVE  [i \in 1 .. m * Chunk + d[g[m]][0] - HeaderSize(n) |-> mem[HeaderSize(n) + i - 1]]
           = DataOf(d, n, g, m)
<1>1. PICK h, c, u : h = HeaderSize(n) /\ c = Chunk /\ u = d[g[m]][0]
  OBVIOUS
<1>2. /\ h \in Nat /\ h >= 3 /\ h <= BlockSize /\ BlockSize \in Nat /\ c = BlockSize - 1 /\ c \in Nat
      /\ FirstChunk[n] = BlockSize - h /\ u \in 1 .. BlockSize
  BY <1>1, HeaderSizes, BlockSets DEF Chunk, FirstChunk
<1>3. m * c \in Nat
  BY <1>2
<1>4. ASSUME NEW k \in Nat, k # 0
      PROVE  ChunkStart(n, k) = k * c - h + 1 /\ DataStart(n, k) = 1
  <2>1. (k - 1) * c = k * c - c /\ k * c \in Nat
    BY <1>2, <1>4
  <2>2. ChunkStart(n, k) = FirstChunk[n] + (k - 1) * c
    BY <1>1, <1>4 DEF ChunkStart
  <2>3. DataStart(n, k) = 1
    BY <1>4 DEF DataStart
  <2>4. QED
    BY <1>2, <2>1, <2>2, <2>3
<1>5. ChunkStart(n, 0) = 0 /\ DataStart(n, 0) = h
  BY <1>1 DEF ChunkStart, DataStart
<1>6. DataLength(d, n, g, m) = m * c + u - h
  BY <1>1, LengthIs
<1>7. ASSUME NEW i \in 1 .. m * c + u - h
      PROVE  mem[h + i - 1] = d[g[Number(n, i)]][PlaceOf(n, i)]
  <2>1. i \in Nat \ {0} /\ i <= m * c + u - h
    BY <1>2, <1>3
  <2>2. u \in DataStart(n, m) .. BlockSize /\ i <= ChunkStart(n, m) + u - DataStart(n, m)
    <3>1. CASE m = 0
      BY <1>2, <1>3, <1>5, <2>1, <3>1
    <3>2. CASE m # 0
      BY <1>2, <1>3, <1>4, <2>1, <3>2
    <3>3. QED
      BY <3>1, <3>2
  <2>3. PICK k, p : k = Number(n, i) /\ p = PlaceOf(n, i)
    OBVIOUS
  <2>4. k \in 0 .. m /\ p \in DataStart(n, k) .. BlockSize - 1
    BY <2>1, <2>2, <2>3, BytePlace
  <2>5. p = DataStart(n, k) + i - ChunkStart(n, k) - 1
    BY <2>3 DEF PlaceOf
  <2>6. k * c \in Nat /\ p \in 1 .. c /\ h + i - 1 = k * c + p
    <3>1. k \in Nat
      BY <2>4
    <3>2. k * c \in Nat
      BY <1>2, <3>1
    <3>3. CASE k = 0
      BY <1>2, <1>5, <2>1, <2>4, <2>5, <3>3
    <3>4. CASE k # 0
      <4>1. ChunkStart(n, k) = k * c - h + 1 /\ DataStart(n, k) = 1
        BY <1>4, <3>1, <3>4
      <4>2. QED
        BY <1>2, <2>1, <2>4, <2>5, <3>2, <4>1
    <3>5. QED
      BY <3>3, <3>4
  <2>7. mem[k * c + p] = d[g[k]][p]
    BY <1>1, <2>4, <2>6 DEF InMemory
  <2>8. QED
    BY <2>3, <2>6, <2>7
<1>8. QED
  BY <1>1, <1>6, <1>7 DEF DataOf

LEMMA PathParts ==
  ASSUME NEW d, NEW f, NEW g, NEW m, IsPath(d, f, g, m)
  PROVE  /\ m \in Nat /\ m + 1 < NumBlocks /\ NumBlocks \in Nat
         /\ \A j \in 0 .. m : g[j] \in FileIds /\ g[j] \in Blocks
         /\ \A j \in 1 .. m : g[j] = Link(d)[g[j - 1]]
         /\ g[0] = f /\ Link(d)[g[m]] = 0
<1>1. m + 1 < NumBlocks
  BY PathShort
<1>2. /\ m \in Nat /\ \A j \in 0 .. m : g[j] \in FileIds
      /\ \A j \in 1 .. m : g[j] = Link(d)[g[j - 1]]
      /\ g[0] = f /\ Link(d)[g[m]] = 0
  BY DEF IsPath
<1>3. NumBlocks \in Nat /\ FileIds \subseteq Blocks
  BY BlockSets
<1>4. QED
  BY <1>1, <1>2, <1>3

-----------------------------------------------------------------------------
(***************************************************************************)
(* The loader has found file f, whose blocks are g[0] .. g[m], and it has  *)
(* loaded those up to k.                                                   *)
(***************************************************************************)
KernelAt(f, g, m, k) ==
  /\ f \in Listed(disk) /\ Name(disk[f]) = KernelName
  /\ IsPath(disk, f, g, m) /\ k \in 0 .. m
  /\ at = k * Chunk /\ block = disk[g[k]][0]
  /\ InMemory(memory, disk, g, k)

LoaderRight ==
  /\ DOMAIN memory = 0 .. MemorySize - 1
  /\ step \in {"off", "find", "load", "run", "error", "overrun"}
  /\ step = "find" /\ block \in Blocks => block \in Listed(disk) \cup {SUPER_BLOCK}
  /\ step \in {"load", "run", "overrun"} => \E f, g, m, k : KernelAt(f, g, m, k)
  /\ step = "run" => block <= BlockSize
  /\ step = "overrun" => block > BlockSize /\ ~ HasRoom(at + BlockSize - 1)

\* x is the memory with the contents of a block from address a on.
LoadedOver(x, contents, a) ==
  /\ DOMAIN x = 0 .. MemorySize - 1
  /\ \A i \in 0 .. MemorySize - 1 : i < a => x[i] = memory[i]
  /\ \A o \in 0 .. Chunk : a + o < MemorySize => x[a + o] = contents[o]

LEMMA LoadedIs ==
  ASSUME DOMAIN memory = 0 .. MemorySize - 1, MemorySize \in Nat, NEW b, NEW a \in Nat,
         NEW x, x = Loaded(b, a)
  PROVE  LoadedOver(x, disk[b], a)
<1>1. BlockSize \in Nat /\ Chunk = BlockSize - 1
  BY BlockSets DEF Chunk
<1>2. /\ DOMAIN x = DOMAIN memory
      /\ \A i \in DOMAIN memory :
           x[i] = IF i \in a .. a + BlockSize - 1 THEN disk[b][i - a] ELSE memory[i]
  BY DEF Loaded
<1>3. ASSUME NEW i \in DOMAIN memory, i < a PROVE x[i] = memory[i]
  <2>1. i \notin a .. a + BlockSize - 1
    BY <1>3
  <2>2. QED
    BY <1>2, <2>1
<1>4. ASSUME NEW o \in 0 .. Chunk, a + o < MemorySize PROVE x[a + o] = disk[b][o]
  <2>1. a + o \in DOMAIN memory /\ a + o \in a .. a + BlockSize - 1 /\ (a + o) - a = o
    BY <1>1, <1>4
  <2>2. QED
    BY <1>2, <2>1
<1>5. QED
  BY <1>2, <1>3, <1>4 DEF LoadedOver

\* The loader finds a file in the list.
LEMMA FindLoads ==
  ASSUME BlockInvariant, SuperHasNoName, LoaderRight, FindKernel
  PROVE  LoaderRight'
<1>1. PICK L, own : BlockInvariantOf(L, own)
  BY DEF BlockInvariant
<1>2. PICK b : b = block
  OBVIOUS
<1>3. /\ step = "find" /\ b \in Blocks /\ b \in Listed(disk) \cup {SUPER_BLOCK}
      /\ DOMAIN memory = 0 .. MemorySize - 1
      /\ memory' = Loaded(b, 0) /\ at' = 0 /\ disk' = disk
  BY <1>2 DEF FindKernel, LoaderRight, system
<1>4. /\ 0 \in Nat /\ 0 < NumBlocks /\ MemorySize \in Nat /\ Chunk \in Nat /\ Chunk < MemorySize
      /\ 0 * Chunk = 0
  <2>1. 0 \in Nat /\ 0 < NumBlocks
    BY BlockSets
  <2>2. QED
    BY <2>1, ChunkProducts
<1>5. /\ DOMAIN memory' = 0 .. MemorySize - 1
      /\ \A o \in 0 .. Chunk : 0 + o < MemorySize => memory'[0 + o] = disk[b][o]
  <2>1. PICK x : x = memory'
    OBVIOUS
  <2>2. x = Loaded(b, 0)
    BY <1>3, <2>1
  <2>3. LoadedOver(x, disk[b], 0)
    BY <1>3, <1>4, <2>2, LoadedIs
  <2>4. QED
    BY <2>1, <2>3 DEF LoadedOver
<1>6. CASE Name(disk[b]) = KernelName /\ step' = "load" /\ block' = disk[b][0]
  <2>1. b # SUPER_BLOCK /\ b \in Listed(disk) /\ b \in FileIds
    <3>1. KernelName # 0
      BY BootAssumption, BlockFSAssumption DEF BootAssumption, BlockFSAssumption
    <3>2. b # SUPER_BLOCK
      BY <1>6, <3>1 DEF SuperHasNoName
    <3>3. QED
      BY <1>3, <3>2, ListedAreFiles
  <2>2. PICK g, m : IsPath(disk, b, g, m)
    BY <1>1, <2>1, DiskEnds DEF HasPath
  <2>3. m \in Nat /\ g[0] = b
    BY <2>2 DEF IsPath
  <2>4. \A o \in 1 .. Chunk : memory'[0 * Chunk + o] = disk[g[0]][o]
    <3> TAKE o \in 1 .. Chunk
    <3>1. o \in 0 .. Chunk /\ 0 + o < MemorySize /\ 0 * Chunk + o = 0 + o
      BY <1>4
    <3>2. QED
      BY <1>5, <2>3, <3>1
  <2>5. InMemory(memory', disk, g, 0)
    BY <2>4 DEF InMemory
  <2>6. KernelAt(b, g, m, 0)'
    BY <1>3, <1>4, <1>6, <2>1, <2>2, <2>3, <2>5 DEF KernelAt
  <2>7. QED
    BY <1>5, <1>6, <2>6 DEF LoaderRight
<1>7. CASE step' = "find" /\ block' = NextFile(disk[b])
  <2>1. block' \in Blocks => block' \in Listed(disk') \cup {SUPER_BLOCK}
    <3>1. CASE NextFile(disk[b]) \in FileIds
      BY <1>3, <1>7, <3>1, ListedNext
    <3>2. QED
      BY <1>7, <3>1, BlockSets
  <2>2. QED
    BY <1>5, <1>7, <2>1 DEF LoaderRight
<1>8. QED
  BY <1>2, <1>6, <1>7 DEF FindKernel

\* The loader goes on with the next block.
LEMMA BlockLoads ==
  ASSUME BlockInvariant, LoaderRight, LoadBlock
  PROVE  LoaderRight'
<1>1. PICK L, own : BlockInvariantOf(L, own)
  BY DEF BlockInvariant
<1>2. PICK d, next : d = disk /\ next = at + BlockSize - 1
  OBVIOUS
<1>3. PICK image : image = Loaded(block - BlockSize, next)
  OBVIOUS
<1>4. /\ step = "load" /\ step' = "load" /\ block > BlockSize /\ DOMAIN memory = 0 .. MemorySize - 1
      /\ block' = image[next] /\ memory' = [image EXCEPT ![next] = memory[next]] /\ at' = next
      /\ disk' = d /\ next + BlockSize <= MemorySize
  BY <1>2, <1>3 DEF LoadBlock, HasRoom, LoaderRight, system
<1>5. PICK f, g, m, k : KernelAt(f, g, m, k)
  BY <1>4 DEF LoaderRight
<1>6. /\ f \in Listed(d) /\ Name(d[f]) = KernelName /\ IsPath(d, f, g, m) /\ k \in 0 .. m
      /\ at = k * Chunk /\ block = d[g[k]][0] /\ InMemory(memory, d, g, k)
  BY <1>2, <1>5 DEF KernelAt
<1>7. /\ m \in Nat /\ m + 1 < NumBlocks /\ NumBlocks \in Nat /\ BlockSize \in Nat
      /\ \A j \in 0 .. m : g[j] \in FileIds
      /\ \A j \in 1 .. m : g[j] = Link(d)[g[j - 1]]
      /\ Link(d)[g[m]] = 0 /\ k \in Nat
  <2>1. IsPath(d, f, g, m) /\ k \in 0 .. m
    BY <1>6
  <2>2. /\ m \in Nat /\ m + 1 < NumBlocks /\ NumBlocks \in Nat
        /\ \A j \in 0 .. m : g[j] \in FileIds
        /\ \A j \in 1 .. m : g[j] = Link(d)[g[j - 1]]
        /\ Link(d)[g[m]] = 0
    BY <2>1, PathParts
  <2>3. QED
    BY <2>1, <2>2, BlockSets
<1>8. Link(d)[g[k]] = block - BlockSize /\ Link(d)[g[k]] # 0
  <2>1. Link(d)[g[k]] = block_get_next(d[g[k]])
    BY <1>6, <1>7 DEF Link
  <2>2. block \in Nat
    <3>1. g[k] \in Blocks /\ 0 \in Offsets
      BY <1>6, <1>7, BlockSets
    <3>2. QED
      BY <1>1, <1>2, <1>6, <3>1, ByteDisk
  <2>3. QED
    BY <1>4, <1>6, <1>7, <2>1, <2>2 DEF block_get_next
<1>9. k + 1 \in 0 .. m /\ g[k + 1] = block - BlockSize
  <2>1. k # m
    BY <1>7, <1>8
  <2>2. k + 1 \in 1 .. m /\ k + 1 \in 0 .. m /\ (k + 1) - 1 = k
    BY <1>6, <1>7, <2>1
  <2>3. QED
    BY <1>7, <1>8, <2>2
<1>10. /\ k * Chunk \in Nat /\ Chunk \in Nat /\ Chunk >= 2 /\ MemorySize \in Nat
       /\ next = (k + 1) * Chunk /\ next = k * Chunk + Chunk /\ next \in Nat
       /\ next + Chunk < MemorySize
  <2>1. /\ k * Chunk \in Nat /\ Chunk \in Nat /\ Chunk >= 2 /\ Chunk = BlockSize - 1
        /\ (k + 1) * Chunk = k * Chunk + Chunk /\ MemorySize \in Nat
    BY <1>7, ChunkProducts
  <2>2. PICK c, x, y : c = Chunk /\ x = k * Chunk /\ y = (k + 1) * Chunk
    OBVIOUS
  <2>3. c \in Nat /\ c >= 2 /\ c = BlockSize - 1 /\ x \in Nat /\ y = x + c
    BY <2>1, <2>2
  <2>4. at = x /\ next = at + BlockSize - 1 /\ next + BlockSize <= MemorySize
    BY <1>2, <1>4, <1>6, <2>2
  <2>5. next = y /\ next = x + c /\ next \in Nat /\ next + c < MemorySize
    BY <1>7, <2>1, <2>3, <2>4
  <2>6. QED
    BY <2>1, <2>2, <2>3, <2>5
<1>11. /\ DOMAIN image = 0 .. MemorySize - 1
       /\ \A i \in 0 .. MemorySize - 1 : i < next => image[i] = memory[i]
       /\ \A o \in 0 .. Chunk : next + o < MemorySize => image[next + o] = d[g[k + 1]][o]
  <2>1. image = Loaded(g[k + 1], next)
    BY <1>3, <1>9
  <2>2. MemorySize \in Nat /\ next \in Nat /\ DOMAIN memory = 0 .. MemorySize - 1
    BY <1>4, <1>10
  <2>3. LoadedOver(image, disk[g[k + 1]], next)
    BY <2>1, <2>2, LoadedIs
  <2>4. QED
    BY <1>2, <2>3 DEF LoadedOver
<1>12. /\ DOMAIN memory' = 0 .. MemorySize - 1
       /\ \A i \in 0 .. MemorySize - 1 : i <= next => memory'[i] = memory[i]
       /\ \A i \in 0 .. MemorySize - 1 : i # next => memory'[i] = image[i]
  BY <1>4, <1>10, <1>11
<1>13. block' = d[g[k + 1]][0]
  <2>1. 0 \in 0 .. Chunk /\ next + 0 < MemorySize /\ next + 0 = next
    BY <1>10
  <2>2. QED
    BY <1>4, <1>11, <2>1
<1>14. ASSUME NEW j \in 0 .. k, NEW o \in 1 .. Chunk
       PROVE  memory'[j * Chunk + o] = d[g[j]][o]
  <2>1. j * Chunk <= k * Chunk /\ j * Chunk \in Nat
    <3>1. j \in Nat /\ j <= k
      BY <1>7
    <3>2. QED
      BY <1>7, <1>10, <3>1, ProductMonotonic
  <2>2. j * Chunk + o \in 0 .. MemorySize - 1 /\ j * Chunk + o <= next
    BY <1>10, <2>1
  <2>3. memory[j * Chunk + o] = d[g[j]][o]
    BY <1>6 DEF InMemory
  <2>4. QED
    BY <1>12, <2>2, <2>3
<1>15. ASSUME NEW o \in 1 .. Chunk
       PROVE  memory'[(k + 1) * Chunk + o] = d[g[k + 1]][o]
  <2>1. o \in 0 .. Chunk /\ next + o < MemorySize /\ next + o \in 0 .. MemorySize - 1
        /\ next + o # next /\ (k + 1) * Chunk + o = next + o
    BY <1>10
  <2>2. QED
    BY <1>11, <1>12, <2>1
<1>16. InMemory(memory', d, g, k + 1)
  <2>1. ASSUME NEW j \in 0 .. k + 1 PROVE \A o \in 1 .. Chunk : memory'[j * Chunk + o] = d[g[j]][o]
    <3>1. j \in 0 .. k \/ j = k + 1
      BY <1>7
    <3>2. QED
      BY <1>14, <1>15, <3>1
  <2>2. QED
    BY <2>1 DEF InMemory
<1>17. KernelAt(f, g, m, k + 1)'
  BY <1>4, <1>6, <1>9, <1>10, <1>13, <1>16 DEF KernelAt
<1>18. QED
  BY <1>4, <1>12, <1>17 DEF LoaderRight

LEMMA LoaderKeeps ==
  ASSUME BlockInvariant, SuperHasNoName, LoaderRight, Restart \/ Loader
  PROVE  LoaderRight'
<1>1. CASE Restart
  BY <1>1 DEF Restart, LoaderRight
<1>2. CASE FindError
  BY <1>2 DEF FindError, LoaderRight
<1>3. CASE RunKernel
  <2>1. /\ step = "load" /\ step' = "run" /\ block <= BlockSize
        /\ memory' = memory /\ block' = block /\ at' = at /\ disk' = disk
    BY <1>3 DEF RunKernel, system
  <2>2. PICK f, g, m, k : KernelAt(f, g, m, k)
    BY <2>1 DEF LoaderRight
  <2>3. KernelAt(f, g, m, k)'
    BY <2>1, <2>2 DEF KernelAt
  <2>4. QED
    BY <2>1, <2>3 DEF LoaderRight
<1>4. CASE LoadPast
  <2>1. /\ step = "load" /\ step' = "overrun" /\ block > BlockSize /\ ~ HasRoom(at + BlockSize - 1)
        /\ memory' = memory /\ block' = block /\ at' = at /\ disk' = disk
    BY <1>4 DEF LoadPast, system
  <2>2. PICK f, g, m, k : KernelAt(f, g, m, k)
    BY <2>1 DEF LoaderRight
  <2>3. KernelAt(f, g, m, k)'
    BY <2>1, <2>2 DEF KernelAt
  <2>4. ~ HasRoom(at + BlockSize - 1)'
    BY <2>1 DEF HasRoom
  <2>5. QED
    BY <2>1, <2>3, <2>4 DEF LoaderRight
<1>5. QED
  BY <1>1, <1>2, <1>3, <1>4, FindLoads, BlockLoads DEF Loader

\* What the loader has loaded is the file that is on the disk, and the file that
\* was there before the call.
LEMMA RunMeans ==
  ASSUME BlockInvariant, OthersKept, EndKept, LoaderRight, step = "run"
  PROVE  KernelLoaded
<1>1. PICK L, own : BlockInvariantOf(L, own)
  BY DEF BlockInvariant
<1>2. block <= BlockSize /\ \E f, g, m, k : KernelAt(f, g, m, k)
  BY DEF LoaderRight
<1>3. PICK f, g, m, k : KernelAt(f, g, m, k)
  BY <1>2
<1>4. PICK n : n = KernelName
  OBVIOUS
<1>5. /\ f \in Listed(disk) /\ f \in FileIds /\ Name(disk[f]) = n /\ n \in Names
      /\ IsPath(disk, f, g, m) /\ k \in 0 .. m /\ at = k * Chunk /\ block = disk[g[k]][0]
      /\ InMemory(memory, disk, g, k)
  BY <1>3, <1>4, ListedAreFiles, BootAssumption DEF KernelAt, BootAssumption
<1>6. /\ m \in Nat /\ m + 1 < NumBlocks /\ BlockSize \in Nat /\ NumBlocks \in Nat
      /\ \A j \in 0 .. m : g[j] \in FileIds /\ g[j] \in Blocks
      /\ \A j \in 1 .. m : g[j] = Link(disk)[g[j - 1]]
      /\ g[0] = f /\ 0 \notin FileIds
  <2>1. IsPath(disk, f, g, m)
    BY <1>5
  <2>2. /\ m \in Nat /\ m + 1 < NumBlocks /\ NumBlocks \in Nat
        /\ \A j \in 0 .. m : g[j] \in FileIds /\ g[j] \in Blocks
        /\ \A j \in 1 .. m : g[j] = Link(disk)[g[j - 1]]
        /\ g[0] = f
    BY <2>1, PathParts
  <2>3. QED
    BY <2>2, BlockSets
<1>7. DiskOK(disk, L)
  BY <1>1, ByteDisk
<1>8. k = m
  <2>1. Link(disk)[g[k]] = 0
    BY <1>2, <1>5, <1>6 DEF Link, block_get_next
  <2>2. CASE k # m
    <3>1. k + 1 \in 1 .. m /\ k + 1 \in 0 .. m /\ (k + 1) - 1 = k
      BY <1>5, <1>6, <2>2
    <3>2. QED
      BY <1>6, <2>1, <3>1
  <2>3. QED
    BY <2>2
<1>9. block \in 1 .. BlockSize
  <2>1. GoodBlock(disk[g[k]])
    BY <1>5, <1>6, <1>7, GoodBlocks
  <2>2. QED
    BY <1>2, <1>5, <1>6, <2>1, BlockSets DEF GoodBlock
<1>10. Data(disk, f) = DataOf(disk, n, g, m)
  BY <1>5, <1>6, <1>7, PathData
<1>11. PICK image : image = [i \in 1 .. heap - code |-> memory[code + i - 1]]
  OBVIOUS
<1>12. image = Data(disk, f)
  <2>1. m * Chunk + disk[g[m]][0] - HeaderSize(n) = heap - code /\ HeaderSize(n) = code
    <3>1. heap = at + block /\ code = HeaderSize(n)
      BY <1>4 DEF heap, code
    <3>2. at = m * Chunk /\ block = disk[g[m]][0]
      BY <1>5, <1>8
    <3>3. heap = m * Chunk + disk[g[m]][0]
      BY <3>1, <3>2, Zenon
    <3>4. PICK c, x, y : c = m * Chunk /\ x = disk[g[m]][0] /\ y = HeaderSize(n)
      OBVIOUS
    <3>5. c \in Nat /\ x \in Nat /\ y \in Nat
      <4>1. m * Chunk \in Nat
        BY <1>6, ChunkProducts
      <4>2. x \in 1 .. BlockSize
        BY <1>5, <1>8, <1>9, <3>4
      <4>3. QED
        BY <1>5, <3>4, <4>1, <4>2, HeaderSizes
    <3>6. heap = c + x /\ code = y
      BY <3>1, <3>3, <3>4
    <3>7. c + x - y = heap - code
      BY <3>5, <3>6
    <3>8. QED
      BY <3>4, <3>6, <3>7
  <2>2. disk[g[m]][0] \in 1 .. BlockSize /\ InMemory(memory, disk, g, m)
    BY <1>5, <1>8, <1>9
  <2>3. [i \in 1 .. m * Chunk + disk[g[m]][0] - HeaderSize(n) |-> memory[HeaderSize(n) + i - 1]]
          = DataOf(disk, n, g, m)
    BY <1>5, <1>6, <2>2, ImageIs
  <2>4. QED
    BY <1>10, <1>11, <2>1, <2>3
<1>13. f \in DOMAIN call.before \ {call.file} => image = call.before[f].data
  BY <1>12 DEF OthersKept, EndKept
<1>14. ASSUME ~ HalfLinked PROVE heap >= code
  <2>1. HeaderSize(n) \in Nat /\ HeaderSize(n) <= BlockSize
    BY <1>5, HeaderSizes
  <2>2. CASE m = 0
    <3>1. HeaderSize(n) <= disk[f][0]
      BY <1>1, <1>5, <1>14, ListedSizes
    <3>2. 0 * Chunk = 0
      BY BlockSets DEF Chunk
    <3>3. QED
      BY <1>4, <1>5, <1>6, <1>8, <1>9, <2>1, <2>2, <3>1, <3>2 DEF heap, code
  <2>3. CASE m # 0
    <3>1. Chunk \in Nat /\ Chunk = BlockSize - 1
      BY <1>6, BlockSets DEF Chunk
    <3>2. 1 * Chunk <= m * Chunk /\ m * Chunk \in Nat
      <4>1. 1 \in Nat /\ 1 <= m
        BY <1>6, <2>3
      <4>2. QED
        BY <1>6, <3>1, <4>1, ProductMonotonic
    <3>3. QED
      BY <1>4, <1>5, <1>6, <1>8, <1>9, <2>1, <3>1, <3>2 DEF heap, code
  <2>4. QED
    BY <2>2, <2>3
<1>15. QED
  BY <1>4, <1>5, <1>11, <1>12, <1>13, <1>14 DEF KernelLoaded, Kernels

\* The loader overruns its memory before the last block of the kernel.
LEMMA OverrunMeans ==
  ASSUME BlockInvariant, LoaderRight, step = "overrun"
  PROVE  KernelLoaded
<1>1. PICK L, own : BlockInvariantOf(L, own)
  BY DEF BlockInvariant
<1>2. /\ block > BlockSize /\ ~ HasRoom(at + BlockSize - 1)
      /\ \E f, g, m, k : KernelAt(f, g, m, k)
  BY DEF LoaderRight
<1>3. PICK f, g, m, k : KernelAt(f, g, m, k)
  BY <1>2
<1>4. PICK n : n = KernelName
  OBVIOUS
<1>5. /\ f \in Listed(disk) /\ f \in FileIds /\ Name(disk[f]) = n /\ n \in Names
      /\ IsPath(disk, f, g, m) /\ k \in 0 .. m /\ at = k * Chunk /\ block = disk[g[k]][0]
  BY <1>3, <1>4, ListedAreFiles, BootAssumption DEF KernelAt, BootAssumption
<1>6. /\ m \in Nat /\ m + 1 < NumBlocks /\ NumBlocks \in Nat
      /\ \A j \in 0 .. m : g[j] \in FileIds /\ g[j] \in Blocks
      /\ Link(disk)[g[m]] = 0
  <2>1. IsPath(disk, f, g, m)
    BY <1>5
  <2>2. QED
    BY <2>1, PathParts
<1>7. DiskOK(disk, L) /\ BlockSize \in Nat
  BY <1>1, ByteDisk, BlockSets
<1>8. PICK u : u = disk[g[m]][0]
  OBVIOUS
<1>9. u \in 1 .. BlockSize
  <2>1. GoodBlock(disk[g[m]])
    BY <1>6, <1>7, GoodBlocks
  <2>2. block_get_next(disk[g[m]]) = 0
    BY <1>6 DEF Link
  <2>3. u <= BlockSize
    BY <1>8, <2>1, <2>2, NextOfBlock
  <2>4. QED
    BY <1>7, <1>8, <2>1, <2>3, BlockSets DEF GoodBlock
<1>10. k + 1 <= m /\ k \in Nat
  <2>1. k # m
    BY <1>2, <1>5, <1>7, <1>8, <1>9
  <2>2. QED
    BY <1>5, <1>6, <2>1
<1>11. PICK c, x, y, h : c = Chunk /\ x = k * Chunk /\ y = m * Chunk /\ h = HeaderSize(n)
  OBVIOUS
<1>12. /\ c \in Nat /\ c = BlockSize - 1 /\ x \in Nat /\ y \in Nat /\ x + c <= y
       /\ h \in Nat /\ h <= BlockSize /\ MemorySize \in Nat
  <2>1. /\ Chunk \in Nat /\ Chunk = BlockSize - 1 /\ k * Chunk \in Nat /\ m * Chunk \in Nat
        /\ (k + 1) * Chunk = k * Chunk + Chunk /\ MemorySize \in Nat
    BY <1>6, <1>10, ChunkProducts
  <2>2. (k + 1) * Chunk <= m * Chunk
    <3>1. k + 1 \in Nat
      BY <1>10
    <3>2. QED
      BY <1>6, <1>10, <2>1, <3>1, ProductMonotonic
  <2>3. HeaderSize(n) \in Nat /\ HeaderSize(n) <= BlockSize
    BY <1>5, HeaderSizes
  <2>4. QED
    BY <1>11, <2>1, <2>2, <2>3
<1>13. Data(disk, f) = DataOf(disk, n, g, m)
  BY <1>5, <1>6, <1>7, PathData
<1>14. PICK l : l = DataLength(disk, n, g, m)
  OBVIOUS
<1>15. l = y + u - h
  BY <1>5, <1>6, <1>8, <1>9, <1>11, <1>14, LengthIs
<1>16. l \in Nat
  BY <1>7, <1>9, <1>12, <1>15
<1>17. Len(Data(disk, f)) = l
  BY <1>13, <1>14, <1>16 DEF DataOf
<1>18. MemorySize < h + l + BlockSize
  <2>1. ~ (x + BlockSize - 1 + BlockSize <= MemorySize)
    BY <1>2, <1>5, <1>11 DEF HasRoom
  <2>2. QED
    BY <1>7, <1>9, <1>12, <1>15, <2>1
<1>19. code = h
  BY <1>4, <1>11 DEF code
<1>20. QED
  BY <1>4, <1>5, <1>17, <1>18, <1>19 DEF KernelLoaded, Kernels

LEMMA LoaderMeans ==
  ASSUME BlockInvariant, OthersKept, EndKept, LoaderRight
  PROVE  KernelLoaded
<1>1. CASE step = "run"
  BY <1>1, RunMeans
<1>2. CASE step = "overrun"
  BY <1>2, OverrunMeans
<1>3. QED
  BY <1>1, <1>2 DEF KernelLoaded

\* The invariant of the loader and of the file system that it starts.
LoadRight == SystemRight /\ EndKept /\ SuperHasNoName /\ LoaderRight

LEMMA LoadInit == BootInit => LoadRight
<1> SUFFICES ASSUME BootInit PROVE LoadRight
  OBVIOUS
<1>1. SystemRight
  BY SystemInit DEF BootInit
<1>2. EndKept
  <2>1. call.before = <<>>
    BY DEF BootInit, Init, NoCall
  <2>2. QED
    BY <2>1 DEF EndKept
<1>3. SuperHasNoName
  <2>1. SUPER_BLOCK \in Blocks /\ 2 \in Offsets
    BY BlockSets
  <2>2. disk = Formatted
    BY DEF BootInit, Init
  <2>3. QED
    BY <2>1, <2>2 DEF SuperHasNoName, Name, Formatted
<1>4. LoaderRight
  BY DEF BootInit, LoaderRight
<1>5. QED
  BY <1>1, <1>2, <1>3, <1>4 DEF LoadRight

LEMMA LoadKeeps == LoadRight /\ [BootNext]_bootVars => LoadRight'
<1> SUFFICES ASSUME LoadRight, [BootNext]_bootVars PROVE LoadRight'
  OBVIOUS
<1>1. ASSUME [AnyNext]_vars
      PROVE  SystemRight' /\ EndKept' /\ SuperHasNoName'
  <2>1. SystemRight'
    BY <1>1, SystemKeeps DEF LoadRight
  <2>2. EndKept'
    BY <1>1, <2>1, EndKeeps DEF LoadRight, SystemRight
  <2>3. SuperHasNoName'
    BY <1>1, SuperKeeps DEF LoadRight, SystemRight
  <2>4. QED
    BY <2>1, <2>2, <2>3
<1>2. CASE step = "off" /\ Next /\ UNCHANGED loader
  <2>1. [AnyNext]_vars
    BY <1>2, NextIsAny
  <2>2. LoaderRight'
    BY <1>2 DEF loader, LoaderRight, LoadRight
  <2>3. QED
    BY <1>1, <2>1, <2>2 DEF LoadRight
<1>3. CASE Restart \/ Loader
  <2>1. UNCHANGED system
    BY <1>3 DEF Restart, Loader, FindKernel, FindError, LoadBlock, LoadPast, RunKernel
  <2>2. UNCHANGED vars
    BY <2>1 DEF system, vars
  <2>3. LoaderRight'
    BY <1>3, LoaderKeeps DEF LoadRight, SystemRight
  <2>4. QED
    BY <1>1, <2>2, <2>3 DEF LoadRight
<1>4. CASE UNCHANGED bootVars
  <2>1. UNCHANGED vars /\ UNCHANGED loader /\ disk' = disk
    BY <1>4 DEF bootVars, vars
  <2>2. LoaderRight'
    BY <2>1 DEF loader, LoaderRight, LoadRight, KernelAt
  <2>3. QED
    BY <1>1, <2>1, <2>2 DEF LoadRight
<1>5. QED
  BY <1>2, <1>3, <1>4 DEF BootNext

(***************************************************************************)
(* Whatever a client of the file system does, and wherever a call to it is *)
(* interrupted, what the boot loader runs is a kernel file of the disk: the *)
(* memory from code to heap is the data of this file, word by word, that   *)
(* was there before the interrupted call unless this call is about it.     *)
(* The memory of the loader may be smaller than the disk (48 pages,        *)
(* boot.toy:60): it goes beyond its end only for a kernel that does not    *)
(* fit in it.                                                              *)
(***************************************************************************)
THEOREM KernelIsLoaded == BootSpec => []KernelLoaded
<1>1. LoadRight => KernelLoaded
  BY LoaderMeans DEF LoadRight, SystemRight
<1>2. BootSpec => BootInit /\ [][BootNext]_bootVars
  BY PTL DEF BootSpec
<1>3. QED
  BY <1>1, <1>2, LoadInit, LoadKeeps, PTL

LEMMA FirstInFile ==
  ASSUME NEW d, NEW L, NEW own, NEW f, OnDisk(d, L, own, f),
         NEW r, r = [file |-> f, block |-> f, offset |-> HeaderSize(Name(d[f]))]
  PROVE  InFile(d, r) /\ DOMAIN r = {"file", "block", "offset"} /\ r.file = f
<1>1. PICK s, n : s = Link(d) /\ n = Name(d[f])
  OBVIOUS
<1>2. PICK g, m : IsPath(d, f, g, m)
  <2>1. s = Link(d) /\ Layout(own, s, L, FreeHead(d)) /\ L \in SUBSET FileIds /\ f \in L
    BY <1>1 DEF OnDisk
  <2>2. QED
    BY <2>1, FileHasPath, Zenon
<1>3. m \in Nat /\ HasData(d, n, g, m) /\ n \in Names
  BY <1>1, <1>2, PathOnDisk DEF OnDisk
<1>4. g[0] = f
  BY <1>2 DEF IsPath
<1>5. DataStart(n, 0) = HeaderSize(n)
  BY DEF DataStart
<1>6. DataStart(n, 0) \in 1 .. BlockSize /\ BlockSize \in Nat
  BY <1>3, Chunks, BlockSets
<1>7. DataStart(n, 0) <= UpTo(d, g, m, 0) /\ UpTo(d, g, m, 0) \in Nat
  <2>1. CASE m = 0
    <3>1. d[g[m]][0] \in DataStart(n, m) .. BlockSize
      BY <1>3 DEF HasData
    <3>2. QED
      BY <1>6, <2>1, <3>1 DEF UpTo
  <2>2. CASE m # 0
    BY <1>6, <2>2 DEF UpTo
  <2>3. QED
    BY <2>1, <2>2
<1>8. Within(d, n, g, m, 0, HeaderSize(n))
  BY <1>3, <1>5, <1>6, <1>7 DEF Within
<1>9. r.file = f /\ r.block = f /\ r.offset = HeaderSize(n) /\ DOMAIN r = {"file", "block", "offset"}
  BY <1>1
<1>10. StreamAt(d, g, m, 0, r)
  BY <1>1, <1>4, <1>8, <1>9 DEF StreamAt
<1>11. IsPath(d, r.file, g, m)
  BY <1>2, <1>9
<1>12. QED
  BY <1>9, <1>10, <1>11, Zenon DEF InFile

\* Where the stream that reads is after a step.
ReaderIs(d, w, r) ==
  /\ DOMAIN r = {"file", "block", "offset"}
  /\ r.file # 0 => r.file \in DOMAIN Files(d) /\ w[r.file] = 0 /\ InFile(d, r)

\* Some streams are closed, or the one that reads is opened.
LEMMA RestKeeps ==
  ASSUME SystemRight, Resting, pc' = "idle", disk' = disk, DOMAIN call' = Fields,
         writer' \in [FileIds -> Blocks], \A f \in FileIds : writer'[f] \in {0, writer[f]},
         ReaderIs(disk', writer', reader')
  PROVE  SystemRight'
<1>1. PICK L, own : BlockInvariantOf(L, own)
  BY DEF SystemRight, BlockInvariant
<1>2. /\ L \in SUBSET FileIds /\ own \in [FileIds -> Blocks] /\ DiskOK(disk, L)
      /\ Whole(disk, L, own) /\ pc # "write"
  BY <1>1 DEF BlockInvariantOf, Resting
<1>3. WritersRest(disk, writer, L, own)
  BY <1>1, <1>2, RestingWriters
<1>4. WritersRest(disk', writer', L, own)
  BY <1>3 DEF WritersRest
<1>5. BlockInvariant'
  BY <1>2, <1>4, Rests
<1>6. ~ (pc' # "idle") /\ Resting'
  BY DEF Resting
<1>7. OthersKept'
  BY <1>6 DEF OthersKept
<1>8. StoreFacts'
  BY <1>6 DEF SystemRight, StoreFacts, Looks, Named
<1>9. CallFacts'
  BY <1>6 DEF CallFacts, ResultIsRight
<1>10. ReaderRight'
  <2>1. pc' \notin Held /\ pc' # "read" /\ pc' # "done"
    BY DEF Held
  <2>2. Store' = Files(disk')
    BY <1>6 DEF Store
  <2>3. ReaderOn'
    BY <2>1, <2>2, Zenon DEF ReaderOn, ReaderIs
  <2>4. QED
    BY <2>1, <2>3 DEF ReaderRight, ReadOn, ReadIsRight, ReaderIs
<1>11. QED
  BY <1>5, <1>7, <1>8, <1>9, <1>10 DEF SystemRight

\* The stream that reads is not touched.
LEMMA ReaderRests ==
  ASSUME SystemRight, Resting, disk' = disk, reader' = reader,
         \A f \in FileIds : writer'[f] \in {0, writer[f]}
  PROVE  ReaderIs(disk', writer', reader')
<1>1. PICK L, own : BlockInvariantOf(L, own)
  BY DEF SystemRight, BlockInvariant
<1>2. DOMAIN reader = {"file", "block", "offset"} /\ ReaderOn
  BY DEF SystemRight, ReaderRight
<1>3. ASSUME reader.file # 0
      PROVE  reader.file \in DOMAIN Files(disk) /\ writer[reader.file] = 0 /\ InFile(disk, reader)
             /\ reader.file \in FileIds
  <2>1. reader.file \in DOMAIN Files(disk) /\ writer[reader.file] = 0 /\ InFile(disk, reader)
    BY <1>2, <1>3 DEF ReaderOn, Store
  <2>2. DOMAIN Files(disk) = Listed(disk)
    BY DEF Files
  <2>3. QED
    BY <2>1, <2>2, ListedAreFiles
<1>4. QED
  BY <1>2, <1>3 DEF ReaderIs

\* The size of a file is asked without looking for it.
LEMMA StatKeeps ==
  ASSUME SystemRight, NEW f \in Listed(disk),
         Begin([NoCall EXCEPT !.op = "stat", !.name = Name(disk[f]), !.file = f]),
         pc' = "found", disk' = disk, writer' = writer, reader' = reader
  PROVE  SystemRight'
<1>1. PICK L, own : BlockInvariantOf(L, own)
  BY DEF SystemRight, BlockInvariant
<1>2. PICK n, c : n = Name(disk[f]) /\ c = [NoCall EXCEPT !.op = "stat", !.name = Name(disk[f]), !.file = f]
  OBVIOUS
<1>3. /\ DOMAIN c = Fields /\ c.op = "stat" /\ c.name = n /\ c.file = f
      /\ c.previous = 0 /\ c.status = OK /\ c.size = 0
  BY <1>2, CallFields DEF NoCall
<1>4. /\ pc = "idle" /\ Whole(disk, L, own) /\ DOMAIN (call'.before) = L
      /\ DOMAIN call' = Fields /\ \A x \in Fields \ {"before", "from"} : call'[x] = c[x]
  <2>1. Begin(c)
    BY <1>2
  <2>2. QED
    BY <1>1, <1>3, <2>1, BeginCall
<1>5. /\ call'.op = "stat" /\ call'.name = n /\ call'.file = f
      /\ call'.previous = 0 /\ call'.status = OK /\ call'.size = 0
  BY <1>3, <1>4 DEF Fields
<1>6. call'.before = Files(disk)
  <2>1. call' = [c EXCEPT !.before = Files(disk), !.from = reader]
    BY <1>2 DEF Begin
  <2>2. QED
    BY <1>3, <2>1 DEF Fields
<1>7. L \in SUBSET FileIds /\ own \in [FileIds -> Blocks] /\ DiskOK(disk, L)
  BY <1>1 DEF BlockInvariantOf
<1>8. Listing(disk, L) /\ Layout(own, Link(disk), L, FreeHead(disk))
  BY <1>4 DEF Whole
<1>9. /\ f \in L /\ n \in Names
      /\ \A h \in L : Files(disk)[h].name = Name(disk[h]) /\ Files(disk)[h].data = Data(disk, h)
  <2>1. Listed(disk) = L
    BY <1>7, <1>8, ListedAre
  <2>2. QED
    BY <1>2, <1>7, <1>8, <2>1, ListingFacts, FilesAre
<1>10. BlockInvariant'
  <2>1. WritersRest(disk', writer', L, own) /\ DiskOK(disk', L)
    BY <1>1, <1>4, SameDisk
  <2>2. AtFound(L, own)'
    BY <1>4, <1>5, <1>9 DEF AtFound
  <2>3. QED
    BY <1>4, <1>7, <2>1, <2>2, Begins
<1>11. ~ Resting' /\ Resting
  BY <1>4 DEF Resting
<1>12. OthersKept'
  <2>1. \A h \in L : Name(disk'[h]) = call'.before[h].name /\ Data(disk', h) = call'.before[h].data
    BY <1>6, <1>9
  <2>2. QED
    BY <1>4, <2>1 DEF OthersKept
<1>13. StoreFacts'
  <2>1. IsFiles(Files(disk))
    BY <1>1, <1>11, RestingFiles
  <2>2. QED
    BY <1>6, <2>1 DEF SystemRight, StoreFacts, Looks, Named
<1>14. CallFacts'
  <2>1. Different(Files(disk))
    BY <1>7, <1>8, DifferentFiles
  <2>2. FoundRight'
    <3>1. call'.before[call'.file].name = call'.name
      BY <1>2, <1>5, <1>6, <1>9, Zenon
    <3>2. call'.file # 0 /\ call'.op # "create"
      BY <1>5, <1>7, <1>9, BlockSets
    <3>3. QED
      BY <3>1, <3>2 DEF FoundRight
  <2>3. QED
    BY <1>5, <1>6, <2>1, <2>2, AnswerGoesOn
<1>15. ReaderRight'
  <2>1. pc' \notin Held /\ pc' # "read" /\ pc' # "done"
    BY DEF Held
  <2>2. Store' = Store
    BY <1>6, <1>11 DEF Store
  <2>3. ReaderOn'
    BY <2>1, <2>2, Zenon DEF SystemRight, ReaderRight, ReaderOn
  <2>4. QED
    BY <2>1, <2>3 DEF SystemRight, ReaderRight, ReadOn, ReadIsRight
<1>16. QED
  BY <1>10, <1>12, <1>13, <1>14, <1>15 DEF SystemRight

-----------------------------------------------------------------------------
(***************************************************************************)
(* The steps of the calls that the programs for files make, and what these *)
(* programs are given when they return.                                    *)
(***************************************************************************)
CreateSteps == {"found", "scan", "link", "fill", "publish", "done"}
WriteSteps == {"write", "commit", "done"}

CreateCall == call.op = "create" /\ call.file = 0 /\ pc \in CreateSteps
WriteCalled == call.op = "write" /\ pc \in WriteSteps /\ writer[call.file] # 0
StatCall(f) == call.op = "stat" /\ call.file = f /\ f # 0 /\ pc \in {"found", "size", "done"}
ReadCall == call.op = "read" /\ pc \in {"read", "done"}

LEMMA CreateSteps1 ==
  ASSUME CreateCall, pc # "done", Step
  PROVE  \/ CreateStart \/ CreateScan \/ CreateLink \/ CreateFill \/ CreatePublish
<1>1. pc \notin {"find", "size", "read", "write", "commit", "free", "freed", "clear", "unlink", "deleted"}
  BY DEF CreateCall, CreateSteps
<1>2. ~ FindStep /\ ~ SizeStep /\ ~ ReadStep /\ ~ WriteStep /\ ~ WriteCommit /\ ~ FreeStep
  BY <1>1 DEF FindStep, SizeStep, ReadStep, WriteStep, WriteCommit, FreeStep
<1>3. ~ ClearFreed /\ ~ ClearSize /\ ~ DeleteUnlink /\ ~ DeletePublish /\ ~ Return
  BY <1>1 DEF ClearFreed, ClearSize, DeleteUnlink, DeletePublish, Return
<1>4. ~ FindFails /\ ~ SizeStart /\ ~ OpenRead /\ ~ ClearStart /\ ~ DeleteStart
  BY DEF CreateCall, FindFails, SizeStart, OpenRead, ClearStart, DeleteStart
<1>5. QED
  BY <1>2, <1>3, <1>4 DEF Step

LEMMA CreateGoesOn ==
  ASSUME DOMAIN call = Fields, CreateCall, pc # "done", Step
  PROVE  /\ CreateCall' /\ reader' = reader
         /\ call'.before = call.before /\ call'.name = call.name
<1>1. call.op = "create" /\ call.file = 0 /\ pc \in CreateSteps
  BY DEF CreateCall
<1>2. CASE CreateStart
  BY <1>1, <1>2 DEF CreateCall, CreateSteps, CreateStart, Goto, Done, Fields, Streams
<1>3. CASE CreateScan
  BY <1>1, <1>3 DEF CreateCall, CreateSteps, CreateScan, Goto, Done, Fields, Streams
<1>4. CASE CreateLink
  BY <1>1, <1>4 DEF CreateCall, CreateSteps, CreateLink, Goto, Fields, Streams
<1>5. CASE CreateFill
  BY <1>1, <1>5 DEF CreateCall, CreateSteps, CreateFill, Goto, Fields, Streams
<1>6. CASE CreatePublish
  BY <1>1, <1>6 DEF CreateCall, CreateSteps, CreatePublish, Done, Fields
<1>7. QED
  BY <1>2, <1>3, <1>4, <1>5, <1>6, CreateSteps1

CreateResult ==
  \/ /\ call.status = OK /\ call.newFile \in FileIds \ DOMAIN call.before
     /\ Adds(call.before, Files(disk), call.newFile, call.name) /\ writer[call.newFile] # 0
  \/ /\ call.status = ALREADY_EXISTS
     /\ \E f \in DOMAIN call.before : call.before[f].name = call.name
  \/ /\ call.status = OUT_OF_MEMORY
     /\ Files(disk) = call.before /\ FreeBlocks(disk) = {}

LEMMA Statuses ==
  /\ OK = 0 /\ ALREADY_EXISTS = 4 /\ OUT_OF_MEMORY = 5
  BY DEF OK, ALREADY_EXISTS, OUT_OF_MEMORY

LEMMA CreateReturns ==
  ASSUME SystemRight, CreateCall, pc # "done", Step, pc' = "done"
  PROVE  CreateResult'
<1>1. PICK L, own : BlockInvariantOf(L, own)
  BY DEF SystemRight, BlockInvariant
<1>2. SystemRight'
  BY SystemKeeps DEF AnyNext
<1>3. DOMAIN call = Fields /\ OthersKept /\ StoreFacts /\ CallFacts
  BY <1>1 DEF SystemRight, BlockInvariantOf
<1>4. ~ Resting /\ Resting'
  BY DEF CreateCall, CreateSteps, Resting
<1>5. CASE CreatePublish
  <2>1. PICK f, n : /\ f = call.newFile /\ n = Name(disk[f])
                    /\ f \in FileIds \ DOMAIN call.before /\ n \in Names
                    /\ Adds(call.before, Files(disk'), f, n)
    BY <1>1, <1>3, <1>5, PublishFiles
  <2>2. n = call.name
    BY <1>3, <1>5, <2>1 DEF CallFacts, CreatePublish
  <2>3. call' = [call EXCEPT !.status = OK] /\ writer' = [writer EXCEPT ![call.newFile] = call.newFile]
    BY <1>5 DEF CreatePublish, Done
  <2>4. /\ call'.status = OK /\ call'.newFile = f /\ call'.before = call.before /\ call'.name = n
    BY <1>3, <2>1, <2>2, <2>3 DEF Fields
  <2>5. writer \in [FileIds -> Blocks]
    BY <1>1 DEF BlockInvariantOf, Writers
  <2>6. writer'[f] = f /\ f # 0
    BY <2>1, <2>3, <2>5, BlockSets
  <2>7. QED
    BY <2>1, <2>4, <2>6 DEF CreateResult
<1>6. CASE CreateStart
  <2>1. call'.status = OUT_OF_MEMORY /\ call'.before = call.before
    BY <1>3, <1>6 DEF CreateStart, Done, Goto, Fields
  <2>2. disk' = disk /\ Files(disk) = call.before
    <3>1. pc = "found"
      BY <1>6 DEF CreateStart
    <3>2. ~ CreatePublish /\ ~ ClearSize /\ ~ WriteCommit /\ ~ DeletePublish
      BY <3>1 DEF CreatePublish, ClearSize, WriteCommit, DeletePublish
    <3>3. QED
      BY <1>3, <1>4, <3>2, LookEnds
  <2>3. FreeBlocks(disk') = {}
    BY <1>2, <2>1 DEF SystemRight, CallFacts, ResultIsRight
  <2>4. QED
    BY <2>1, <2>2, <2>3 DEF CreateResult
<1>7. CASE CreateScan
  <2>1. pc = "scan" /\ call.next # 0 /\ Name(disk[call.next]) = call.name
        /\ call' = [call EXCEPT !.status = ALREADY_EXISTS]
    BY <1>7 DEF CreateScan, Done, Goto
  <2>2. call'.status = ALREADY_EXISTS /\ call'.before = call.before /\ call'.name = call.name
    BY <1>3, <2>1 DEF Fields
  <2>3. call.next \in L
    <3>1. L \in SUBSET FileIds /\ Whole(disk, L, own) /\ Place(L)
      BY <1>1, <2>1 DEF BlockInvariantOf, AtScan
    <3>2. QED
      BY <2>1, <3>1, PlaceFacts
  <2>4. L = DOMAIN call.before /\ call.before[call.next].name = Name(disk[call.next])
    BY <1>1, <1>3, <2>1, <2>3, LookFiles DEF Looks
  <2>5. QED
    BY <2>1, <2>2, <2>3, <2>4 DEF CreateResult
<1>8. CASE CreateLink \/ CreateFill
  BY <1>8 DEF CreateLink, CreateFill, Goto
<1>9. QED
  BY <1>5, <1>6, <1>7, <1>8, CreateSteps1

-----------------------------------------------------------------------------
\* The size of a file, and reads, leave the disk and the streams that write alone.
LEMMA StatGoesOn ==
  ASSUME DOMAIN call = Fields, NEW f, StatCall(f), pc # "done", Step
  PROVE  /\ StatCall(f)' /\ disk' = disk /\ writer' = writer /\ reader' = reader
         /\ pc' = "done" => call'.status = OK
<1>1. call.op = "stat" /\ call.file = f /\ f # 0 /\ pc \in {"found", "size"}
  BY DEF StatCall
<1>2. SizeStart \/ SizeStep
  <2>1. ~ FindStep /\ ~ ReadStep /\ ~ WriteStep /\ ~ WriteCommit /\ ~ FreeStep /\ ~ CreateScan
    BY <1>1 DEF FindStep, ReadStep, WriteStep, WriteCommit, FreeStep, CreateScan
  <2>2. ~ ClearFreed /\ ~ ClearSize /\ ~ DeleteUnlink /\ ~ DeletePublish /\ ~ Return
    BY <1>1 DEF ClearFreed, ClearSize, DeleteUnlink, DeletePublish, Return
  <2>3. ~ CreateLink /\ ~ CreateFill /\ ~ CreatePublish /\ ~ CreateStart
    BY <1>1 DEF CreateLink, CreateFill, CreatePublish, CreateStart
  <2>4. ~ FindFails /\ ~ OpenRead /\ ~ ClearStart /\ ~ DeleteStart
    BY <1>1 DEF FindFails, OpenRead, ClearStart, DeleteStart
  <2>5. QED
    BY <2>1, <2>2, <2>3, <2>4 DEF Step
<1>3. CASE SizeStart
  BY <1>1, <1>3 DEF StatCall, SizeStart, Goto, Fields, Streams, ReadBlock
<1>4. CASE SizeStep
  BY <1>1, <1>4 DEF StatCall, SizeStep, Goto, Done, Fields, Streams, ReadBlock
<1>5. QED
  BY <1>2, <1>3, <1>4

LEMMA ReadStepOnly ==
  ASSUME ReadCall, pc # "done", Step
  PROVE  ReadStep
<1>1. pc = "read"
  BY DEF ReadCall
<1>2. ~ FindStep /\ ~ WriteStep /\ ~ WriteCommit /\ ~ FreeStep /\ ~ CreateScan
  BY <1>1 DEF FindStep, WriteStep, WriteCommit, FreeStep, CreateScan
<1>3. ~ ClearFreed /\ ~ ClearSize /\ ~ DeleteUnlink /\ ~ DeletePublish /\ ~ Return
  BY <1>1 DEF ClearFreed, ClearSize, DeleteUnlink, DeletePublish, Return
<1>4. ~ CreateLink /\ ~ CreateFill /\ ~ CreatePublish /\ ~ CreateStart
  BY <1>1 DEF CreateLink, CreateFill, CreatePublish, CreateStart
<1>5. ~ FindFails /\ ~ OpenRead /\ ~ ClearStart /\ ~ DeleteStart /\ ~ SizeStart /\ ~ SizeStep
  BY <1>1 DEF FindFails, OpenRead, ClearStart, DeleteStart, SizeStart, SizeStep
<1>6. QED
  BY <1>2, <1>3, <1>4, <1>5 DEF Step

\* What a read has still to get, and what it has got.
Asks(n) == call.size \in Nat /\ IsSeq(call.bytes) /\ call.size + Len(call.bytes) = n

LEMMA CopyFromIs ==
  ASSUME NEW b, NEW o, NEW n \in Nat
  PROVE  IsSeq(CopyFrom(b, o, n)) /\ Len(CopyFrom(b, o, n)) = n
<1>1. PICK s : s = CopyFrom(b, o, n)
  OBVIOUS
<1>2. DOMAIN s = 1 .. n /\ s = [i \in DOMAIN s |-> s[i]]
  BY <1>1 DEF CopyFrom
<1>3. QED
  BY <1>1, <1>2, FunctionIsSeq

LEMMA ReadGets ==
  ASSUME SystemRight, ReadCall, pc # "done", Step, NEW n \in Nat, Asks(n)
  PROVE  /\ ReadCall' /\ Asks(n)' /\ disk' = disk /\ writer' = writer /\ reader'.file = reader.file
         /\ call'.from = call.from
         /\ pc' = "done" => call'.status = OK
<1>1. ReadStep /\ pc = "read" /\ call.op = "read"
  BY ReadStepOnly DEF ReadCall
<1>2. PICK L, own : BlockInvariantOf(L, own)
  BY DEF SystemRight, BlockInvariant
<1>3. DOMAIN call = Fields /\ Whole(disk, L, own) /\ L = DOMAIN call.before
  BY <1>1, <1>2 DEF BlockInvariantOf, AtQuery
<1>4. Available(disk, reader) \in Nat
  <2>1. reader.file # 0
    BY <1>1 DEF SystemRight, ReaderRight, ReadOn
  <2>2. reader.file \in L /\ InFile(disk, reader)
    <3>1. Store = call.before
      BY <1>1 DEF Store, Resting
    <3>2. QED
      BY <1>3, <2>1, <3>1 DEF SystemRight, ReaderRight, ReaderOn
  <2>3. OnDisk(disk, L, own, reader.file)
    BY <1>2, <1>3, <2>2, OnDiskIs
  <2>4. QED
    BY <2>2, <2>3, AvailableNat
<1>5. PICK a : a = Available(disk, reader) /\ a \in Nat
  BY <1>4
<1>6. PICK b, o, next : b = disk[reader.block] /\ o = reader.offset /\ next = block_get_next(b)
  OBVIOUS
<1>7. PICK c, size : c = call.bytes /\ size = call.size
  OBVIOUS
<1>8. \A k \in Nat : IsSeq(CopyFrom(b, o, k)) /\ Len(CopyFrom(b, o, k)) = k
  BY CopyFromIs
<1>9. \A k \in Nat : /\ IsSeq(c \o CopyFrom(b, o, k))
                     /\ Len(c \o CopyFrom(b, o, k)) = Len(c) + k
  <2>1. TAKE k \in Nat
  <2>2. PICK v : v = CopyFrom(b, o, k)
    OBVIOUS
  <2>3. IsSeq(v) /\ Len(v) = k /\ IsSeq(c)
    BY <1>7, <1>8, <2>2 DEF Asks
  <2>4. Joins(c \o v, c, v)
    BY <2>3, Concatenated
  <2>5. QED
    BY <2>2, <2>3, <2>4 DEF Joins
<1>10. disk' = disk /\ writer' = writer
  BY <1>1 DEF ReadStep, ReadBlock
<1>11. DOMAIN reader = {"file", "block", "offset"}
  BY DEF SystemRight, ReaderRight
<1>12. \/ /\ a >= size /\ reader' = [reader EXCEPT !.offset = @ + size]
          /\ Done(OK, [call EXCEPT !.bytes = @ \o CopyFrom(b, o, size), !.size = @ - size])
       \/ /\ a < size /\ next = 0 /\ UNCHANGED reader
          /\ Done(OK, [call EXCEPT !.bytes = @ \o CopyFrom(b, o, a), !.size = @ - a])
       \/ /\ a < size /\ next # 0 /\ reader' = [reader EXCEPT !.block = next, !.offset = 1]
          /\ Goto("read", [call EXCEPT !.bytes = @ \o CopyFrom(b, o, a), !.size = @ - a])
  BY <1>1, <1>5, <1>6, <1>7 DEF ReadStep, Available
<1>13. size \in Nat /\ IsSeq(c) /\ Len(c) \in Nat /\ size + Len(c) = n
  BY <1>7, SeqIs DEF Asks
<1>14. CASE a >= size
  <2>1. PICK u : u = c \o CopyFrom(b, o, size) /\ IsSeq(u) /\ Len(u) = Len(c) + size
    BY <1>9, <1>13
  <2>6. PICK cc : cc = [call EXCEPT !.bytes = u, !.size = size - size]
    OBVIOUS
  <2>2. /\ pc' = "done" /\ call' = [cc EXCEPT !.status = OK]
        /\ reader' = [reader EXCEPT !.offset = @ + size]
    <3>1. ~ a < size
      BY <1>5, <1>13, <1>14
    <3>2. QED
      BY <1>7, <1>12, <2>1, <2>6, <3>1 DEF Done
  <2>7. size - size = 0
    BY <1>13
  <2>3. call'.bytes = u /\ call'.size = 0 /\ call'.op = "read" /\ call'.from = call.from /\ call'.status = OK
    BY <1>1, <1>3, <2>2, <2>6, <2>7 DEF Fields
  <2>4. reader'.file = reader.file
    BY <1>11, <2>2
  <2>5. 0 \in Nat /\ 0 + Len(u) = n
    BY <1>13, <2>1
  <2>8. QED
    BY <1>10, <2>1, <2>2, <2>3, <2>4, <2>5 DEF ReadCall, Asks
<1>15. CASE ~ a >= size
  <2>1. PICK u : u = c \o CopyFrom(b, o, a) /\ IsSeq(u) /\ Len(u) = Len(c) + a
    BY <1>5, <1>9
  <2>2. PICK cc : cc = [call EXCEPT !.bytes = u, !.size = size - a]
    OBVIOUS
  <2>3. /\ \/ pc' = "done" /\ call' = [cc EXCEPT !.status = OK]
           \/ pc' = "read" /\ call' = cc
        /\ reader' = reader \/ reader' = [reader EXCEPT !.block = next, !.offset = 1]
    BY <1>5, <1>7, <1>12, <1>13, <1>15, <2>1, <2>2 DEF Done, Goto
  <2>4. /\ call'.bytes = u /\ call'.size = size - a /\ call'.op = "read" /\ call'.from = call.from
        /\ pc' = "done" => call'.status = OK
    BY <1>1, <1>3, <2>2, <2>3 DEF Fields
  <2>5. reader'.file = reader.file
    BY <1>11, <2>3
  <2>6. size - a \in Nat /\ (size - a) + Len(u) = n
    BY <1>5, <1>13, <1>15, <2>1
  <2>7. QED
    BY <1>10, <2>1, <2>3, <2>4, <2>5, <2>6 DEF ReadCall, Asks
<1>16. QED
  BY <1>14, <1>15

\* The machine is off: the calls to the file system, and the streams.
LEMMA AnyLoads ==
  ASSUME LoadRight, [AnyNext]_vars, step = "off", UNCHANGED loader
  PROVE  LoadRight'
<1>1. SystemRight'
  BY SystemKeeps DEF LoadRight
<1>2. EndKept'
  BY <1>1, EndKeeps DEF LoadRight, SystemRight
<1>3. SuperHasNoName'
  BY SuperKeeps DEF LoadRight, SystemRight
<1>4. LoaderRight'
  BY DEF loader, LoaderRight, LoadRight
<1>5. QED
  BY <1>1, <1>2, <1>3, <1>4 DEF LoadRight

LEMMA RestLoads ==
  ASSUME LoadRight, SystemRight', disk' = disk, step = "off", UNCHANGED loader,
         ~ Resting' \/ call' = NoCall \/ (call' = call /\ Resting)
  PROVE  LoadRight'
<1>1. EndKept'
  <2>1. CASE ~ Resting'
    BY <2>1 DEF EndKept
  <2>2. CASE call' = NoCall
    <3>1. call'.before = <<>>
      BY <2>2 DEF NoCall
    <3>2. QED
      BY <3>1 DEF EndKept
  <2>3. CASE call' = call /\ Resting
    BY <2>3 DEF EndKept, LoadRight
  <2>4. QED
    BY <2>1, <2>2, <2>3
<1>2. SuperHasNoName'
  BY DEF SuperHasNoName, LoadRight
<1>3. LoaderRight'
  BY DEF loader, LoaderRight, LoadRight
<1>4. QED
  BY <1>1, <1>2, <1>3 DEF LoadRight

-----------------------------------------------------------------------------
(***************************************************************************)
(* dumptoysfs.  The files before x in the list, all of them if x is 0.     *)
(***************************************************************************)
Before(d, x) == {f \in Listed(d) : x = 0 \/ Name(d[f]) < Name(d[x])}

LEMMA SavedFile ==
  ASSUME BlockInvariant, Resting, NEW f \in Listed(disk)
  PROVE  /\ f \in FileIds /\ f # 0 /\ f \in DOMAIN Files(disk)
         /\ Files(disk)[f].name = Name(disk[f]) /\ Name(disk[f]) \in Names /\ Name(disk[f]) \in Nat
         /\ Files(disk)[f].data = Data(disk, f) /\ Data(disk, f) \in Seq(Nat)
         /\ NextFile(disk[f]) \in Listed(disk) \cup {0}
         /\ NextFile(disk[f]) # 0 => Name(disk[f]) < Name(disk[NextFile(disk[f])])
<1>1. PICK L, own : BlockInvariantOf(L, own)
  BY DEF BlockInvariant
<1>2. L \in SUBSET FileIds /\ Whole(disk, L, own) /\ Listing(disk, L)
  BY <1>1 DEF BlockInvariantOf, Resting, Whole
<1>3. Listed(disk) = L /\ DOMAIN Files(disk) = L
  BY <1>2, ListedAre, FilesAre
<1>4. IsFiles(Files(disk))
  BY <1>1, RestingFiles
<1>5. Files(disk)[f].data \in Seq(Nat)
  BY <1>3, <1>4 DEF IsFiles
<1>6. f \in FileIds /\ f # 0
  BY <1>2, <1>3, BlockSets
<1>7. QED
  BY <1>2, <1>3, <1>5, <1>6, ListingFacts, FilesAre

LEMMA BeforeFirst ==
  ASSUME BlockInvariant, Resting
  PROVE  FirstFile(disk) \in Listed(disk) \cup {0} /\ Before(disk, FirstFile(disk)) = {}
<1>1. PICK L, own : BlockInvariantOf(L, own)
  BY DEF BlockInvariant
<1>2. L \in SUBSET FileIds /\ Listing(disk, L)
  BY <1>1 DEF BlockInvariantOf, Resting, Whole
<1>3. Listed(disk) = L
  BY <1>2, ListedAre
<1>4. Smaller(disk, L, FirstFile(disk), 0)
  BY <1>2, FirstIsSmallest
<1>5. \A f \in L : Name(disk[f]) \in Nat
  BY <1>2, ListingFacts
<1>6. ASSUME NEW f \in Before(disk, FirstFile(disk))
      PROVE  FALSE
  <2>1. f \in L /\ (FirstFile(disk) = 0 \/ Name(disk[f]) < Name(disk[FirstFile(disk)]))
    BY <1>3, <1>6 DEF Before
  <2>2. Name(disk[f]) < 0 /\ Name(disk[f]) \in Nat
    BY <1>4, <1>5, <2>1 DEF Smaller
  <2>3. QED
    BY <2>2
<1>7. QED
  BY <1>2, <1>3, <1>6, ListingFacts

LEMMA BeforeNext ==
  ASSUME BlockInvariant, Resting, NEW z \in Listed(disk)
  PROVE  Before(disk, NextFile(disk[z])) = Before(disk, z) \cup {z}
<1>1. PICK L, own : BlockInvariantOf(L, own)
  BY DEF BlockInvariant
<1>2. L \in SUBSET FileIds /\ Listing(disk, L)
  BY <1>1 DEF BlockInvariantOf, Resting, Whole
<1>3. Listed(disk) = L /\ DOMAIN Files(disk) = L
  BY <1>2, ListedAre, FilesAre
<1>4. PICK n, y : n = Name(disk[z]) /\ y = NextFile(disk[z])
  OBVIOUS
<1>5. n \in Nat /\ y \in L \cup {0} /\ (y # 0 => n < Name(disk[y])) /\ z # 0
  BY <1>3, <1>4, SavedFile
<1>6. \A f \in L : Name(disk[f]) \in Nat
  BY <1>3, SavedFile
<1>7. Smaller(disk, L, y, n + 1)
  <2>1. n + 1 \in Nat /\ n < n + 1
    BY <1>5
  <2>2. QED
    BY <1>2, <1>3, <1>4, <2>1, NextIsSmallest
<1>8. Different(Files(disk))
  BY <1>2, DifferentFiles
<1>9. \A f \in L : Name(disk[f]) = n => f = z
  <2>1. \A f \in L : Files(disk)[f].name = Name(disk[f])
    BY <1>3, SavedFile
  <2>2. QED
    BY <1>3, <1>4, <1>8, <2>1 DEF Different
<1>10. ASSUME NEW f \in L
       PROVE  (y = 0 \/ Name(disk[f]) < Name(disk[y])) <=> (Name(disk[f]) < n \/ f = z)
  <2>1. ASSUME y = 0 \/ Name(disk[f]) < Name(disk[y])
        PROVE  Name(disk[f]) < n \/ f = z
    <3>1. Name(disk[f]) < n + 1 /\ Name(disk[f]) \in Nat
      BY <1>6, <1>7, <1>10, <2>1 DEF Smaller
    <3>2. Name(disk[f]) < n \/ Name(disk[f]) = n
      BY <1>5, <3>1
    <3>3. QED
      BY <1>9, <1>10, <3>2
  <2>2. ASSUME Name(disk[f]) < n \/ f = z, y # 0
        PROVE  Name(disk[f]) < Name(disk[y])
    <3>1. Name(disk[f]) <= n /\ Name(disk[f]) \in Nat
      BY <1>4, <1>5, <1>6, <2>2
    <3>2. n < Name(disk[y]) /\ Name(disk[y]) \in Nat
      BY <1>5, <1>6, <2>2
    <3>3. QED
      BY <1>5, <3>1, <3>2
  <2>3. QED
    BY <2>1, <2>2
<1>11. \A f : f \in Before(disk, y) <=> f \in L /\ (y = 0 \/ Name(disk[f]) < Name(disk[y]))
  BY <1>3 DEF Before
<1>12. \A f : f \in Before(disk, z) <=> f \in L /\ Name(disk[f]) < n
  BY <1>3, <1>4, <1>5 DEF Before
<1>13. \A f : f \in Before(disk, y) <=> f \in Before(disk, z) \cup {z}
  BY <1>3, <1>10, <1>11, <1>12
<1>14. Before(disk, y) = Before(disk, z) \cup {z}
  BY <1>13
<1>15. QED
  BY <1>4, <1>14

\* Where a stream is in its file.
LEMMA PositionBound ==
  ASSUME BlockInvariant, Resting, NEW s, s.file \in Listed(disk), InFile(disk, s)
  PROVE  PositionOn(disk, s) \in 0 .. Len(Data(disk, s.file))
<1>1. PICK L, own : BlockInvariantOf(L, own)
  BY DEF BlockInvariant
<1>2. L \in SUBSET FileIds /\ Whole(disk, L, own) /\ Listing(disk, L) /\ DiskOK(disk, L)
  BY <1>1 DEF BlockInvariantOf, Resting, Whole
<1>3. PICK f, n : f = s.file /\ n = Name(disk[f])
  OBVIOUS
<1>4. OnDisk(disk, L, own, f)
  <2>1. Listed(disk) = L
    BY <1>2, ListedAre
  <2>2. QED
    BY <1>1, <1>2, <1>3, <2>1, OnDiskIs
<1>5. PICK g, m, k : IsPath(disk, f, g, m) /\ StreamAt(disk, g, m, k, s)
  BY <1>3 DEF InFile
<1>6. /\ m \in Nat /\ Data(disk, f) = DataOf(disk, n, g, m) /\ HasData(disk, n, g, m) /\ n \in Names
  BY <1>3, <1>4, <1>5, PathOnDisk DEF OnDisk
<1>7. s.block = g[k] /\ Within(disk, n, g, m, k, s.offset)
  BY <1>3, <1>5 DEF StreamAt
<1>8. PICK o : o = s.offset
  OBVIOUS
<1>9. PositionOn(disk, s) = BytesTo(n, k, o)
  <2>1. f \in FileIds /\ k \in 0 .. m
    BY <1>4, <1>7 DEF OnDisk, Within
  <2>2. QED
    BY <1>2, <1>3, <1>5, <1>7, <1>8, <2>1, PositionIs
<1>10. BytesTo(n, k, o) \in Nat /\ BytesTo(n, k, o) + 0 <= DataLength(disk, n, g, m)
  <2>1. /\ k \in 0 .. m /\ o \in DataStart(n, k) .. UpTo(disk, g, m, k)
    BY <1>7, <1>8 DEF Within
  <2>2. 0 \in 0 .. UpTo(disk, g, m, k) - o
    BY <1>6, <1>7, <1>8, PlaceBounds
  <2>3. QED
    BY <1>6, <2>1, <2>2, BytesOfBlock
<1>11. Len(Data(disk, f)) = DataLength(disk, n, g, m) /\ Data(disk, f) \in Seq(Nat)
  BY <1>6, DataIsSeq
<1>12. Len(Data(disk, f)) \in Nat
  BY <1>11
<1>13. QED
  BY <1>3, <1>9, <1>10, <1>11, <1>12

\* A stream that is opened begins with the data.
LEMMA FirstPosition ==
  ASSUME BlockInvariant, Resting, NEW f \in Listed(disk),
         NEW r, r = [file |-> f, block |-> f, offset |-> HeaderSize(Name(disk[f]))]
  PROVE  PositionOn(disk, r) = 0 /\ InFile(disk, r)
<1>1. PICK L, own : BlockInvariantOf(L, own)
  BY DEF BlockInvariant
<1>2. L \in SUBSET FileIds /\ Whole(disk, L, own) /\ Listing(disk, L) /\ DiskOK(disk, L)
      /\ Layout(own, Link(disk), L, FreeHead(disk))
  BY <1>1 DEF BlockInvariantOf, Resting, Whole
<1>3. Listed(disk) = L
  BY <1>2, ListedAre
<1>4. OnDisk(disk, L, own, f)
  BY <1>1, <1>2, <1>3, OnDiskIs
<1>5. PICK s : s = Link(disk)
  OBVIOUS
<1>6. PICK g, m : IsPath(disk, f, g, m)
  BY <1>2, <1>3, <1>5, FileHasPath
<1>7. m \in Nat /\ Name(disk[f]) \in Names /\ f \in FileIds
  BY <1>4, <1>6, PathOnDisk DEF OnDisk
<1>8. r.file = f /\ r.block = g[0] /\ r.offset = HeaderSize(Name(disk[f])) /\ 0 \in 0 .. m
  BY <1>6, <1>7 DEF IsPath
<1>9. PositionOn(disk, r) = BytesTo(Name(disk[f]), 0, HeaderSize(Name(disk[f])))
  BY <1>2, <1>6, <1>7, <1>8, PositionIs
<1>10. BytesTo(Name(disk[f]), 0, HeaderSize(Name(disk[f]))) = 0
  <2>1. HeaderSize(Name(disk[f])) \in Nat
    <3>1. DataStart(Name(disk[f]), 0) \in 1 .. BlockSize /\ BlockSize \in Nat
      BY <1>7, Chunks, BlockSets
    <3>2. QED
      BY <3>1 DEF DataStart
  <2>2. QED
    BY <2>1 DEF BytesTo, DataStart, ChunkStart
<1>11. InFile(disk, r)
  BY <1>4, FirstInFile
<1>12. QED
  BY <1>9, <1>10, <1>11

-----------------------------------------------------------------------------
(***************************************************************************)
(* What dumptoysfs has got of the bytes x of a file named n, after p bytes *)
(* of it.                                                                  *)
(***************************************************************************)
SectorsTo(p) == (p + BlockSize - 1) \div BlockSize
LinesTo(x, p) == {i \in 1 .. p : i = 1 \/ x[i - 1] = NEW_LINE}

\* The bytes x, then zeros.
Extended(x, m) == [i \in 1 .. m |-> IF i <= Len(x) THEN x[i] ELSE 0]

Got(t, n, x, p) ==
  /\ p \in 0 .. Len(x) /\ t.size = Len(x) /\ t.remaining = Len(x) - p
  /\ p = Len(x) \/ SectorsTo(p) * BlockSize = p
  /\ t.tar => t.content = Extended(x, SectorsTo(p) * BlockSize)
  /\ ~ t.tar => /\ t.lines = IF n \in SourceFiles THEN Cardinality(LinesTo(x, p)) ELSE 0
                /\ n \in SourceFiles => t.last = IF p = 0 THEN NEW_LINE ELSE x[p]

LEMMA GotFirst ==
  ASSUME NEW t, NEW n, NEW x \in Seq(Nat), t.size = Len(x), t.remaining = Len(x),
         t.content = <<>>, t.lines = 0, t.last = NEW_LINE
  PROVE  Got(t, n, x, 0)
<1>1. SectorsTo(0) = 0 /\ 0 * BlockSize = 0
  <2>1. BlockSize \in Nat /\ BlockSize > 2
    BY BlockSets
  <2>2. 0 * BlockSize + (BlockSize - 1) = 0 + BlockSize - 1 /\ BlockSize - 1 \in 0 .. BlockSize - 1
    BY <2>1
  <2>3. (0 * BlockSize + (BlockSize - 1)) \div BlockSize = 0
    BY <2>1, <2>2, DivModUnique
  <2>4. QED
    BY <2>1, <2>2, <2>3 DEF SectorsTo
<1>2. Len(x) \in Nat
  OBVIOUS
<1>3. LinesTo(x, 0) = {}
  BY DEF LinesTo
<1>4. Cardinality(LinesTo(x, 0)) = 0
  BY <1>3, FS_EmptySet
<1>5. Extended(x, 0) = <<>>
  BY DEF Extended
<1>6. Extended(x, SectorsTo(0) * BlockSize) = <<>>
  BY <1>1, <1>5
<1>7. 0 \in 0 .. Len(x) /\ Len(x) - 0 = Len(x)
  BY <1>2
<1>8. QED
  BY <1>1, <1>4, <1>6, <1>7 DEF Got

\* One more sector.
LEMMA SectorsMore ==
  ASSUME NEW p \in Nat, SectorsTo(p) * BlockSize = p, NEW k \in 1 .. BlockSize
  PROVE  /\ SectorsTo(p + k) * BlockSize = p + BlockSize
         /\ k = BlockSize => SectorsTo(p + k) * BlockSize = p + k
<1>1. BlockSize \in Nat \ {0} /\ k \in Nat /\ k >= 1 /\ k <= BlockSize
  BY BlockSets
<1>2. PICK a : a = SectorsTo(p)
  OBVIOUS
<1>3. a \in Nat /\ a * BlockSize = p
  BY <1>1, <1>2, DivMod DEF SectorsTo
<1>4. (a + 1) * BlockSize = p + BlockSize /\ a + 1 \in Nat
  BY <1>1, <1>3
<1>5. k - 1 \in 0 .. BlockSize - 1
  BY <1>1
<1>6. ((a + 1) * BlockSize + (k - 1)) \div BlockSize = a + 1
  BY <1>1, <1>4, <1>5, DivModUnique
<1>7. (a + 1) * BlockSize + (k - 1) = p + k + BlockSize - 1
  BY <1>1, <1>4
<1>8. SectorsTo(p + k) = a + 1
  BY <1>6, <1>7 DEF SectorsTo
<1>9. QED
  BY <1>1, <1>4, <1>8

\* The k bytes after the first p ones.
Piece(x, p, k) == SubSeq(x, p + 1, p + k)

LEMMA Padding ==
  ASSUME NEW x \in Seq(Nat), NEW p \in Nat, NEW k \in 1 .. BlockSize, p + k <= Len(x),
         k = BlockSize \/ p + k = Len(x)
  PROVE  Extended(x, p) \o Padded(Piece(x, p, k)) = Extended(x, p + BlockSize)
<1>0. PICK c, u : c = Extended(x, p) /\ u = Piece(x, p, k)
  OBVIOUS
<1>1. BlockSize \in Nat /\ k \in Nat /\ k >= 1 /\ k <= BlockSize /\ Len(x) \in Nat
  BY BlockSets
<1>2. Len(u) = k /\ \A i \in 1 .. k : u[i] = x[p + i]
  <2>1. PICK b : b = p + k
    OBVIOUS
  <2>5. u = SubSeq(x, p + 1, b)
    BY <1>0, <2>1 DEF Piece
  <2>2. p \in Nat /\ b \in Nat /\ p <= b /\ b <= Len(x) /\ b - p = k
    BY <1>1, <2>1
  <2>3. u \in Seq(Nat) /\ Len(u) = b - p /\ \A i \in 1 .. b - p : u[i] = x[p + i]
    BY <2>2, <2>5, PartOf
  <2>4. QED
    BY <2>2, <2>3
<1>3. PICK v : v = Padded(u)
  OBVIOUS
<1>4. v = [i \in 1 .. BlockSize |-> IF i <= k THEN u[i] ELSE 0]
  BY <1>2, <1>3 DEF Padded
<1>5. IsSeq(v) /\ Len(v) = BlockSize
  <2>1. DOMAIN v = 1 .. BlockSize /\ v = [i \in DOMAIN v |-> v[i]]
    BY <1>4
  <2>2. QED
    BY <1>1, <2>1, FunctionIsSeq
<1>6. IsSeq(c) /\ Len(c) = p
  <2>1. DOMAIN c = 1 .. p /\ c = [i \in DOMAIN c |-> c[i]]
    BY <1>0 DEF Extended
  <2>2. QED
    BY <2>1, FunctionIsSeq
<1>7. PICK w : w = c \o v
  OBVIOUS
<1>8. Joins(w, c, v)
  BY <1>5, <1>6, <1>7, Concatenated
<1>9. w = [i \in 1 .. p + BlockSize |-> w[i]]
  BY <1>5, <1>6, <1>8, SeqIs DEF Joins
<1>10. ASSUME NEW i \in 1 .. p + BlockSize
       PROVE  w[i] = IF i <= Len(x) THEN x[i] ELSE 0
  <2>1. CASE i <= p
    <3>1. i \in 1 .. Len(c) /\ i <= Len(x) /\ i \in 1 .. p
      BY <1>1, <1>6, <2>1
    <3>2. w[i] = c[i]
      BY <1>8, <3>1 DEF Joins
    <3>3. QED
      BY <1>0, <3>1, <3>2 DEF Extended
  <2>2. CASE i > p
    <3>1. i - p \in 1 .. BlockSize /\ p + (i - p) = i /\ i \in Nat
      BY <1>1, <2>2
    <3>2. w[i] = v[i - p]
      BY <1>5, <1>6, <1>8, <3>1 DEF Joins
    <3>3. v[i - p] = IF i - p <= k THEN u[i - p] ELSE 0
      BY <1>4, <3>1
    <3>4. CASE i - p <= k
      <4>1. i - p \in 1 .. k /\ i <= Len(x)
        BY <1>1, <3>1, <3>4
      <4>2. u[i - p] = x[p + (i - p)]
        BY <1>2, <4>1
      <4>3. QED
        BY <3>1, <3>2, <3>3, <3>4, <4>1, <4>2
    <3>5. CASE ~ i - p <= k
      <4>1. ~ i <= Len(x)
        BY <1>1, <3>1, <3>5
      <4>2. QED
        BY <3>2, <3>3, <3>5, <4>1
    <3>6. QED
      BY <3>4, <3>5
  <2>3. QED
    BY <1>1, <2>1, <2>2
<1>11. QED
  BY <1>0, <1>3, <1>7, <1>9, <1>10 DEF Extended

LEMMA LinesMore ==
  ASSUME NEW x \in Seq(Nat), NEW p \in Nat, NEW k \in Nat \ {0}, p + k <= Len(x),
         NEW u, u = Piece(x, p, k), NEW last, last = IF p = 0 THEN NEW_LINE ELSE x[p]
  PROVE  /\ Cardinality(LinesTo(x, p + k)) = Cardinality(LinesTo(x, p)) + Cardinality(NewLines(u, last))
         /\ u[k] = x[p + k]
<1>1. Len(x) \in Nat /\ k >= 1
  OBVIOUS
<1>2. Len(u) = k /\ u \in Seq(Nat) /\ \A i \in 1 .. k : u[i] = x[p + i]
  <2>1. PICK b : b = p + k
    OBVIOUS
  <2>2. p \in Nat /\ b \in Nat /\ p <= b /\ b <= Len(x) /\ b - p = k /\ u = SubSeq(x, p + 1, b)
    BY <1>1, <2>1 DEF Piece
  <2>3. u \in Seq(Nat) /\ Len(u) = b - p /\ \A i \in 1 .. b - p : u[i] = x[p + i]
    BY <2>2, PartOf
  <2>4. QED
    BY <2>2, <2>3
<1>3. PICK S, T, U : S = LinesTo(x, p) /\ T = NewLines(u, last) /\ U = {p + i : i \in T}
  OBVIOUS
<1>4. DOMAIN u = 1 .. k
  BY <1>2
<1>5. \A i \in 1 .. k : i \in T <=> (p + i = 1 \/ x[p + i - 1] = NEW_LINE)
  <2>1. TAKE i \in 1 .. k
  <2>2. i \in T <=> (IF i = 1 THEN last ELSE u[i - 1]) = NEW_LINE
    BY <1>3, <1>4 DEF NewLines
  <2>3. CASE i = 1
    <3>1. p + i = 1 <=> p = 0
      BY <2>3
    <3>2. p + i - 1 = p
      BY <2>3
    <3>3. QED
      BY <2>2, <2>3, <3>1, <3>2
  <2>4. CASE i # 1
    <3>1. i - 1 \in 1 .. k /\ p + (i - 1) = p + i - 1 /\ p + i # 1
      BY <2>4
    <3>2. u[i - 1] = x[p + i - 1]
      BY <1>2, <3>1
    <3>3. QED
      BY <2>2, <2>4, <3>1, <3>2
  <2>5. QED
    BY <2>3, <2>4
<1>6. T \subseteq 1 .. k
  BY <1>3, <1>4 DEF NewLines
<1>7. LinesTo(x, p + k) = S \cup U
  <2>1. ASSUME NEW j \in LinesTo(x, p + k)
        PROVE  j \in S \cup U
    <3>1. j \in 1 .. p + k /\ (j = 1 \/ x[j - 1] = NEW_LINE)
      BY <2>1 DEF LinesTo
    <3>2. CASE j <= p
      <4>1. j \in 1 .. p
        BY <3>1, <3>2
      <4>2. QED
        BY <1>3, <3>1, <4>1 DEF LinesTo
    <3>3. CASE ~ j <= p
      <4>1. PICK i : i = j - p
        OBVIOUS
      <4>2. i \in 1 .. k /\ p + i = j /\ p + i - 1 = j - 1
        BY <3>1, <3>3, <4>1
      <4>3. i \in T
        BY <1>5, <3>1, <4>2
      <4>4. QED
        BY <1>3, <4>2, <4>3
    <3>4. QED
      BY <3>2, <3>3
  <2>2. ASSUME NEW j \in S
        PROVE  j \in LinesTo(x, p + k)
    <3>1. j \in 1 .. p /\ (j = 1 \/ x[j - 1] = NEW_LINE)
      BY <1>3, <2>2 DEF LinesTo
    <3>2. j \in 1 .. p + k
      BY <3>1
    <3>3. QED
      BY <3>1, <3>2 DEF LinesTo
  <2>3. ASSUME NEW j \in U
        PROVE  j \in LinesTo(x, p + k)
    <3>1. PICK i \in T : j = p + i
      BY <1>3, <2>3
    <3>2. i \in 1 .. k /\ (j = 1 \/ x[j - 1] = NEW_LINE)
      BY <1>5, <1>6, <3>1
    <3>3. j \in 1 .. p + k
      BY <3>1, <3>2
    <3>4. QED
      BY <3>2, <3>3 DEF LinesTo
  <2>4. QED
    BY <2>1, <2>2, <2>3
<1>8. S \subseteq 1 .. p /\ S \cap U = {}
  <2>1. S \subseteq 1 .. p
    BY <1>3 DEF LinesTo
  <2>2. \A j \in U : j > p
    BY <1>3, <1>6
  <2>3. \A j \in S : j <= p /\ j \in Nat
    BY <2>1
  <2>4. ASSUME NEW j \in S \cap U
        PROVE  FALSE
    <3>1. j > p /\ j <= p /\ j \in Nat
      BY <2>2, <2>3, <2>4
    <3>2. QED
      BY <3>1
  <2>5. QED
    BY <2>1, <2>4
<1>9. IsFiniteSet(S) /\ IsFiniteSet(T)
  <2>1. IsFiniteSet(1 .. p) /\ IsFiniteSet(1 .. k)
    BY FS_Interval
  <2>2. QED
    BY <1>6, <1>8, <2>1, FS_Subset
<1>10. IsFiniteSet(U) /\ Cardinality(U) = Cardinality(T)
  <2>1. PICK f : f = [i \in T |-> p + i]
    OBVIOUS
  <2>2. f \in Bijection(T, U)
    <3>1. f \in Surjection(T, U)
      BY <1>3, <2>1 DEF Surjection
    <3>2. f \in Injection(T, U)
      <4>1. \A i, j \in T : f[i] = f[j] => i = j
        BY <1>6, <2>1
      <4>2. f \in [T -> U]
        BY <1>3, <2>1
      <4>3. QED
        BY <4>1, <4>2 DEF Injection, IsInjective
    <3>3. QED
      BY <3>1, <3>2 DEF Bijection
  <2>3. ExistsBijection(T, U)
    BY <2>2 DEF ExistsBijection
  <2>4. QED
    BY <1>9, <2>3, FS_Bijection
<1>11. Cardinality(S \cup U) = Cardinality(S) + Cardinality(U)
  <2>1. /\ IsFiniteSet(S \cap U)
        /\ Cardinality(S \cup U) = Cardinality(S) + Cardinality(U) - Cardinality(S \cap U)
    BY <1>8, <1>9, <1>10, FS_Union, FS_EmptySet
  <2>2. Cardinality(S \cap U) = 0
    BY <1>8, FS_EmptySet
  <2>3. Cardinality(S) \in Nat /\ Cardinality(U) \in Nat
    BY <1>9, <1>10, FS_CardinalityType
  <2>4. QED
    BY <2>1, <2>2, <2>3
<1>12. k \in 1 .. k
  BY <1>1
<1>13. QED
  BY <1>2, <1>3, <1>7, <1>10, <1>11, <1>12

\* t is v with the k bytes u more.
More(v, t, n, u, k) ==
  /\ v.tar = t.tar /\ v.tar \in BOOLEAN /\ v.size = t.size /\ v.remaining = t.remaining - k
  /\ v.tar => v.content = t.content \o Padded(u)
  /\ ~ v.tar => IF n \in SourceFiles
                THEN v.lines = t.lines + Cardinality(NewLines(u, t.last)) /\ v.last = u[k]
                ELSE v.lines = t.lines

LEMMA GotMore ==
  ASSUME NEW t, NEW n, NEW x \in Seq(Nat), NEW p, Got(t, n, x, p), p < Len(x),
         NEW k \in 1 .. BlockSize, p + k <= Len(x), k = BlockSize \/ p + k = Len(x),
         NEW u, u = Piece(x, p, k), NEW v, More(v, t, n, u, k)
  PROVE  Got(v, n, x, p + k)
<1>0. p \in Nat /\ k \in Nat \ {0} /\ Len(x) \in Nat
  BY BlockSets DEF Got
<1>1. /\ p \in Nat /\ k \in Nat \ {0} /\ Len(x) \in Nat /\ p + k \in 0 .. Len(x) /\ p + k # 0
      /\ (Len(x) - p) - k = Len(x) - (p + k)
  <2>1. p \in 0 .. Len(x) /\ Len(x) \in Nat
    BY DEF Got
  <2>2. k \in Nat /\ k >= 1
    BY BlockSets
  <2>3. QED
    BY <2>1, <2>2
<1>2. SectorsTo(p) * BlockSize = p
  <2>1. p = Len(x) \/ SectorsTo(p) * BlockSize = p
    BY Zenon DEF Got
  <2>2. p # Len(x)
    BY <1>0
  <2>3. QED
    BY <2>1, <2>2
<1>3. /\ SectorsTo(p + k) * BlockSize = p + BlockSize
      /\ p + k = Len(x) \/ SectorsTo(p + k) * BlockSize = p + k
  BY <1>1, <1>2, SectorsMore
<1>4. ASSUME v.tar
      PROVE  v.content = Extended(x, SectorsTo(p + k) * BlockSize)
  <2>1. t.tar /\ v.content = t.content \o Padded(u)
    BY <1>4, Zenon DEF More
  <2>2. PICK c : c = t.content
    OBVIOUS
  <2>3. c = Extended(x, SectorsTo(p) * BlockSize)
    BY <2>1, <2>2, Zenon DEF Got
  <2>4. c = Extended(x, p)
    BY <1>2, <2>3
  <2>5. c \o Padded(u) = Extended(x, p + BlockSize)
    <3>1. Extended(x, p) \o Padded(Piece(x, p, k)) = Extended(x, p + BlockSize)
      BY <1>0, Padding
    <3>2. QED
      BY <2>4, <3>1
  <2>6. QED
    BY <1>3, <2>1, <2>2, <2>5
<1>5. ASSUME ~ v.tar
      PROVE  /\ v.lines = IF n \in SourceFiles THEN Cardinality(LinesTo(x, p + k)) ELSE 0
             /\ n \in SourceFiles => v.last = IF p + k = 0 THEN NEW_LINE ELSE x[p + k]
  <2>1. ~ t.tar /\ IF n \in SourceFiles
                   THEN v.lines = t.lines + Cardinality(NewLines(u, t.last)) /\ v.last = u[k]
                   ELSE v.lines = t.lines
    BY <1>5, Zenon DEF More
  <2>2. /\ t.lines = IF n \in SourceFiles THEN Cardinality(LinesTo(x, p)) ELSE 0
        /\ n \in SourceFiles => t.last = IF p = 0 THEN NEW_LINE ELSE x[p]
    BY <2>1, Zenon DEF Got
  <2>3. PICK last, lines : last = t.last /\ lines = t.lines
    OBVIOUS
  <2>4. CASE n \in SourceFiles
    <3>1. last = IF p = 0 THEN NEW_LINE ELSE x[p]
      BY <2>2, <2>3, <2>4
    <3>2. /\ Cardinality(LinesTo(x, p + k)) = Cardinality(LinesTo(x, p)) + Cardinality(NewLines(u, last))
          /\ u[k] = x[p + k]
      BY <1>0, <3>1, LinesMore
    <3>3. v.lines = lines + Cardinality(NewLines(u, last)) /\ v.last = u[k]
          /\ lines = Cardinality(LinesTo(x, p))
      BY <2>1, <2>2, <2>3, <2>4, Zenon
    <3>4. QED
      BY <1>1, <2>4, <3>2, <3>3
  <2>5. CASE n \notin SourceFiles
    BY <2>1, <2>2, <2>5
  <2>6. QED
    BY <2>4, <2>5
<1>6. v.size = Len(x) /\ v.remaining = Len(x) - (p + k)
  <2>1. v.size = t.size /\ v.remaining = t.remaining - k
    BY DEF More
  <2>2. t.size = Len(x) /\ t.remaining = Len(x) - p
    BY DEF Got
  <2>3. QED
    BY <1>1, <2>1, <2>2
<1>7. QED
  BY <1>1, <1>3, <1>4, <1>5, <1>6, Zenon DEF Got

\* The whole file was got.
LEMMA GotAll ==
  ASSUME NEW n, NEW x \in Seq(Nat), NEW p, Got(tool, n, x, p), tool.remaining = 0,
         NEW e, e = [name |-> n, size |-> tool.size, content |-> tool.content, lines |-> tool.lines],
         NEW file, file.name = n, file.data = x, tool.tar \in BOOLEAN
  PROVE  IsEntryOf(e, file)
<1>1. p = Len(x) /\ Len(x) \in Nat /\ DOMAIN x = 1 .. Len(x)
  BY DEF Got
<1>2. LinesTo(x, p) = Lines(x)
  BY <1>1 DEF LinesTo, Lines
<1>3. e.name = n /\ e.size = tool.size /\ e.content = tool.content /\ e.lines = tool.lines
  OBVIOUS
<1>4. tool.size = Len(x)
  BY DEF Got
<1>5. tool.tar => e.content = [i \in 1 .. ((Len(x) + BlockSize - 1) \div BlockSize) * BlockSize |->
                                 IF i <= Len(x) THEN x[i] ELSE 0]
  BY <1>1, <1>3 DEF Got, SectorsTo, Extended
<1>6. ~ tool.tar => e.lines = IF n \in SourceFiles THEN Cardinality(Lines(x)) ELSE 0
  BY <1>1, <1>2, <1>3 DEF Got
<1>7. QED
  BY <1>3, <1>4, <1>5, <1>6 DEF IsEntryOf

-----------------------------------------------------------------------------
(***************************************************************************)
(* The steps of dumptoysfs: the entries are those of the files of a set,   *)
(* and the disk does not change.                                           *)
(***************************************************************************)
Keeps(f) == tool.tar => Name(disk[f]) \notin LongNames

Saves(S) ==
  /\ \A i, j \in DOMAIN output : i < j => output[i].name < output[j].name
  /\ \A i \in DOMAIN output : \E f \in S : Keeps(f) /\ IsEntryOf(output[i], Files(disk)[f])
  /\ \A f \in S : Keeps(f) => \E i \in DOMAIN output : IsEntryOf(output[i], Files(disk)[f])

\* The files before file tool.i are saved.
OnFile == tool.i \in Listed(disk) /\ tool.file = NextFile(disk[tool.i]) /\ Saves(Before(disk, tool.i))

HasRead(p) == Got(tool, Name(disk[tool.i]), Data(disk, tool.i), p)

Opens == pc = "idle" /\ output = <<>>
Nexts == pc = "idle" /\ tool.file \in Listed(disk) \cup {0} /\ Saves(Before(disk, tool.file))
Sizes == OnFile /\ StatCall(tool.i) /\ (pc = "done" => call.status = OK)
Saving ==
  /\ OnFile /\ Keeps(tool.i) /\ reader.file = tool.i /\ pc = "idle"
  /\ \E p : HasRead(p) /\ (tool.remaining > 0 => PositionOn(disk, reader) = p)
Contents ==
  /\ OnFile /\ Keeps(tool.i) /\ reader.file = tool.i
  /\ ReadCall /\ Asks(BlockSize) /\ tool.remaining > 0 /\ HasRead(PositionOn(disk, call.from))

DumpFacts ==
  /\ tool.tar \in BOOLEAN
  /\ \A f \in FileIds : writer[f] = 0
  /\ tool.step \in {"open", "next", "size", "write", "content", "close", "exit"}
  /\ tool.step = "open" => Opens
  /\ tool.step = "next" => Nexts
  /\ tool.step = "size" => Sizes
  /\ tool.step = "write" => Saving
  /\ tool.step = "content" => Contents
  /\ Ended => Saves(Listed(disk))

\* The program is at its next step.
DumpIn(phase) ==
  /\ tool.tar \in BOOLEAN
  /\ \A f \in FileIds : writer[f] = 0
  /\ tool.step = phase

LEMMA DumpAt ==
  /\ DumpIn("open") /\ Opens => DumpFacts
  /\ DumpIn("next") /\ Nexts => DumpFacts
  /\ DumpIn("size") /\ Sizes => DumpFacts
  /\ DumpIn("write") /\ Saving => DumpFacts
  /\ DumpIn("content") /\ Contents => DumpFacts
  /\ DumpIn("close") /\ Saves(Listed(disk)) => DumpFacts
  /\ DumpIn("exit") /\ (tool.status = 0 => Saves(Listed(disk))) => DumpFacts
<1>1. DumpIn("open") /\ Opens => DumpFacts
  BY DEF DumpIn, DumpFacts, Ended
<1>2. DumpIn("next") /\ Nexts => DumpFacts
  BY DEF DumpIn, DumpFacts, Ended
<1>3. DumpIn("size") /\ Sizes => DumpFacts
  BY DEF DumpIn, DumpFacts, Ended
<1>4. DumpIn("write") /\ Saving => DumpFacts
  BY DEF DumpIn, DumpFacts, Ended
<1>5. DumpIn("content") /\ Contents => DumpFacts
  BY DEF DumpIn, DumpFacts, Ended
<1>6. DumpIn("close") /\ Saves(Listed(disk)) => DumpFacts
  BY DEF DumpIn, DumpFacts, Ended
<1>7. DumpIn("exit") /\ (tool.status = 0 => Saves(Listed(disk))) => DumpFacts
  BY DEF DumpIn, DumpFacts, Ended
<1>8. QED
  BY <1>1, <1>2, <1>3, <1>4, <1>5, <1>6, <1>7, Zenon

LEMMA SavesStays ==
  ASSUME NEW S, Saves(S), disk' = disk, output' = output, tool'.tar = tool.tar
  PROVE  Saves(S)'
<1>1. \A f : Keeps(f)' = Keeps(f)
  BY DEF Keeps
<1>2. \A e, f : IsEntryOf(e, Files(disk)[f])' <=> IsEntryOf(e, Files(disk)[f])
  <2>1. ASSUME NEW e, NEW file
        PROVE  IsEntryOf(e, file)' <=> IsEntryOf(e, file)
    <3>1. tool'.tar <=> tool.tar
      OBVIOUS
    <3>2. QED
      BY <3>1, Zenon DEF IsEntryOf
  <2>2. Files(disk)' = Files(disk)
    OBVIOUS
  <2>3. QED
    BY <2>1, <2>2
<1>3. QED
  BY <1>1, <1>2, Zenon DEF Saves

LEMMA OnFileStays ==
  ASSUME OnFile, disk' = disk, output' = output, tool'.tar = tool.tar, tool'.i = tool.i,
         tool'.file = tool.file
  PROVE  OnFile' /\ (Keeps(tool.i) => Keeps(tool.i)')
<1>1. Saves(Before(disk, tool.i))'
  <2>1. Before(disk, tool.i)' = Before(disk, tool.i)
    OBVIOUS
  <2>2. PICK S : S = Before(disk, tool.i)
    OBVIOUS
  <2>3. Saves(S)'
    BY <2>2, SavesStays DEF OnFile
  <2>4. QED
    BY <2>1, <2>2, <2>3
<1>2. Keeps(tool.i) => Keeps(tool.i)'
  BY DEF Keeps
<1>3. QED
  BY <1>1, <1>2 DEF OnFile

DumpOn ==
  /\ DOMAIN tool = ToolFields /\ LoadRight /\ step = "off"
  /\ tool.name = "dumptoysfs" /\ DumpFacts

DumpGoesOn == LoadRight' /\ DumpFacts' /\ step' = "off"

LEMMA DumpCalls ==
  ASSUME DumpOn, ToolCalls, UNCHANGED loader
  PROVE  DumpGoesOn
<1>1. Step /\ pc # "done" /\ UNCHANGED tools /\ tool.step \in {"size", "content"}
  BY DEF ToolCalls, DumpOn, DumpFacts
<1>2. tool' = tool /\ output' = output /\ step' = "off"
  BY <1>1 DEF tools, loader, DumpOn
<1>3. LoadRight'
  BY <1>1, AnyLoads DEF AnyNext, DumpOn
<1>4. SystemRight /\ DOMAIN call = Fields
  BY DEF DumpOn, LoadRight, SystemRight, BlockInvariant, BlockInvariantOf
<1>5. ASSUME disk' = disk, writer' = writer, NEW phase, tool.step = phase, OnFile
      PROVE  DumpIn(phase)' /\ OnFile' /\ (Keeps(tool.i) => Keeps(tool.i)')
  <2>1. OnFile' /\ (Keeps(tool.i) => Keeps(tool.i)')
    BY <1>2, <1>5, OnFileStays
  <2>2. tool.tar \in BOOLEAN /\ \A f \in FileIds : writer[f] = 0
    BY DEF DumpOn, DumpFacts
  <2>3. QED
    BY <1>2, <1>5, <2>1, <2>2, Zenon DEF DumpIn
<1>6. CASE tool.step = "size"
  <2>1. OnFile /\ StatCall(tool.i)
    BY <1>6 DEF DumpOn, DumpFacts, Sizes
  <2>2. PICK f : f = tool.i
    OBVIOUS
  <2>3. /\ StatCall(f)' /\ disk' = disk /\ writer' = writer
        /\ pc' = "done" => call'.status = OK
    BY <1>1, <1>4, <2>1, <2>2, StatGoesOn
  <2>4. StatCall(tool.i)'
    BY <1>2, <2>2, <2>3
  <2>5. DumpIn("size")' /\ OnFile'
    BY <1>5, <1>6, <2>1, <2>3
  <2>6. Sizes'
    BY <2>3, <2>4, <2>5 DEF Sizes
  <2>7. DumpFacts'
    BY <2>5, <2>6, DumpAt, PTL
  <2>8. QED
    BY <1>2, <1>3, <2>7 DEF DumpGoesOn
<1>7. CASE tool.step = "content"
  <2>1. /\ OnFile /\ Keeps(tool.i) /\ reader.file = tool.i
        /\ ReadCall /\ Asks(BlockSize) /\ tool.remaining > 0 /\ HasRead(PositionOn(disk, call.from))
    BY <1>7 DEF DumpOn, DumpFacts, Contents
  <2>2. /\ ReadCall' /\ Asks(BlockSize)' /\ disk' = disk /\ writer' = writer /\ reader'.file = reader.file
        /\ call'.from = call.from
    BY <1>1, <1>4, <2>1, ReadGets, BlockSets
  <2>3. DumpIn("content")' /\ OnFile' /\ Keeps(tool.i)'
    BY <1>5, <1>7, <2>1, <2>2
  <2>4. HasRead(PositionOn(disk, call.from))'
    BY <1>2, <2>1, <2>2 DEF HasRead, PositionOn
  <2>5. Contents'
    BY <1>2, <2>1, <2>2, <2>3, <2>4 DEF Contents
  <2>6. DumpFacts'
    BY <2>3, <2>5, DumpAt, PTL
  <2>7. QED
    BY <1>2, <1>3, <2>6 DEF DumpGoesOn
<1>8. QED
  BY <1>1, <1>6, <1>7

\* The steps that leave the file system alone.
LEMMA DumpStays ==
  ASSUME DumpOn, UNCHANGED system, UNCHANGED loader
  PROVE  LoadRight' /\ step' = "off" /\ disk' = disk /\ pc' = pc /\ call' = call
         /\ writer' = writer /\ reader' = reader
<1>1. UNCHANGED vars
  BY DEF system, vars
<1>2. LoadRight'
  BY <1>1, AnyLoads DEF DumpOn
<1>3. QED
  BY <1>2 DEF system, loader, DumpOn

LEMMA DumpFails ==
  ASSUME DumpOn, HostFails \/ Close, UNCHANGED loader
  PROVE  DumpGoesOn
<1>1. UNCHANGED system /\ output' = output
  BY DEF HostFails, Close
<1>2. LoadRight' /\ step' = "off" /\ disk' = disk /\ writer' = writer
  BY <1>1, DumpStays
<1>3. tool.tar \in BOOLEAN /\ (\A f \in FileIds : writer[f] = 0) /\ DOMAIN tool = ToolFields
  BY DEF DumpOn, DumpFacts
<1>4. tool'.tar = tool.tar /\ tool'.step = "exit"
  BY <1>3 DEF HostFails, Close, ToolFields
<1>5. DumpIn("exit")'
  BY <1>2, <1>3, <1>4, Zenon DEF DumpIn
<1>6. (tool.status = 0 => Saves(Listed(disk)))'
  <2>1. CASE HostFails
    <3>1. tool'.status = 1
      BY <1>3, <2>1 DEF HostFails, ToolFields
    <3>2. QED
      BY <3>1
  <2>2. CASE Close
    <3>1. tool.step = "close"
      BY <2>2 DEF Close
    <3>2. Saves(Listed(disk))
      BY <3>1 DEF DumpOn, DumpFacts, Ended
    <3>3. PICK S : S = Listed(disk)
      OBVIOUS
    <3>4. Saves(S)'
      BY <1>1, <1>2, <1>4, <3>2, <3>3, SavesStays
    <3>5. QED
      BY <1>2, <3>3, <3>4
  <2>3. QED
    BY <2>1, <2>2
<1>7. DumpFacts'
  BY <1>5, <1>6, DumpAt, PTL
<1>8. QED
  BY <1>2, <1>7 DEF DumpGoesOn

LEMMA DumpEnds ==
  ASSUME DumpOn, DumpEnd, UNCHANGED loader
  PROVE  DumpGoesOn
<1>1. UNCHANGED system /\ output' = output /\ tool.step = "next" /\ tool.file = 0 /\ GotoStep("close", tool)
  BY DEF DumpEnd, At
<1>2. LoadRight' /\ step' = "off" /\ disk' = disk /\ writer' = writer
  BY <1>1, DumpStays
<1>3. tool.tar \in BOOLEAN /\ (\A f \in FileIds : writer[f] = 0) /\ DOMAIN tool = ToolFields
  BY DEF DumpOn, DumpFacts
<1>4. tool'.tar = tool.tar /\ tool'.step = "close"
  BY <1>1, <1>3, GoesTo DEF ToolFields
<1>5. DumpIn("close")'
  BY <1>2, <1>3, <1>4, Zenon DEF DumpIn
<1>6. Saves(Listed(disk))'
  <2>1. PICK S : S = Listed(disk)
    OBVIOUS
  <2>2. Before(disk, 0) = S
    BY <2>1 DEF Before
  <2>3. Saves(S)
    BY <1>1, <2>2 DEF DumpOn, DumpFacts, Nexts
  <2>4. Saves(S)'
    BY <1>1, <1>2, <1>4, <2>3, SavesStays
  <2>5. QED
    BY <1>2, <2>1, <2>4
<1>7. DumpFacts'
  BY <1>5, <1>6, DumpAt, PTL
<1>8. QED
  BY <1>2, <1>7 DEF DumpGoesOn

\* The buffer is not looked at between two calls.
LEMMA DumpStarts ==
  ASSUME DumpOn, DumpOpened, UNCHANGED loader
  PROVE  DumpGoesOn
<1>1. /\ tool.step = "open" /\ GotoStep("next", [tool EXCEPT !.file = FirstFile(disk)])
      /\ disk' = disk /\ pc' = pc /\ call' = call /\ writer' = writer /\ reader' = reader /\ output' = output
  BY DEF DumpOpened, At, FirstFile, Streams
<1>2. pc = "idle" /\ output = <<>>
  BY <1>1 DEF DumpOn, DumpFacts, Opens
<1>3. SystemRight /\ BlockInvariant /\ DOMAIN call = Fields /\ Resting
  BY <1>2 DEF DumpOn, LoadRight, SystemRight, BlockInvariant, BlockInvariantOf, Resting
<1>4. SystemRight'
  <2>1. writer \in [FileIds -> Blocks]
    BY <1>3 DEF BlockInvariant, BlockInvariantOf, Writers
  <2>2. ReaderIs(disk', writer', reader')
    BY <1>1, <1>3, ReaderRests
  <2>3. QED
    BY <1>1, <1>2, <1>3, <2>1, <2>2, RestKeeps
<1>5. LoadRight' /\ step' = "off"
  <2>1. LoadRight /\ step = "off"
    BY DEF DumpOn
  <2>2. QED
    BY <1>1, <1>3, <1>4, <2>1, RestLoads DEF loader
<1>6. tool.tar \in BOOLEAN /\ (\A f \in FileIds : writer[f] = 0) /\ DOMAIN tool = ToolFields
  BY DEF DumpOn, DumpFacts
<1>7. tool'.tar = tool.tar /\ tool'.step = "next" /\ tool'.file = FirstFile(disk)
  <2>1. PICK t : t = [tool EXCEPT !.file = FirstFile(disk)]
    OBVIOUS
  <2>2. DOMAIN t = ToolFields /\ t.tar = tool.tar /\ t.file = FirstFile(disk)
    BY <1>6, <2>1 DEF ToolFields
  <2>3. QED
    BY <1>1, <2>1, <2>2, GoesTo DEF ToolFields
<1>8. DumpIn("next")'
  BY <1>1, <1>6, <1>7, Zenon DEF DumpIn
<1>9. Nexts'
  <2>1. FirstFile(disk) \in Listed(disk) \cup {0} /\ Before(disk, FirstFile(disk)) = {}
    BY <1>3, BeforeFirst
  <2>2. Saves({})'
    <3>1. DOMAIN output' = {}
      BY <1>1, <1>2
    <3>2. QED
      BY <3>1 DEF Saves
  <2>3. Before(disk, tool.file)' = {}
    BY <1>1, <1>7, <2>1
  <2>4. Saves(Before(disk, tool.file))'
    BY <2>2, <2>3
  <2>5. QED
    BY <1>1, <1>2, <1>7, <2>1, <2>4 DEF Nexts
<1>10. DumpFacts'
  BY <1>8, <1>9, DumpAt, PTL
<1>11. QED
  BY <1>5, <1>10 DEF DumpGoesOn

\* What is the same at each step.
LEMMA DumpCommon ==
  ASSUME DumpOn
  PROVE  /\ SystemRight /\ BlockInvariant /\ DOMAIN call = Fields /\ LoadRight /\ step = "off"
         /\ writer \in [FileIds -> Blocks]
         /\ tool.tar \in BOOLEAN /\ (\A f \in FileIds : writer[f] = 0) /\ DOMAIN tool = ToolFields
  BY DEF DumpOn, DumpFacts, LoadRight, SystemRight, BlockInvariant, BlockInvariantOf, Writers

LEMMA DumpNext ==
  ASSUME DumpOn, DumpFile, UNCHANGED loader
  PROVE  DumpGoesOn
<1>1. PICK f, b : f = tool.file /\ b = disk[f]
  OBVIOUS
<1>2. /\ tool.step = "next" /\ f # 0
      /\ Begin([NoCall EXCEPT !.op = "stat", !.name = Name(disk[f]), !.file = f])
      /\ pc' = "found" /\ disk' = disk /\ output' = output /\ writer' = writer /\ reader' = reader
      /\ GotoStep("size", [tool EXCEPT !.file = NextFile(b), !.i = f])
  BY <1>1 DEF DumpFile, At, ReadBlock, Streams
<1>3. f \in Listed(disk) /\ Saves(Before(disk, f))
  BY <1>1, <1>2 DEF DumpOn, DumpFacts, Nexts
<1>4. SystemRight'
  BY <1>2, <1>3, DumpCommon, StatKeeps
<1>5. LoadRight' /\ step' = "off"
  <2>1. ~ Resting'
    BY <1>2 DEF Resting
  <2>2. QED
    BY <1>2, <1>4, <2>1, DumpCommon, RestLoads DEF loader
<1>6. tool'.tar = tool.tar /\ tool'.step = "size" /\ tool'.file = NextFile(b) /\ tool'.i = f
  <2>1. PICK t : t = [tool EXCEPT !.file = NextFile(b), !.i = f]
    OBVIOUS
  <2>2. DOMAIN t = ToolFields /\ t.tar = tool.tar /\ t.file = NextFile(b) /\ t.i = f
    BY <2>1, DumpCommon DEF ToolFields
  <2>3. QED
    BY <1>2, <2>1, <2>2, GoesTo DEF ToolFields
<1>7. DumpIn("size")'
  BY <1>2, <1>6, DumpCommon, Zenon DEF DumpIn
<1>8. OnFile'
  <2>1. PICK S : S = Before(disk, f)
    OBVIOUS
  <2>2. Saves(S)'
    BY <1>2, <1>3, <1>6, <2>1, SavesStays
  <2>3. Before(disk, tool.i)' = S
    BY <1>2, <1>6, <2>1
  <2>4. QED
    BY <1>1, <1>2, <1>3, <1>6, <2>2, <2>3 DEF OnFile
<1>9. StatCall(tool.i)' /\ pc' # "done"
  <2>1. f # 0
    BY <1>2
  <2>2. PICK c : c = [NoCall EXCEPT !.op = "stat", !.name = Name(disk[f]), !.file = f]
    OBVIOUS
  <2>3. DOMAIN c = Fields /\ c.op = "stat" /\ c.file = f
    BY <2>2, CallFields DEF NoCall
  <2>4. call' = [c EXCEPT !.before = Files(disk), !.from = reader]
    BY <1>2, <2>2 DEF Begin
  <2>5. call'.op = "stat" /\ call'.file = f
    BY <2>3, <2>4 DEF Fields
  <2>6. QED
    BY <1>2, <1>6, <2>5 DEF StatCall
<1>10. DumpFacts'
  <2>1. Sizes'
    BY <1>8, <1>9 DEF Sizes
  <2>2. QED
    BY <1>7, <2>1, DumpAt, PTL
<1>11. QED
  BY <1>5, <1>10 DEF DumpGoesOn

\* A file is skipped, or its content is read.
LEMMA DumpSkips ==
  ASSUME DumpOn, DumpSized, UNCHANGED loader
  PROVE  DumpGoesOn
<1>1. PICK f, n : f = tool.i /\ n = Name(disk[f])
  OBVIOUS
<1>2. /\ tool.step = "size" /\ pc = "done" /\ call.op = "stat" /\ pc' = "idle" /\ call' = NoCall
      /\ disk' = disk /\ writer' = writer /\ output' = output
  BY DEF DumpSized, At, Returned
<1>3. /\ OnFile /\ f \in Listed(disk) /\ StatCall(f) /\ call.status = OK
  BY <1>1, <1>2 DEF DumpOn, DumpFacts, Sizes, OnFile
<1>4. Resting
  BY <1>2 DEF Resting
<1>5. /\ f \in FileIds /\ f # 0 /\ n \in Names /\ Files(disk)[f].data = Data(disk, f) /\ Data(disk, f) \in Seq(Nat)
      /\ NextFile(disk[f]) \in Listed(disk) \cup {0}
  BY <1>1, <1>3, <1>4, DumpCommon, SavedFile
<1>6. call.size = Len(Data(disk, f))
  <2>1. call.file = f
    BY <1>3 DEF StatCall
  <2>2. ResultIsRight
    BY DumpCommon DEF SystemRight, CallFacts
  <2>3. QED
    BY <1>2, <1>3, <1>5, <2>1, <2>2 DEF ResultIsRight
<1>7. DOMAIN call' = Fields
  BY <1>2, CallFields
<1>8. ASSUME ReaderIs(disk', writer', reader')
      PROVE  LoadRight' /\ step' = "off"
  <2>1. SystemRight'
    BY <1>2, <1>4, <1>7, <1>8, DumpCommon, RestKeeps
  <2>2. QED
    BY <1>2, <2>1, DumpCommon, RestLoads DEF loader
<1>9. CASE tool.tar /\ n \in LongNames /\ GotoStep("next", tool) /\ UNCHANGED reader
  <2>1. ReaderIs(disk', writer', reader')
    BY <1>2, <1>4, <1>9, DumpCommon, ReaderRests
  <2>2. /\ tool'.tar = tool.tar /\ tool'.step = "next" /\ tool'.file = tool.file /\ tool'.i = tool.i
    BY <1>9, DumpCommon, GoesTo DEF ToolFields
  <2>3. DumpIn("next")'
    BY <1>2, <2>2, DumpCommon, Zenon DEF DumpIn
  <2>4. Nexts'
    <3>1. tool.file = NextFile(disk[f]) /\ Saves(Before(disk, f))
      BY <1>1, <1>3 DEF OnFile
    <3>2. Before(disk, NextFile(disk[f])) = Before(disk, f) \cup {f}
      BY <1>3, <1>4, DumpCommon, BeforeNext
    <3>3. ~ Keeps(f)
      BY <1>1, <1>9 DEF Keeps
    <3>4. Saves(Before(disk, f) \cup {f})
      BY <3>1, <3>3, Zenon DEF Saves
    <3>5. PICK S : S = Before(disk, tool.file)
      OBVIOUS
    <3>6. Saves(S)'
      BY <1>2, <2>2, <3>1, <3>2, <3>4, <3>5, SavesStays
    <3>7. Before(disk, tool.file)' = S
      BY <1>2, <2>2, <3>5
    <3>8. QED
      BY <1>2, <1>5, <2>2, <3>1, <3>6, <3>7 DEF Nexts
  <2>5. DumpFacts'
    BY <2>3, <2>4, DumpAt, PTL
  <2>6. QED
    BY <1>8, <2>1, <2>5 DEF DumpGoesOn
<1>10. CASE /\ ~ (tool.tar /\ n \in LongNames)
            /\ GotoStep("write", [tool EXCEPT !.size = call.size, !.remaining = call.size,
                                    !.content = <<>>, !.lines = 0, !.last = NEW_LINE])
            /\ reader' = [file |-> f, block |-> f, offset |-> HeaderSize(n)]
  <2>1. PICK r : r = [file |-> f, block |-> f, offset |-> HeaderSize(n)]
    OBVIOUS
  <2>2. PositionOn(disk, r) = 0 /\ InFile(disk, r) /\ r.file = f /\ DOMAIN r = {"file", "block", "offset"}
    BY <1>1, <1>3, <1>4, <2>1, DumpCommon, FirstPosition
  <2>3. ReaderIs(disk', writer', reader')
    <3>1. f \in DOMAIN Files(disk) /\ writer[f] = 0
      BY <1>3, <1>5, DumpCommon DEF Files
    <3>2. QED
      BY <1>2, <1>10, <2>1, <2>2, <3>1 DEF ReaderIs
  <2>4. PICK size : size = call.size
    OBVIOUS
  <2>5. PICK t : t = [tool EXCEPT !.size = size, !.remaining = size, !.content = <<>>,
                                  !.lines = 0, !.last = NEW_LINE]
    OBVIOUS
  <2>6. /\ DOMAIN t = ToolFields /\ t.tar = tool.tar /\ t.file = tool.file /\ t.i = f
        /\ t.size = size /\ t.remaining = size /\ t.content = <<>> /\ t.lines = 0 /\ t.last = NEW_LINE
    BY <1>1, <2>5, DumpCommon DEF ToolFields
  <2>7. /\ tool'.tar = tool.tar /\ tool'.step = "write" /\ tool'.file = tool.file /\ tool'.i = f
        /\ tool'.size = size /\ tool'.remaining = size /\ tool'.content = <<>>
        /\ tool'.lines = 0 /\ tool'.last = NEW_LINE
    <3>1. GotoStep("write", t)
      BY <1>10, <2>4, <2>5
    <3>2. tool'.step = "write" /\ \A x \in ToolFields \ {"step"} : tool'[x] = t[x]
      BY <2>6, <3>1, GoesTo
    <3>3. /\ tool'.tar = t.tar /\ tool'.file = t.file /\ tool'.i = t.i /\ tool'.size = t.size
          /\ tool'.remaining = t.remaining /\ tool'.content = t.content
          /\ tool'.lines = t.lines /\ tool'.last = t.last
      BY <3>2 DEF ToolFields
    <3>4. QED
      BY <2>6, <3>2, <3>3, Zenon
  <2>8. DumpIn("write")'
    BY <1>2, <2>7, DumpCommon, Zenon DEF DumpIn
  <2>9. OnFile' /\ (Keeps(tool.i) => Keeps(tool.i)')
    BY <1>1, <1>2, <1>3, <2>7, OnFileStays
  <2>10. Keeps(tool.i)
    BY <1>1, <1>10, Zenon DEF Keeps
  <2>11. HasRead(0)'
    <3>1. PICK x : x = Data(disk, f)
      OBVIOUS
    <3>2. x \in Seq(Nat) /\ size = Len(x)
      BY <1>5, <1>6, <2>4, <3>1
    <3>3. Got(tool', n, x, 0)
      BY <2>7, <3>2, GotFirst
    <3>4. HasRead(0)' <=> Got(tool', Name(disk'[tool'.i]), Data(disk', tool'.i), 0)
      BY DEF HasRead
    <3>5. QED
      BY <1>1, <1>2, <2>7, <3>1, <3>3, <3>4
  <2>12. Saving'
    <3>1. reader'.file = tool'.i /\ PositionOn(disk', reader') = 0
      BY <1>2, <1>10, <2>1, <2>2, <2>7
    <3>2. (\E p : HasRead(p) /\ (tool.remaining > 0 => PositionOn(disk, reader) = p))'
      BY <2>11, <3>1
    <3>3. QED
      BY <1>2, <2>9, <2>10, <3>1, <3>2 DEF Saving
  <2>13. DumpFacts'
    BY <2>8, <2>12, DumpAt, PTL
  <2>14. QED
    BY <1>8, <2>3, <2>13 DEF DumpGoesOn
<1>11. QED
  BY <1>1, <1>9, <1>10 DEF DumpSized

LEMMA DumpReads ==
  ASSUME DumpOn, DumpRead, UNCHANGED loader
  PROVE  DumpGoesOn
<1>1. /\ tool.step = "write" /\ tool.remaining > 0 /\ Read(BlockSize)
      /\ GotoStep("content", tool) /\ output' = output
  BY DEF DumpRead, At
<1>2. PICK c, n : n = BlockSize /\ c = [NoCall EXCEPT !.op = "read", !.size = n]
  OBVIOUS
<1>3. /\ pc = "idle" /\ pc' = "read" /\ disk' = disk /\ writer' = writer /\ reader' = reader
      /\ call' = [c EXCEPT !.before = Files(disk), !.from = reader] /\ reader.file # 0
  BY <1>1, <1>2 DEF Read, Begin, Streams
<1>4. n \in Nat \ {0}
  BY <1>2, BlockSets
<1>5. LoadRight' /\ step' = "off"
  <2>1. AnyClient
    BY <1>1, <1>2, <1>4 DEF AnyClient
  <2>2. QED
    BY <2>1, DumpCommon, AnyLoads DEF AnyNext, loader
<1>6. call'.op = "read" /\ call'.size = n /\ call'.bytes = <<>> /\ call'.from = reader
  <2>1. DOMAIN c = Fields /\ c.op = "read" /\ c.size = n /\ c.bytes = <<>>
    BY <1>2, CallFields DEF NoCall, Fields
  <2>2. QED
    BY <1>3, <2>1 DEF Fields
<1>7. Asks(BlockSize)' /\ ReadCall'
  <2>1. IsSeq(<<>>) /\ Len(<<>>) = 0 /\ n + 0 = n
    <3>1. <<>> \in Seq({}) /\ Len(<<>>) = 0
      OBVIOUS
    <3>2. QED
      BY <1>4, <3>1 DEF IsSeq
  <2>2. QED
    BY <1>2, <1>3, <1>4, <1>6, <2>1 DEF Asks, ReadCall
<1>8. /\ tool'.tar = tool.tar /\ tool'.step = "content" /\ tool'.file = tool.file /\ tool'.i = tool.i
      /\ tool'.size = tool.size /\ tool'.remaining = tool.remaining /\ tool'.content = tool.content
      /\ tool'.lines = tool.lines /\ tool'.last = tool.last
  <2>1. tool'.step = "content" /\ \A x \in ToolFields \ {"step"} : tool'[x] = tool[x]
    BY <1>1, DumpCommon, GoesTo
  <2>2. QED
    BY <2>1 DEF ToolFields
<1>9. PICK p : OnFile /\ Keeps(tool.i) /\ reader.file = tool.i /\ HasRead(p) /\ PositionOn(disk, reader) = p
  BY <1>1 DEF DumpOn, DumpFacts, Saving
<1>10. OnFile' /\ Keeps(tool.i)'
  BY <1>1, <1>3, <1>8, <1>9, OnFileStays
<1>11. HasRead(PositionOn(disk, call.from))'
  <2>1. PositionOn(disk', call'.from) = p
    BY <1>3, <1>6, <1>9
  <2>2. PICK m, x : m = Name(disk[tool.i]) /\ x = Data(disk, tool.i)
    OBVIOUS
  <2>3. Got(tool, m, x, p)
    BY <1>9, <2>2 DEF HasRead
  <2>4. Got(tool', m, x, p)
    <3>1. tool'.tar <=> tool.tar
      BY <1>8
    <3>2. QED
      BY <1>8, <2>3, <3>1, Zenon DEF Got
  <2>5. HasRead(p)' <=> Got(tool', Name(disk'[tool'.i]), Data(disk', tool'.i), p)
    BY DEF HasRead
  <2>6. HasRead(PositionOn(disk, call.from))' <=>
          Got(tool', Name(disk'[tool'.i]), Data(disk', tool'.i), PositionOn(disk', call'.from))
    BY DEF HasRead
  <2>7. QED
    BY <1>3, <1>8, <2>1, <2>2, <2>4, <2>6
<1>12. DumpIn("content")'
  BY <1>3, <1>8, DumpCommon, Zenon DEF DumpIn
<1>13. Contents'
  BY <1>1, <1>3, <1>7, <1>8, <1>9, <1>10, <1>11 DEF Contents
<1>14. DumpFacts'
  BY <1>12, <1>13, DumpAt, PTL
<1>15. QED
  BY <1>5, <1>14 DEF DumpGoesOn

\* What a read that is done has got.
LEMMA ReadIsDone ==
  ASSUME SystemRight, pc = "done", call.op = "read", Asks(BlockSize), reader.file # 0,
         NEW x, x = Data(disk, reader.file), NEW p \in 0 .. Len(x), p = PositionOn(disk, call.from), p < Len(x)
  PROVE  \E k \in 1 .. BlockSize :
           /\ k = BlockSize - call.size /\ p + k <= Len(x) /\ (k = BlockSize \/ p + k = Len(x))
           /\ call.bytes = Piece(x, p, k) /\ x \in Seq(Nat)
           /\ p + k < Len(x) => PositionOn(disk, reader) = p + k
<1>1. PICK f : f = reader.file
  OBVIOUS
<1>2. Resting
  BY DEF Resting
<1>3. /\ f \in Listed(disk) /\ InFile(disk, reader) /\ Store = Files(disk)
  <2>1. Store = Files(disk)
    BY <1>2 DEF Store
  <2>2. DOMAIN Files(disk) = Listed(disk)
    BY DEF Files
  <2>3. QED
    BY <1>1, <2>1, <2>2 DEF SystemRight, ReaderRight, ReaderOn
<1>4. x \in Seq(Nat) /\ Files(disk)[f].data = x
  BY <1>1, <1>2, <1>3, SavedFile DEF SystemRight
<1>5. PICK q : q = PositionOn(disk, reader)
  OBVIOUS
<1>6. q \in 0 .. Len(x)
  BY <1>1, <1>2, <1>3, <1>5, PositionBound DEF SystemRight
<1>7. PICK u, k : u = call.bytes /\ k = Len(u)
  OBVIOUS
<1>8. k \in Nat /\ call.size \in Nat /\ call.size + k = BlockSize
  BY <1>7, SeqIs DEF Asks
<1>9. /\ u = SubSeq(x, p + 1, p + k)
      /\ IF call.size = 0 THEN q = p + k ELSE p + k = Len(x)
  <2>1. Position(call.from) = PositionOn(disk, call.from) /\ Position(reader) = PositionOn(disk, reader)
    BY DEF Position, PositionOn
  <2>2. ReadIsRight
    BY DEF SystemRight, ReaderRight
  <2>3. Store[f].data = x
    BY <1>3, <1>4
  <2>4. /\ u = SubSeq(Store[f].data, Position(call.from) + 1, Position(call.from) + k)
        /\ IF call.size = 0 THEN Position(reader) = Position(call.from) + k
           ELSE Position(call.from) + k = Len(Store[f].data)
    BY <1>1, <1>7, <2>2, Zenon DEF ReadIsRight
  <2>5. QED
    BY <1>5, <2>1, <2>3, <2>4
<1>10. BlockSize \in Nat /\ BlockSize > 2 /\ Len(x) \in Nat /\ p \in Nat
  BY <1>4, BlockSets
<1>11. k \in 1 .. BlockSize /\ k = BlockSize - call.size /\ p + k <= Len(x) /\ (k = BlockSize \/ p + k = Len(x))
       /\ (p + k < Len(x) => q = p + k)
  <2>1. PICK s, l : s = call.size /\ l = Len(x)
    OBVIOUS
  <2>2. s \in Nat /\ k \in Nat /\ s + k = BlockSize /\ q \in 0 .. l /\ l \in Nat /\ p \in Nat /\ p < l
        /\ BlockSize \in Nat /\ BlockSize > 2
    BY <1>6, <1>8, <1>10, <2>1
  <2>3. IF s = 0 THEN q = p + k ELSE p + k = l
    BY <1>9, <2>1
  <2>4. k \in 1 .. BlockSize /\ k = BlockSize - s /\ p + k <= l /\ (k = BlockSize \/ p + k = l)
        /\ (p + k < l => q = p + k)
    BY <2>2, <2>3
  <2>5. QED
    BY <2>1, <2>4
<1>12. u = Piece(x, p, k)
  BY <1>9 DEF Piece
<1>13. QED
  BY <1>4, <1>5, <1>7, <1>11, <1>12

\* What the program keeps of the bytes it has read.
LEMMA DumpTakes ==
  ASSUME DOMAIN tool = ToolFields, tool.tar \in BOOLEAN, NEW n, NEW k, k = BlockSize - call.size,
         NEW u, u = call.bytes, n = Name(disk[tool.i]), DumpContent
  PROVE  /\ More(tool', tool, n, u, k) /\ DOMAIN tool' = ToolFields
         /\ tool'.step = "write" /\ tool'.file = tool.file /\ tool'.i = tool.i
<1>1. PICK counted : counted = (~ tool.tar /\ n \in SourceFiles)
  OBVIOUS
<1>2. PICK t : t = [tool EXCEPT !.remaining = @ - k,
                      !.content = IF tool.tar THEN @ \o Padded(u) ELSE @,
                      !.lines = IF counted THEN @ + Cardinality(NewLines(u, tool.last)) ELSE @,
                      !.last = IF counted THEN u[k] ELSE @]
  OBVIOUS
<1>3. GotoStep("write", t)
  BY <1>1, <1>2 DEF DumpContent
<1>4. PICK content, lines, last :
        /\ content = IF tool.tar THEN tool.content \o Padded(u) ELSE tool.content
        /\ lines = IF counted THEN tool.lines + Cardinality(NewLines(u, tool.last)) ELSE tool.lines
        /\ last = IF counted THEN u[k] ELSE tool.last
  OBVIOUS
<1>5. t = [tool EXCEPT !.remaining = @ - k, !.content = content, !.lines = lines, !.last = last]
  BY <1>2, <1>4
<1>6. /\ DOMAIN t = ToolFields /\ t.tar = tool.tar /\ t.file = tool.file /\ t.i = tool.i /\ t.size = tool.size
      /\ t.remaining = tool.remaining - k /\ t.content = content /\ t.lines = lines /\ t.last = last
  BY <1>5 DEF ToolFields
<1>7. DOMAIN tool' = ToolFields /\ tool'.step = "write" /\ \A y \in ToolFields \ {"step"} : tool'[y] = t[y]
  BY <1>3, <1>6, GoesTo
<1>8. /\ tool'.tar = t.tar /\ tool'.file = t.file /\ tool'.i = t.i /\ tool'.size = t.size
      /\ tool'.remaining = t.remaining /\ tool'.content = t.content
      /\ tool'.lines = t.lines /\ tool'.last = t.last
  BY <1>7 DEF ToolFields
<1>9. PICK w : w = tool'
  OBVIOUS
<1>10. /\ w.tar = tool.tar /\ w.size = tool.size /\ w.remaining = tool.remaining - k
       /\ w.content = content /\ w.lines = lines /\ w.last = last
  BY <1>6, <1>8, <1>9, Zenon
<1>11. More(w, tool, n, u, k)
  <2>1. CASE tool.tar
    <3>1. w.tar /\ w.tar \in BOOLEAN
      BY <1>10, <2>1, Zenon
    <3>2. w.content = tool.content \o Padded(u)
      BY <1>4, <1>10, <2>1, Zenon
    <3>3. QED
      BY <1>10, <3>1, <3>2, Zenon DEF More
  <2>2. CASE ~ tool.tar
    <3>1. ~ w.tar /\ w.tar \in BOOLEAN
      BY <1>10, <2>2, Zenon
    <3>2. n \in SourceFiles => counted
      BY <1>1, <2>2, Zenon
    <3>3. n \notin SourceFiles => ~ counted
      BY <1>1, <2>2, Zenon
    <3>4. IF n \in SourceFiles
          THEN w.lines = tool.lines + Cardinality(NewLines(u, tool.last)) /\ w.last = u[k]
          ELSE w.lines = tool.lines
      BY <1>4, <1>10, <3>2, <3>3, Zenon
    <3>5. QED
      BY <1>10, <3>1, <3>4, Zenon DEF More
  <2>3. QED
    BY <2>1, <2>2
<1>12. QED
  BY <1>6, <1>7, <1>8, <1>9, <1>11

\* The call has returned and the disk is as it was: the program goes on.
LEMMA DumpReturned ==
  ASSUME DumpOn, NEW op, Returned(op), UNCHANGED Streams, UNCHANGED loader
  PROVE  /\ LoadRight' /\ step' = "off" /\ disk' = disk /\ writer' = writer /\ reader' = reader
         /\ pc = "done" /\ call.op = op /\ pc' = "idle"
<1>1. pc = "done" /\ call.op = op /\ pc' = "idle" /\ call' = NoCall /\ UNCHANGED <<disk, buffer>>
  BY DEF Returned
<1>2. Return
  BY <1>1 DEF Return
<1>3. LoadRight'
  BY <1>2, DumpCommon, AnyLoads DEF AnyNext, Step
<1>4. QED
  BY <1>1, <1>3, DumpCommon DEF Streams, loader

LEMMA DumpGets ==
  ASSUME DumpOn, DumpContent, UNCHANGED loader
  PROVE  DumpGoesOn
<1>1. tool.step = "content" /\ Returned("read") /\ output' = output /\ UNCHANGED Streams
  BY DEF DumpContent, At
<1>2. /\ LoadRight' /\ step' = "off" /\ disk' = disk /\ writer' = writer /\ reader' = reader
      /\ pc = "done" /\ call.op = "read" /\ pc' = "idle"
  BY <1>1, DumpReturned
<1>3. /\ OnFile /\ Keeps(tool.i) /\ reader.file = tool.i
      /\ Asks(BlockSize) /\ tool.remaining > 0 /\ HasRead(PositionOn(disk, call.from))
  BY <1>1 DEF DumpOn, DumpFacts, Contents
<1>4. PICK f, n, x, p : f = tool.i /\ n = Name(disk[f]) /\ x = Data(disk, f) /\ p = PositionOn(disk, call.from)
  OBVIOUS
<1>5. Got(tool, n, x, p)
  BY <1>3, <1>4 DEF HasRead
<1>6. f \in Listed(disk) /\ f # 0 /\ x \in Seq(Nat)
  <2>1. Resting
    BY <1>2 DEF Resting
  <2>2. QED
    BY <1>3, <1>4, <2>1, DumpCommon, SavedFile DEF OnFile
<1>7. p \in 0 .. Len(x) /\ p < Len(x)
  <2>1. PICK l, r : l = Len(x) /\ r = tool.remaining
    OBVIOUS
  <2>2. p \in 0 .. l /\ r = l - p /\ r > 0 /\ l \in Nat
    BY <1>3, <1>5, <1>6, <2>1 DEF Got
  <2>3. p < l
    BY <2>2
  <2>4. QED
    BY <2>1, <2>2, <2>3
<1>8. PICK k \in 1 .. BlockSize :
        /\ k = BlockSize - call.size /\ p + k <= Len(x) /\ (k = BlockSize \/ p + k = Len(x))
        /\ call.bytes = Piece(x, p, k) /\ x \in Seq(Nat)
        /\ p + k < Len(x) => PositionOn(disk, reader) = p + k
  <2>1. reader.file # 0 /\ x = Data(disk, reader.file)
    BY <1>3, <1>4, <1>6
  <2>2. QED
    BY <1>2, <1>3, <1>4, <1>7, <2>1, DumpCommon, ReadIsDone
<1>9. PICK u : u = call.bytes
  OBVIOUS
<1>10. /\ More(tool', tool, n, u, k)
       /\ tool'.step = "write" /\ tool'.file = tool.file /\ tool'.i = tool.i
  BY <1>4, <1>8, <1>9, DumpCommon, DumpTakes
<1>11. Got(tool', n, x, p + k)
  <2>1. u = Piece(x, p, k)
    BY <1>8, <1>9
  <2>2. QED
    BY <1>5, <1>6, <1>7, <1>8, <1>10, <2>1, GotMore
<1>12. tool'.tar = tool.tar
  BY <1>10, Zenon DEF More
<1>13. OnFile' /\ Keeps(tool.i)'
  BY <1>1, <1>2, <1>3, <1>10, <1>12, OnFileStays
<1>14. HasRead(p + k)'
  <2>1. HasRead(p + k)' <=> Got(tool', Name(disk'[tool'.i]), Data(disk', tool'.i), p + k)
    BY DEF HasRead
  <2>2. QED
    BY <1>2, <1>4, <1>10, <1>11, <2>1
<1>15. tool'.remaining > 0 => PositionOn(disk', reader') = p + k
  <2>1. PICK l, r : l = Len(x) /\ r = tool'.remaining
    OBVIOUS
  <2>2. r = l - (p + k) /\ l \in Nat /\ p + k \in Nat
    BY <1>6, <1>11, <2>1 DEF Got
  <2>3. r > 0 => p + k < l
    BY <2>2
  <2>4. QED
    BY <1>2, <1>8, <2>1, <2>3
<1>16. DumpIn("write")'
  BY <1>2, <1>10, <1>12, DumpCommon, Zenon DEF DumpIn
<1>17. Saving'
  <2>1. reader'.file = tool'.i /\ pc' = "idle"
    BY <1>2, <1>3, <1>10
  <2>2. (\E y : HasRead(y) /\ (tool.remaining > 0 => PositionOn(disk, reader) = y))'
    BY <1>14, <1>15
  <2>3. QED
    BY <1>13, <2>1, <2>2 DEF Saving
<1>18. DumpFacts'
  BY <1>16, <1>17, DumpAt, PTL
<1>19. QED
  BY <1>2, <1>18 DEF DumpGoesOn

\* One more entry.
LEMMA SavesMore ==
  ASSUME IsSeq(output), NEW S, Saves(S), NEW f, Keeps(f), NEW e, output' = Append(output, e),
         disk' = disk, tool'.tar = tool.tar, IsEntryOf(e, Files(disk)[f]),
         \A j \in DOMAIN output : output[j].name < e.name
  PROVE  Saves(S \cup {f})'
<1>1. PICK o, z, n : o = output /\ z = output' /\ n = Len(o)
  OBVIOUS
<1>2. n \in Nat /\ DOMAIN o = 1 .. n /\ IsSeq(o)
  BY <1>1, SeqIs
<1>3. /\ DOMAIN z = 1 .. n + 1 /\ z[n + 1] = e
      /\ \A j \in 1 .. n : z[j] = o[j]
  <2>1. z = o \o <<e>>
    BY <1>1, <1>2, AppendIs
  <2>2. IsSeq(<<e>>) /\ Len(<<e>>) = 1 /\ <<e>>[1] = e
    <3>1. <<e>> \in Seq({e}) /\ Len(<<e>>) = 1 /\ <<e>>[1] = e
      OBVIOUS
    <3>2. QED
      BY <3>1 DEF IsSeq
  <2>3. Joins(z, o, <<e>>)
    BY <1>2, <2>1, <2>2, Concatenated
  <2>4. IsSeq(z) /\ Len(z) = n + 1 /\ (\A j \in 1 .. n : z[j] = o[j]) /\ z[n + 1] = e
    BY <1>1, <2>2, <2>3 DEF Joins
  <2>5. QED
    BY <2>4, SeqIs
<1>4. \A g : Keeps(g)' <=> Keeps(g)
  <2>1. tool'.tar <=> tool.tar
    OBVIOUS
  <2>2. QED
    BY <2>1, Zenon DEF Keeps
<1>5. \A y, g : IsEntryOf(y, Files(disk)[g])' <=> IsEntryOf(y, Files(disk)[g])
  <2>1. ASSUME NEW y, NEW file
        PROVE  IsEntryOf(y, file)' <=> IsEntryOf(y, file)
    <3>1. tool'.tar <=> tool.tar
      OBVIOUS
    <3>2. QED
      BY <3>1, Zenon DEF IsEntryOf
  <2>2. Files(disk)' = Files(disk)
    OBVIOUS
  <2>3. QED
    BY <2>1, <2>2
<1>6. \A i, j \in DOMAIN z : i < j => z[i].name < z[j].name
  <2>1. TAKE i, j \in DOMAIN z
  <2>2. HAVE i < j
  <2>3. i \in 1 .. n /\ z[i] = o[i] /\ (j \in 1 .. n \/ j = n + 1)
    BY <1>2, <1>3, <2>2
  <2>4. CASE j \in 1 .. n
    BY <1>1, <1>2, <1>3, <2>2, <2>3, <2>4 DEF Saves
  <2>5. CASE j = n + 1
    BY <1>1, <1>2, <1>3, <2>3, <2>5
  <2>6. QED
    BY <2>3, <2>4, <2>5
<1>7. ASSUME NEW j \in DOMAIN z
      PROVE  \E g \in S \cup {f} : Keeps(g) /\ IsEntryOf(z[j], Files(disk)[g])
  <2>1. CASE j \in 1 .. n
    <3>1. PICK g \in S : Keeps(g) /\ IsEntryOf(o[j], Files(disk)[g])
      BY <1>1, <1>2, <2>1 DEF Saves
    <3>2. QED
      BY <1>3, <2>1, <3>1
  <2>2. CASE j = n + 1
    BY <1>3, <2>2
  <2>3. QED
    BY <1>2, <1>3, <2>1, <2>2
<1>8. ASSUME NEW g \in S \cup {f}, Keeps(g)
      PROVE  \E j \in DOMAIN z : IsEntryOf(z[j], Files(disk)[g])
  <2>1. CASE g \in S
    <3>1. PICK j \in DOMAIN o : IsEntryOf(o[j], Files(disk)[g])
      BY <1>1, <1>8, <2>1 DEF Saves
    <3>2. j \in 1 .. n /\ j \in DOMAIN z
      BY <1>2, <1>3
    <3>3. QED
      BY <1>3, <3>1, <3>2
  <2>2. CASE g = f
    <3>1. n + 1 \in DOMAIN z
      BY <1>2, <1>3
    <3>2. QED
      BY <1>3, <2>2, <3>1
  <2>3. QED
    BY <1>8, <2>1, <2>2
<1>9. /\ \A j \in DOMAIN z : \E g \in S \cup {f} : Keeps(g)' /\ IsEntryOf(z[j], Files(disk)[g])'
      /\ \A g \in S \cup {f} : Keeps(g)' => \E j \in DOMAIN z : IsEntryOf(z[j], Files(disk)[g])'
  BY <1>4, <1>5, <1>7, <1>8, Zenon
<1>10. QED
  BY <1>1, <1>6, <1>9, Zenon DEF Saves

LEMMA DumpSaves ==
  ASSUME DumpOn, DumpEntry, UNCHANGED loader, IsSeq(output)
  PROVE  DumpGoesOn
<1>1. /\ tool.step = "write" /\ tool.remaining = 0 /\ GotoStep("next", tool)
      /\ reader' = NoReader /\ disk' = disk /\ pc' = pc /\ call' = call /\ writer' = writer
  BY DEF DumpEntry, At
<1>2. PICK p : OnFile /\ Keeps(tool.i) /\ pc = "idle" /\ HasRead(p)
  BY <1>1 DEF DumpOn, DumpFacts, Saving
<1>3. Resting
  BY <1>2 DEF Resting
<1>4. LoadRight' /\ step' = "off"
  <2>1. ReaderIs(disk', writer', reader')
    BY <1>1 DEF ReaderIs, NoReader
  <2>2. SystemRight'
    BY <1>1, <1>2, <1>3, <2>1, DumpCommon, RestKeeps
  <2>3. QED
    BY <1>1, <1>3, <2>2, DumpCommon, RestLoads DEF loader
<1>5. /\ tool'.tar = tool.tar /\ tool'.step = "next" /\ tool'.file = tool.file /\ tool'.i = tool.i
  BY <1>1, DumpCommon, GoesTo DEF ToolFields
<1>6. DumpIn("next")'
  BY <1>1, <1>5, DumpCommon, Zenon DEF DumpIn
<1>7. PICK f, n, x : f = tool.i /\ n = Name(disk[f]) /\ x = Data(disk, f)
  OBVIOUS
<1>8. /\ f \in Listed(disk) /\ Saves(Before(disk, f)) /\ tool.file = NextFile(disk[f])
  BY <1>2, <1>7 DEF OnFile
<1>9. /\ x \in Seq(Nat) /\ Files(disk)[f].name = n /\ Files(disk)[f].data = x
      /\ NextFile(disk[f]) \in Listed(disk) \cup {0}
  BY <1>3, <1>7, <1>8, DumpCommon, SavedFile
<1>10. PICK e : e = [name |-> n, size |-> tool.size, content |-> tool.content, lines |-> tool.lines]
  OBVIOUS
<1>11. IsEntryOf(e, Files(disk)[f])
  <2>1. Got(tool, n, x, p)
    BY <1>2, <1>7 DEF HasRead
  <2>2. PICK file : file = Files(disk)[f]
    OBVIOUS
  <2>3. file.name = n /\ file.data = x
    BY <1>9, <2>2
  <2>4. IsEntryOf(e, file)
    BY <1>1, <1>9, <1>10, <2>1, <2>3, DumpCommon, GotAll
  <2>5. QED
    BY <2>2, <2>4
<1>12. PICK S : S = Before(disk, f)
  OBVIOUS
<1>13. ASSUME NEW j \in DOMAIN output
       PROVE  output[j].name < e.name
  <2>1. PICK g \in S : IsEntryOf(output[j], Files(disk)[g])
    BY <1>8, <1>12 DEF Saves
  <2>2. g \in Listed(disk) /\ (f = 0 \/ Name(disk[g]) < n)
    BY <1>7, <1>12, <2>1 DEF Before
  <2>3. f # 0
    BY <1>3, <1>8, DumpCommon, SavedFile
  <2>4. output[j].name = Files(disk)[g].name
    BY <2>1 DEF IsEntryOf
  <2>5. Files(disk)[g].name = Name(disk[g])
    BY <1>3, <2>2, DumpCommon, SavedFile
  <2>6. QED
    BY <1>10, <2>2, <2>3, <2>4, <2>5
<1>14. output' = Append(output, e)
  BY <1>7, <1>10 DEF DumpEntry
<1>15. Saves(S \cup {f})'
  <2>1. Keeps(f)
    BY <1>2, <1>7
  <2>2. Saves(S)
    BY <1>8, <1>12
  <2>3. QED
    BY <1>1, <1>5, <1>11, <1>13, <1>14, <2>1, <2>2, SavesMore
<1>16. Nexts'
  <2>1. Before(disk, NextFile(disk[f])) = S \cup {f}
    BY <1>3, <1>8, <1>12, DumpCommon, BeforeNext
  <2>2. Before(disk, tool.file)' = S \cup {f}
    BY <1>1, <1>5, <1>8, <2>1
  <2>3. PICK T : T = S \cup {f}
    OBVIOUS
  <2>4. Saves(T)'
    BY <1>15, <2>3
  <2>5. QED
    BY <1>1, <1>2, <1>5, <1>8, <1>9, <2>2, <2>3, <2>4 DEF Nexts
<1>17. DumpFacts'
  BY <1>6, <1>16, DumpAt, PTL
<1>18. QED
  BY <1>4, <1>17 DEF DumpGoesOn

LEMMA DumpKeeps ==
  ASSUME DumpOn, IsSeq(output), FileTools, UNCHANGED loader
  PROVE  DumpGoesOn
<1>1. tool.name = "dumptoysfs"
  BY DEF DumpOn
<1>2. ~ MakeCreate /\ ~ MakeOpen /\ ~ MakeOpened /\ ~ MakeRead /\ ~ MakeWritten /\ ~ MakeEnd /\ ~ MakeWrite
  BY <1>1 DEF MakeCreate, MakeOpen, MakeOpened, MakeRead, MakeWritten, MakeEnd, MakeWrite, At
<1>3. QED
  BY <1>2, DumpCalls, DumpFails, DumpStarts, DumpNext, DumpSkips, DumpReads, DumpGets, DumpSaves, DumpEnds
  DEF FileTools

-----------------------------------------------------------------------------
(***************************************************************************)
(* The steps of maketoysfs.                                                *)
(***************************************************************************)
OnArgument == tool.i \in DOMAIN arguments /\ tool.at \in 0 .. Len(arguments[tool.i].data)

MakeFacts ==
  /\ arguments \in Seq([path : STRING, data : Seq(Bytes)])
  /\ tool.i \in Nat \ {0}
  /\ tool.step = "create" => tool.i \in DOMAIN arguments /\ CreateCall /\ (pc = "done" => CreateResult)
  /\ tool.step = "open" => tool.i \in DOMAIN arguments /\ tool.file \in FileIds
  /\ tool.step \in {"read", "append"} => OnArgument /\ tool.file \in FileIds

MakeOn ==
  /\ DOMAIN tool = ToolFields /\ LoadRight /\ step = "off"
  /\ tool.name = "maketoysfs" /\ MakeFacts

MakeGoesOn == LoadRight' /\ MakeFacts' /\ step' = "off"

LEMMA MakeCommon ==
  ASSUME MakeOn
  PROVE  /\ SystemRight /\ BlockInvariant /\ DOMAIN call = Fields /\ LoadRight /\ step = "off"
         /\ writer \in [FileIds -> Blocks]
         /\ DOMAIN tool = ToolFields /\ tool.i \in Nat \ {0}
         /\ arguments \in Seq([path : STRING, data : Seq(Bytes)])
         /\ \A i \in DOMAIN arguments : arguments[i].data \in Seq(Bytes) /\ Len(arguments[i].data) \in Nat
<1>1. SystemRight /\ BlockInvariant /\ DOMAIN call = Fields /\ LoadRight /\ step = "off"
      /\ writer \in [FileIds -> Blocks] /\ DOMAIN tool = ToolFields /\ tool.i \in Nat \ {0}
      /\ arguments \in Seq([path : STRING, data : Seq(Bytes)])
  BY DEF MakeOn, MakeFacts, LoadRight, SystemRight, BlockInvariant, BlockInvariantOf, Writers
<1>2. ASSUME NEW i \in DOMAIN arguments
      PROVE  arguments[i].data \in Seq(Bytes) /\ Len(arguments[i].data) \in Nat
  <2>1. arguments[i] \in [path : STRING, data : Seq(Bytes)]
    <3>1. PICK R : R = [path : STRING, data : Seq(Bytes)]
      OBVIOUS
    <3>2. arguments \in Seq(R)
      BY <1>1, <3>1
    <3>3. arguments[i] \in R
      BY <1>2, <3>2
    <3>4. QED
      BY <3>1, <3>3
  <2>2. arguments[i].data \in Seq(Bytes)
    BY <2>1
  <2>3. QED
    BY <2>2
<1>3. QED
  BY <1>1, <1>2

\* The steps where no file is open.
LEMMA MakeElsewhere ==
  ASSUME MakeOn, arguments' = arguments, tool'.i \in Nat \ {0},
         tool'.step \notin {"create", "open", "read", "append"}
  PROVE  MakeFacts'
  BY MakeCommon DEF MakeFacts

LEMMA MakeCalls ==
  ASSUME MakeOn, ToolCalls, UNCHANGED loader
  PROVE  MakeGoesOn
<1>1. Step /\ pc # "done" /\ tool' = tool /\ arguments' = arguments
  BY DEF ToolCalls, tools
<1>2. LoadRight' /\ step' = "off"
  BY <1>1, MakeCommon, AnyLoads DEF AnyNext, loader
<1>3. MakeFacts'
  <2>1. CASE tool.step = "create"
    <3>1. CreateCall /\ tool.i \in DOMAIN arguments
      BY <2>1 DEF MakeOn, MakeFacts
    <3>2. CreateCall'
      BY <1>1, <3>1, MakeCommon, CreateGoesOn
    <3>3. (pc = "done" => CreateResult)'
      BY <1>1, <3>1, MakeCommon, CreateReturns
    <3>4. QED
      BY <1>1, <2>1, <3>1, <3>2, <3>3, MakeCommon DEF MakeFacts
  <2>2. CASE tool.step # "create"
    BY <1>1, <2>2 DEF MakeOn, MakeFacts, OnArgument
  <2>3. QED
    BY <2>1, <2>2
<1>4. QED
  BY <1>2, <1>3 DEF MakeGoesOn

\* The steps that leave the file system alone.
LEMMA MakeStays ==
  ASSUME MakeOn, UNCHANGED system, UNCHANGED loader
  PROVE  LoadRight' /\ step' = "off" /\ disk' = disk /\ pc' = pc /\ call' = call
         /\ writer' = writer /\ reader' = reader
<1>1. UNCHANGED vars
  BY DEF system, vars
<1>2. LoadRight'
  BY <1>1, AnyLoads DEF MakeOn
<1>3. QED
  BY <1>2 DEF system, loader, MakeOn

LEMMA MakeEnds ==
  ASSUME MakeOn, HostFails \/ Close \/ MakeEnd \/ MakeWrite, UNCHANGED loader
  PROVE  MakeGoesOn
<1>1. UNCHANGED system /\ arguments' = arguments
  BY DEF HostFails, Close, MakeEnd, MakeWrite
<1>2. tool'.i = tool.i /\ tool'.step \in {"exit", "write", "close"}
  <2>1. CASE HostFails \/ Close
    BY <2>1, MakeCommon DEF HostFails, Close, ToolFields
  <2>2. CASE MakeEnd \/ MakeWrite
    BY <2>2, MakeCommon, GoesTo DEF MakeEnd, MakeWrite, ToolFields
  <2>3. QED
    BY <2>1, <2>2
<1>3. MakeFacts'
  BY <1>1, <1>2, MakeCommon, MakeElsewhere
<1>4. QED
  BY <1>1, <1>3, MakeStays DEF MakeGoesOn

LEMMA MakeCreates ==
  ASSUME MakeOn, MakeCreate, UNCHANGED loader
  PROVE  MakeGoesOn
<1>1. PICK name : name = FileName(arguments[tool.i].path)
  OBVIOUS
<1>2. /\ tool.i <= Len(arguments) /\ arguments' = arguments
      /\ IF name \in DOMAIN FileNumber
         THEN Create(FileNumber[name]) /\ GotoStep("create", tool)
         ELSE Exit(1) /\ UNCHANGED system
  BY <1>1 DEF MakeCreate
<1>3. tool.i \in DOMAIN arguments
  BY <1>2, MakeCommon
<1>4. CASE name \in DOMAIN FileNumber
  <2>1. FileNumber[name] \in Names
    BY <1>4, ToysImageAssumption DEF ToysImageAssumption
  <2>2. Create(FileNumber[name])
    BY <1>2, <1>4
  <2>3. LoadRight' /\ step' = "off"
    BY <2>1, <2>2, MakeCommon, AnyLoads DEF AnyNext, AnyClient, loader
  <2>4. CreateCall' /\ pc' = "found"
    <3>1. PICK c : c = [NoCall EXCEPT !.op = "create", !.name = FileNumber[name]]
      OBVIOUS
    <3>2. DOMAIN c = Fields /\ c.op = "create" /\ c.file = 0
      BY <3>1, CallFields DEF NoCall
    <3>3. call' = [c EXCEPT !.before = Files(disk), !.from = reader] /\ pc' = "found"
      BY <2>2, <3>1 DEF Create, Begin
    <3>4. call'.op = "create" /\ call'.file = 0
      BY <3>2, <3>3 DEF Fields
    <3>5. QED
      BY <3>3, <3>4 DEF CreateCall, CreateSteps
  <2>5. tool'.i = tool.i /\ tool'.step = "create"
    BY <1>2, <1>4, MakeCommon, GoesTo DEF ToolFields
  <2>6. MakeFacts'
    BY <1>2, <1>3, <2>4, <2>5, MakeCommon DEF MakeFacts
  <2>7. QED
    BY <2>3, <2>6 DEF MakeGoesOn
<1>5. CASE name \notin DOMAIN FileNumber
  <2>1. UNCHANGED system /\ Exit(1)
    BY <1>2, <1>5
  <2>2. tool'.i = tool.i /\ tool'.step = "exit"
    BY <2>1, MakeCommon, Exits DEF ToolFields
  <2>3. MakeFacts'
    BY <1>2, <2>2, MakeCommon, MakeElsewhere
  <2>4. QED
    BY <2>1, <2>3, MakeStays DEF MakeGoesOn
<1>6. QED
  BY <1>4, <1>5

LEMMA MakeOpens ==
  ASSUME MakeOn, MakeOpen, UNCHANGED loader
  PROVE  MakeGoesOn
<1>1. /\ tool.step = "create" /\ pc = "done" /\ pc' = "idle" /\ call' = NoCall
      /\ UNCHANGED <<disk, buffer, writer, reader>> /\ arguments' = arguments
      /\ IF call.status = OK THEN GotoStep("open", [tool EXCEPT !.file = call.newFile]) ELSE Exit(1)
  BY DEF MakeOpen, At, Returned, Streams
<1>2. LoadRight' /\ step' = "off"
  <2>1. Return
    BY <1>1 DEF Return, Streams
  <2>2. QED
    BY <2>1, MakeCommon, AnyLoads DEF AnyNext, Step, loader
<1>3. tool.i \in DOMAIN arguments /\ CreateResult
  BY <1>1 DEF MakeOn, MakeFacts
<1>4. CASE call.status = OK
  <2>1. PICK f : f = call.newFile
    OBVIOUS
  <2>2. f \in FileIds
    BY <1>3, <1>4, <2>1, Statuses DEF CreateResult
  <2>3. PICK t : t = [tool EXCEPT !.file = f]
    OBVIOUS
  <2>4. DOMAIN t = ToolFields /\ t.i = tool.i /\ t.file = f
    BY <2>3, MakeCommon DEF ToolFields
  <2>5. GotoStep("open", t)
    BY <1>1, <1>4, <2>1, <2>3
  <2>6. tool'.i = tool.i /\ tool'.step = "open" /\ tool'.file = f
    BY <2>4, <2>5, GoesTo DEF ToolFields
  <2>7. MakeFacts'
    BY <1>1, <1>3, <2>2, <2>6, MakeCommon DEF MakeFacts
  <2>8. QED
    BY <1>2, <2>7 DEF MakeGoesOn
<1>5. CASE call.status # OK
  <2>1. tool'.i = tool.i /\ tool'.step = "exit"
    BY <1>1, <1>5, MakeCommon, Exits DEF ToolFields
  <2>2. MakeFacts'
    BY <1>1, <2>1, MakeCommon, MakeElsewhere
  <2>3. QED
    BY <1>2, <2>2 DEF MakeGoesOn
<1>6. QED
  BY <1>4, <1>5

LEMMA MakeBegins ==
  ASSUME MakeOn, MakeOpened, UNCHANGED loader
  PROVE  MakeGoesOn
<1>1. tool.step = "open" /\ UNCHANGED system /\ arguments' = arguments
      /\ GotoStep("read", [tool EXCEPT !.at = 0])
  BY DEF MakeOpened, At
<1>2. tool.i \in DOMAIN arguments /\ tool.file \in FileIds
  BY <1>1 DEF MakeOn, MakeFacts
<1>3. PICK t : t = [tool EXCEPT !.at = 0]
  OBVIOUS
<1>4. DOMAIN t = ToolFields /\ t.i = tool.i /\ t.file = tool.file /\ t.at = 0
  BY <1>3, MakeCommon DEF ToolFields
<1>5. tool'.i = tool.i /\ tool'.file = tool.file /\ tool'.at = 0 /\ tool'.step = "read"
  BY <1>1, <1>3, <1>4, GoesTo DEF ToolFields
<1>6. 0 \in 0 .. Len(arguments[tool.i].data)
  BY <1>2, MakeCommon
<1>7. MakeFacts'
  BY <1>1, <1>2, <1>5, <1>6, MakeCommon DEF MakeFacts, OnArgument
<1>8. QED
  BY <1>1, <1>7, MakeStays DEF MakeGoesOn

\* The sector that is read.
LEMMA Sector ==
  ASSUME NEW x \in Seq(Bytes), NEW a \in 0 .. Len(x), NEW n, n = Least(BlockSize, Len(x) - a)
  PROVE  /\ n \in Nat /\ n <= BlockSize /\ a + n \in 0 .. Len(x)
         /\ n < BlockSize => a + n = Len(x)
         /\ SubSeq(x, a + 1, a + n) \in Seq(Bytes)
<1>1. BlockSize \in Nat /\ Len(x) \in Nat /\ a \in Nat /\ a <= Len(x)
  BY BlockSets
<1>2. PICK l : l = Len(x)
  OBVIOUS
<1>3. n \in Nat /\ n <= BlockSize /\ a + n \in 0 .. l /\ (n < BlockSize => a + n = l)
  <2>1. l \in Nat /\ a <= l /\ n = IF BlockSize < l - a THEN BlockSize ELSE l - a
    BY <1>1, <1>2 DEF Least
  <2>2. QED
    BY <1>1, <2>1
<1>4. PICK b, c : b = a + n /\ c = a + 1
  OBVIOUS
<1>5. b \in Nat /\ b <= Len(x) /\ c \in Nat /\ c >= 1
  BY <1>1, <1>2, <1>3, <1>4
<1>6. SubSeq(x, c, b) \in Seq(Bytes)
  BY <1>5
<1>7. QED
  BY <1>2, <1>3, <1>4, <1>6

LEMMA MakeReads ==
  ASSUME MakeOn, MakeRead, UNCHANGED loader
  PROVE  MakeGoesOn
<1>1. PICK x, a, n : x = arguments[tool.i].data /\ a = tool.at /\ n = Least(BlockSize, Len(x) - a)
  OBVIOUS
<1>2. /\ tool.step = "read" /\ arguments' = arguments
      /\ Write(tool.file, SubSeq(x, a + 1, a + n))
      /\ GotoStep("append", [tool EXCEPT !.at = a + n, !.eof = n < BlockSize])
  BY <1>1 DEF MakeRead, At
<1>3. OnArgument /\ tool.file \in FileIds
  BY <1>2 DEF MakeOn, MakeFacts
<1>4. x \in Seq(Bytes) /\ a \in 0 .. Len(x) /\ tool.i \in DOMAIN arguments
  BY <1>1, <1>3, MakeCommon DEF OnArgument
<1>5. a + n \in 0 .. Len(x) /\ SubSeq(x, a + 1, a + n) \in Seq(Bytes)
  BY <1>1, <1>4, Sector
<1>6. LoadRight' /\ step' = "off"
  <2>1. PICK src : src = SubSeq(x, a + 1, a + n)
    OBVIOUS
  <2>2. AnyClient
    BY <1>2, <1>3, <1>5, <2>1 DEF AnyClient
  <2>3. QED
    BY <2>2, MakeCommon, AnyLoads DEF AnyNext, loader
<1>7. PICK b, eof : b = a + n /\ eof = (n < BlockSize)
  OBVIOUS
<1>8. PICK t : t = [tool EXCEPT !.at = b, !.eof = eof]
  OBVIOUS
<1>9. DOMAIN t = ToolFields /\ t.i = tool.i /\ t.file = tool.file /\ t.at = b
  BY <1>8, MakeCommon DEF ToolFields
<1>10. GotoStep("append", t)
  BY <1>2, <1>7, <1>8
<1>11. tool'.i = tool.i /\ tool'.file = tool.file /\ tool'.at = b /\ tool'.step = "append"
  BY <1>9, <1>10, GoesTo DEF ToolFields
<1>12. OnArgument'
  BY <1>1, <1>2, <1>4, <1>5, <1>7, <1>11 DEF OnArgument
<1>13. MakeFacts'
  BY <1>2, <1>3, <1>11, <1>12, MakeCommon DEF MakeFacts
<1>14. QED
  BY <1>6, <1>13 DEF MakeGoesOn

LEMMA MakeAppends ==
  ASSUME MakeOn, MakeWritten, UNCHANGED loader
  PROVE  MakeGoesOn
<1>1. /\ tool.step = "append" /\ pc = "done" /\ pc' = "idle" /\ call' = NoCall
      /\ disk' = disk /\ buffer' = buffer /\ reader' = reader /\ arguments' = arguments
      /\ \/ Exit(1) /\ UNCHANGED writer
         \/ GotoStep("read", tool) /\ UNCHANGED writer
         \/ GotoStep("next", [tool EXCEPT !.i = @ + 1]) /\ writer' = [writer EXCEPT ![tool.file] = 0]
  BY DEF MakeWritten, At, Returned
<1>2. OnArgument /\ tool.file \in FileIds
  BY <1>1 DEF MakeOn, MakeFacts
<1>3. ASSUME UNCHANGED writer
      PROVE  LoadRight' /\ step' = "off"
  <2>1. Return
    BY <1>1, <1>3 DEF Return, Streams
  <2>2. QED
    BY <2>1, MakeCommon, AnyLoads DEF AnyNext, Step, loader
<1>4. CASE Exit(1) /\ UNCHANGED writer
  <2>1. tool'.i = tool.i /\ tool'.step = "exit"
    BY <1>4, MakeCommon, Exits DEF ToolFields
  <2>2. MakeFacts'
    BY <1>1, <2>1, MakeCommon, MakeElsewhere
  <2>3. QED
    BY <1>3, <1>4, <2>2 DEF MakeGoesOn
<1>5. CASE GotoStep("read", tool) /\ UNCHANGED writer
  <2>1. tool'.i = tool.i /\ tool'.file = tool.file /\ tool'.at = tool.at /\ tool'.step = "read"
    BY <1>5, MakeCommon, GoesTo DEF ToolFields
  <2>2. OnArgument'
    BY <1>1, <1>2, <2>1 DEF OnArgument
  <2>3. MakeFacts'
    BY <1>1, <1>2, <2>1, <2>2, MakeCommon DEF MakeFacts
  <2>4. QED
    BY <1>3, <1>5, <2>3 DEF MakeGoesOn
<1>6. CASE GotoStep("next", [tool EXCEPT !.i = @ + 1]) /\ writer' = [writer EXCEPT ![tool.file] = 0]
  <2>1. PICK j : j = tool.i + 1
    OBVIOUS
  <2>2. j \in Nat \ {0}
    BY <2>1, MakeCommon
  <2>3. PICK t : t = [tool EXCEPT !.i = j]
    OBVIOUS
  <2>4. DOMAIN t = ToolFields /\ t.i = j
    BY <2>3, MakeCommon DEF ToolFields
  <2>5. GotoStep("next", t)
    BY <1>6, <2>1, <2>3
  <2>6. tool'.i = j /\ tool'.step = "next"
    BY <2>4, <2>5, GoesTo DEF ToolFields
  <2>7. MakeFacts'
    BY <1>1, <2>2, <2>6, MakeCommon, MakeElsewhere
  <2>8. \A f \in FileIds : writer'[f] \in {0, writer[f]}
    BY <1>6, MakeCommon
  <2>9. writer' \in [FileIds -> Blocks]
    <3>1. 0 \in Blocks
      BY BlockSets
    <3>2. QED
      BY <1>6, <3>1, MakeCommon
  <2>10. Resting
    BY <1>1 DEF Resting
  <2>11. ReaderIs(disk', writer', reader')
    BY <1>1, <2>8, <2>10, MakeCommon, ReaderRests
  <2>12. SystemRight'
    BY <1>1, <2>8, <2>9, <2>10, <2>11, MakeCommon, CallFields, RestKeeps
  <2>13. LoadRight' /\ step' = "off"
    BY <1>1, <2>12, MakeCommon, RestLoads DEF loader
  <2>14. QED
    BY <2>7, <2>13 DEF MakeGoesOn
<1>7. QED
  BY <1>1, <1>4, <1>5, <1>6

LEMMA MakeKeeps ==
  ASSUME MakeOn, FileTools, UNCHANGED loader
  PROVE  MakeGoesOn
<1>1. tool.name = "maketoysfs"
  BY DEF MakeOn
<1>2. ~ DumpOpened /\ ~ DumpFile /\ ~ DumpSized /\ ~ DumpRead /\ ~ DumpContent /\ ~ DumpEntry /\ ~ DumpEnd
  BY <1>1 DEF DumpOpened, DumpFile, DumpSized, DumpRead, DumpContent, DumpEntry, DumpEnd, At
<1>3. QED
  BY <1>2, MakeCalls, MakeEnds, MakeCreates, MakeOpens, MakeBegins, MakeReads, MakeAppends DEF FileTools

-----------------------------------------------------------------------------
(***************************************************************************)
(* The invariant of the programs with the file system that they use, and   *)
(* that the machine and its boot loader use after them.                    *)
(***************************************************************************)
ImagesRight ==
  /\ HostRight /\ LoadRight
  /\ tool.name # "none" => step = "off"
  /\ tool.name = "none" => tool = NoTool /\ output = <<>>
  /\ tool.name = "maketoysfs" => MakeFacts
  /\ tool.name = "dumptoysfs" => DumpFacts

OtherTools == {"makebootefi", "makefatfs", "maketoysimg"}

LEMMA ImagesInitRight == ImagesInit => ImagesRight
<1> SUFFICES ASSUME ImagesInit
             PROVE  ImagesRight
  OBVIOUS
<1>1. HostRight /\ LoadRight /\ step = "off"
  BY HostInit, LoadInit DEF ImagesInit, BootInit
<1>2. CASE arguments \in Arguments /\ tool = MakeToysFS
  <2>1. tool.name = "maketoysfs" /\ tool.step = "next" /\ tool.i = 1
    BY <1>2, NoToolFields DEF MakeToysFS, ToolFields
  <2>2. arguments \in Seq([path : STRING, data : Seq(Bytes)])
    BY <1>2, ToysImageAssumption DEF ToysImageAssumption
  <2>3. MakeFacts
    BY <2>1, <2>2 DEF MakeFacts
  <2>4. QED
    BY <1>1, <2>1, <2>3 DEF ImagesRight
<1>3. CASE tool = [NoTool EXCEPT !.name = "makefatfs", !.step = "read"]
  <2>1. tool.name = "makefatfs"
    BY <1>3, NoToolFields DEF ToolFields
  <2>2. QED
    BY <1>1, <2>1 DEF ImagesRight
<1>4. QED
  BY <1>2, <1>3 DEF ImagesInit

\* The programs that do not use the file system.
LEMMA OthersLoad ==
  ASSUME ImagesRight,
         \/ BootEfiStart \/ BootEfiRead \/ BootEfiWrite
         \/ FatStart \/ FatRead \/ FatHeader \/ FatCopy
         \/ ImageStart \/ ImageRead \/ ImageHeader \/ ImageCopy
  PROVE  UNCHANGED system /\ UNCHANGED loader /\ tool.name # "none" /\ tool'.name \in OtherTools
<1>1. DOMAIN tool = ToolFields
  BY DEF ImagesRight, HostRight
<1>2. CASE BootEfiStart
  <2>1. PICK size : tool' = [NoTool EXCEPT !.name = "makebootefi", !.step = "read", !.size = size]
    BY <1>2 DEF BootEfiStart
  <2>2. tool'.name = "makebootefi"
    BY <2>1, NoToolFields DEF ToolFields
  <2>3. QED
    BY <1>2, <2>2 DEF BootEfiStart, Keep, Succeeded, At, OtherTools
<1>3. CASE FatStart
  <2>1. tool'.name = "makefatfs"
    BY <1>3, NoToolFields DEF FatStart, Starts, ToolFields
  <2>2. QED
    BY <1>3, <2>1 DEF FatStart, Keep, Succeeded, At, OtherTools
<1>4. CASE ImageStart
  <2>1. tool'.name = "maketoysimg"
    BY <1>4, NoToolFields DEF ImageStart, Starts, ToolFields
  <2>2. QED
    BY <1>4, <2>1 DEF ImageStart, Keep, Succeeded, At, OtherTools
<1>5. ASSUME (\E phase : GotoStep(phase, tool)) \/ (\E status : Exit(status)) \/ UNCHANGED tool
             \/ tool' = [tool EXCEPT !.i = @ + 1],
             tool.name \in OtherTools
      PROVE  tool.name # "none" /\ tool'.name \in OtherTools
  <2>1. tool'.name = tool.name
    BY <1>1, <1>5 DEF GotoStep, Exit, ToolFields
  <2>2. QED
    BY <1>5, <2>1 DEF OtherTools
<1>6. CASE BootEfiRead \/ FatRead \/ ImageRead
  <2>1. (\E phase : GotoStep(phase, tool)) \/ (\E status : Exit(status))
    BY <1>6, Zenon DEF BootEfiRead, FatRead, ImageRead
  <2>2. UNCHANGED system /\ UNCHANGED loader /\ tool.name \in OtherTools
    BY <1>6 DEF BootEfiRead, FatRead, ImageRead, Keep, At, OtherTools
  <2>3. QED
    BY <1>5, <2>1, <2>2
<1>7. CASE BootEfiWrite \/ FatHeader \/ ImageHeader
  <2>1. (\E phase : GotoStep(phase, tool)) \/ UNCHANGED tool
    BY <1>7, Zenon DEF BootEfiWrite, FatHeader, ImageHeader
  <2>2. UNCHANGED system /\ UNCHANGED loader /\ tool.name \in OtherTools
    BY <1>7 DEF BootEfiWrite, FatHeader, ImageHeader, Keep, At, OtherTools
  <2>3. QED
    BY <1>5, <2>1, <2>2
<1>8. CASE FatCopy \/ ImageCopy
  <2>1. (\E phase : GotoStep(phase, tool)) \/ tool' = [tool EXCEPT !.i = @ + 1]
    BY <1>8, Zenon DEF FatCopy, ImageCopy
  <2>2. UNCHANGED system /\ UNCHANGED loader /\ tool.name \in OtherTools
    BY <1>8 DEF FatCopy, ImageCopy, Keep, At, OtherTools
  <2>3. QED
    BY <1>5, <2>1, <2>2
<1>9. QED
  BY <1>2, <1>3, <1>4, <1>6, <1>7, <1>8

\* The programs for files.
LEMMA FileToolsLoad ==
  ASSUME ImagesRight, FileTools, UNCHANGED loader, UNCHANGED host
  PROVE  ImagesRight'
<1>1. HostRight' /\ tool'.name = tool.name /\ DOMAIN tool = ToolFields /\ IsSeq(output) /\ LoadRight
  BY FileToolsHost DEF ImagesRight, HostRight
<1>2. tool.name # "none" /\ step = "off"
  <2>1. CASE tool.name = "none"
    <3>1. tool = NoTool /\ NoTool.step = "exit"
      BY <2>1 DEF ImagesRight, NoTool
    <3>2. ~ ToolCalls /\ ~ HostFails /\ ~ Close
      BY <2>1, <3>1 DEF ToolCalls, HostFails, Close, At
    <3>3. ~ MakeCreate /\ ~ MakeOpen /\ ~ MakeOpened /\ ~ MakeRead /\ ~ MakeWritten /\ ~ MakeEnd /\ ~ MakeWrite
      BY <2>1 DEF MakeCreate, MakeOpen, MakeOpened, MakeRead, MakeWritten, MakeEnd, MakeWrite, At
    <3>4. ~ DumpOpened /\ ~ DumpFile /\ ~ DumpSized /\ ~ DumpRead /\ ~ DumpContent /\ ~ DumpEntry /\ ~ DumpEnd
      BY <2>1 DEF DumpOpened, DumpFile, DumpSized, DumpRead, DumpContent, DumpEntry, DumpEnd, At
    <3>5. QED
      BY <3>2, <3>3, <3>4 DEF FileTools
  <2>2. QED
    BY <2>1 DEF ImagesRight
<1>3. CASE tool.name = "maketoysfs"
  <2>1. MakeOn
    BY <1>1, <1>2, <1>3 DEF MakeOn, ImagesRight
  <2>2. MakeGoesOn
    BY <2>1, MakeKeeps
  <2>3. QED
    BY <1>1, <1>2, <1>3, <2>2 DEF ImagesRight, MakeGoesOn
<1>4. CASE tool.name = "dumptoysfs"
  <2>1. DumpOn
    BY <1>1, <1>2, <1>4 DEF DumpOn, ImagesRight
  <2>2. DumpGoesOn
    BY <1>1, <2>1, DumpKeeps
  <2>3. QED
    BY <1>1, <1>2, <1>4, <2>2 DEF ImagesRight, DumpGoesOn
<1>5. CASE tool.name \notin {"maketoysfs", "dumptoysfs"}
  <2>1. ~ MakeCreate /\ ~ MakeOpen /\ ~ MakeOpened /\ ~ MakeRead /\ ~ MakeWritten /\ ~ MakeEnd /\ ~ MakeWrite
    BY <1>5 DEF MakeCreate, MakeOpen, MakeOpened, MakeRead, MakeWritten, MakeEnd, MakeWrite, At
  <2>2. ~ DumpOpened /\ ~ DumpFile /\ ~ DumpSized /\ ~ DumpRead /\ ~ DumpContent /\ ~ DumpEntry /\ ~ DumpEnd
    BY <1>5 DEF DumpOpened, DumpFile, DumpSized, DumpRead, DumpContent, DumpEntry, DumpEnd, At
  <2>3. ToolCalls \/ HostFails \/ Close
    BY <2>1, <2>2 DEF FileTools
  <2>4. [AnyNext]_vars
    BY <2>3 DEF ToolCalls, HostFails, Close, system, vars, AnyNext
  <2>5. LoadRight' /\ step' = "off"
    BY <1>1, <1>2, <2>4, AnyLoads DEF loader
  <2>6. QED
    BY <1>1, <1>2, <1>5, <2>5 DEF ImagesRight
<1>6. QED
  BY <1>3, <1>4, <1>5

\* A machine that stops between two calls: its files are saved.
LEMMA SavingStarts ==
  ASSUME ImagesRight, SaveFiles, HostRight'
  PROVE  ImagesRight'
<1>1. /\ tool = NoTool /\ step = "off" /\ pc = "idle" /\ writer' = [f \in FileIds |-> 0] /\ reader' = NoReader
      /\ output' = output /\ disk' = disk /\ pc' = pc /\ call' = call /\ UNCHANGED loader
  BY DEF SaveFiles
<1>2. LoadRight /\ SystemRight /\ DOMAIN call = Fields /\ output = <<>>
  <2>1. tool.name = "none"
    BY <1>1 DEF NoTool
  <2>2. QED
    BY <2>1 DEF ImagesRight, LoadRight, SystemRight, BlockInvariant, BlockInvariantOf
<1>3. Resting
  BY <1>1 DEF Resting
<1>4. writer' \in [FileIds -> Blocks] /\ \A f \in FileIds : writer'[f] = 0
  <2>1. 0 \in Blocks
    BY BlockSets
  <2>2. QED
    BY <1>1, <2>1
<1>5. SystemRight'
  <2>1. ReaderIs(disk', writer', reader')
    BY <1>1 DEF ReaderIs, NoReader
  <2>2. QED
    BY <1>1, <1>2, <1>3, <1>4, <2>1, RestKeeps
<1>6. LoadRight'
  BY <1>1, <1>2, <1>3, <1>5, RestLoads
<1>7. tool'.name = "dumptoysfs" /\ tool'.step = "open" /\ tool'.tar \in BOOLEAN
  <2>1. PICK tar \in BOOLEAN : tool' = [NoTool EXCEPT !.name = "dumptoysfs", !.step = "open", !.tar = tar]
    BY DEF SaveFiles, DumpToysFS
  <2>2. tool'.name = "dumptoysfs" /\ tool'.step = "open" /\ tool'.tar = tar
    BY <2>1, NoToolFields DEF ToolFields
  <2>3. QED
    BY <2>2
<1>8. DumpIn("open")'
  BY <1>4, <1>7, Zenon DEF DumpIn
<1>9. Opens'
  BY <1>1, <1>2 DEF Opens
<1>10. DumpFacts'
  BY <1>8, <1>9, DumpAt, PTL
<1>11. step' = "off"
  BY <1>1 DEF loader
<1>12. QED
  BY <1>6, <1>7, <1>10, <1>11 DEF ImagesRight

LEMMA DumpFactsStay ==
  ASSUME DumpFacts, tool' = tool, output' = output, disk' = disk, pc' = pc, call' = call,
         writer' = writer, reader' = reader
  PROVE  DumpFacts'
<1>1. \A S : Saves(S) => Saves(S)'
  <2>1. ASSUME NEW S, Saves(S)
        PROVE  Saves(S)'
    BY <2>1, SavesStays
  <2>2. QED
    BY <2>1
<1>2. OnFile => OnFile' /\ (Keeps(tool.i) => Keeps(tool.i)')
  BY OnFileStays
<1>3. /\ Before(disk, tool.file)' = Before(disk, tool.file)
      /\ Listed(disk)' = Listed(disk)
      /\ PositionOn(disk, reader)' = PositionOn(disk, reader)
      /\ PositionOn(disk, call.from)' = PositionOn(disk, call.from)
  OBVIOUS
<1>4. \A p : HasRead(p) => HasRead(p)'
  BY DEF HasRead
<1>5. Opens => Opens'
  BY DEF Opens
<1>6. Nexts => Nexts'
  BY <1>1, <1>3 DEF Nexts
<1>7. Sizes => Sizes'
  BY <1>2 DEF Sizes, StatCall
<1>8. Saving => Saving'
  BY <1>2, <1>3, <1>4 DEF Saving
<1>9. Contents => Contents'
  BY <1>2, <1>3, <1>4 DEF Contents, ReadCall, Asks
<1>10. (Ended => Saves(Listed(disk))) => (Ended => Saves(Listed(disk)))'
  BY <1>1, <1>3 DEF Ended
<1>11. QED
  BY <1>5, <1>6, <1>7, <1>8, <1>9, <1>10 DEF DumpFacts

LEMMA ImagesKeep == ImagesRight /\ [ImagesNext]_all => ImagesRight'
<1> SUFFICES ASSUME ImagesRight, [ImagesNext]_all
             PROVE  ImagesRight'
  OBVIOUS
<1>1. HostRight' /\ LoadRight
  BY HostKeeps DEF ImagesRight
<1>2. CASE FileTools /\ UNCHANGED <<loader, host>>
  BY <1>2, FileToolsLoad
<1>3. CASE \/ BootEfiStart \/ BootEfiRead \/ BootEfiWrite
           \/ FatStart \/ FatRead \/ FatHeader \/ FatCopy
           \/ ImageStart \/ ImageRead \/ ImageHeader \/ ImageCopy
  <2>1. UNCHANGED system /\ UNCHANGED loader /\ tool.name # "none" /\ tool'.name \in OtherTools
    BY <1>3, OthersLoad
  <2>2. step = "off"
    BY <2>1 DEF ImagesRight
  <2>3. LoadRight' /\ step' = "off"
    <3>1. UNCHANGED vars
      BY <2>1 DEF system, vars
    <3>2. QED
      BY <1>1, <2>1, <2>2, <3>1, AnyLoads DEF loader
  <2>4. QED
    BY <1>1, <2>1, <2>3 DEF ImagesRight, OtherTools
<1>4. CASE SwitchOn
  <2>1. tool.name = "maketoysimg" /\ tool' = NoTool /\ output' = <<>> /\ UNCHANGED system /\ UNCHANGED loader
    BY <1>4 DEF SwitchOn, Succeeded, At
  <2>2. step = "off" /\ tool'.name = "none"
    BY <2>1 DEF ImagesRight, NoTool
  <2>3. LoadRight'
    <3>1. UNCHANGED vars
      BY <2>1 DEF system, vars
    <3>2. QED
      BY <1>1, <2>1, <2>2, <3>1, AnyLoads
  <2>4. QED
    BY <1>1, <2>1, <2>2, <2>3 DEF ImagesRight
<1>5. CASE Use
  <2>1. tool = NoTool /\ tool' = tool /\ output' = output /\ BootNext
    BY <1>5 DEF Use, tools
  <2>2. LoadRight'
    BY <1>1, <2>1, LoadKeeps
  <2>3. tool.name = "none" /\ output = <<>>
    BY <2>1 DEF ImagesRight, NoTool
  <2>4. QED
    BY <1>1, <2>1, <2>2, <2>3 DEF ImagesRight
<1>6. CASE SaveFiles
  BY <1>1, <1>6, SavingStarts
<1>7. CASE UNCHANGED all
  <2>1. UNCHANGED bootVars /\ tool' = tool /\ output' = output /\ arguments' = arguments
    BY <1>7 DEF all, tools
  <2>2. LoadRight'
    BY <1>1, <2>1, LoadKeeps
  <2>3. disk' = disk /\ pc' = pc /\ call' = call /\ writer' = writer /\ reader' = reader /\ step' = step
    BY <2>1 DEF bootVars, vars, loader
  <2>4. MakeFacts => MakeFacts'
    <3>1. CreateCall => CreateCall'
      BY <2>3 DEF CreateCall
    <3>2. CreateResult => CreateResult'
      BY <2>3 DEF CreateResult
    <3>3. OnArgument => OnArgument'
      BY <2>1 DEF OnArgument
    <3>4. QED
      BY <2>1, <2>3, <3>1, <3>2, <3>3 DEF MakeFacts
  <2>5. DumpFacts => DumpFacts'
    BY <2>1, <2>3, DumpFactsStay
  <2>6. QED
    BY <1>1, <2>1, <2>2, <2>3, <2>4, <2>5 DEF ImagesRight
<1>8. QED
  BY <1>2, <1>3, <1>4, <1>5, <1>6, <1>7 DEF ImagesNext, ToolStep

-----------------------------------------------------------------------------
(***************************************************************************)
(* dumptoysfs saves all the files of a disk that any client has left, with *)
(* their bytes or their lines, in the order of their names: the sectors of *)
(* an entry are those that the reads of its file gave, up to the last one. *)
(***************************************************************************)
THEOREM DumpSavesTheFiles == ImagesSpec => []DumpIsRight
<1>1. ASSUME ImagesRight
      PROVE  DumpIsRight
  <2>1. SUFFICES ASSUME Succeeded("dumptoysfs")
                 PROVE  /\ \A i, j \in DOMAIN output : i < j => output[i].name < output[j].name
                        /\ \A i \in DOMAIN output :
                             \E f \in {f \in DOMAIN Files(disk) : tool.tar => Files(disk)[f].name \notin LongNames} :
                               IsEntryOf(output[i], Files(disk)[f])
                        /\ \A f \in {f \in DOMAIN Files(disk) : tool.tar => Files(disk)[f].name \notin LongNames} :
                             \E i \in DOMAIN output : IsEntryOf(output[i], Files(disk)[f])
    BY Zenon DEF DumpIsRight
  <2>2. Saves(Listed(disk))
    BY <1>1, <2>1 DEF ImagesRight, DumpFacts, Succeeded, At, Ended
  <2>3. DOMAIN Files(disk) = Listed(disk) /\ \A f \in Listed(disk) : Files(disk)[f].name = Name(disk[f])
    BY DEF Files
  <2>4. \A f \in Listed(disk) : Keeps(f) <=> (tool.tar => Files(disk)[f].name \notin LongNames)
    BY <2>3, Zenon DEF Keeps
  <2>5. QED
    BY <2>2, <2>3, <2>4, Zenon DEF Saves
<1>2. ImagesSpec => ImagesInit /\ [][ImagesNext]_all
  BY PTL DEF ImagesSpec
<1>3. QED
  BY <1>1, <1>2, ImagesInitRight, ImagesKeep, PTL

(***************************************************************************)
(* The boot loader runs the kernel of the disk when the disk is one that   *)
(* maketoysfs has made, and that the machine has used.                     *)
(***************************************************************************)
THEOREM ImagesLoadTheKernel == ImagesSpec => []KernelLoaded
<1>1. ImagesRight => KernelLoaded
  BY LoaderMeans DEF ImagesRight, LoadRight, SystemRight
<1>2. ImagesSpec => ImagesInit /\ [][ImagesNext]_all
  BY PTL DEF ImagesSpec
<1>3. QED
  BY <1>1, <1>2, ImagesInitRight, ImagesKeep, PTL

=============================================================================
