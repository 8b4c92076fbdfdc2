---------------------------- MODULE BlockFSProofs ----------------------------
(***************************************************************************)
(* Theorems about the blocks of the file system, for every size of the     *)
(* disk and of its blocks and every set of names: no block is lost or      *)
(* shared, the files are listed in the order of their names, a call that   *)
(* stops halfway leaves the other files as they were, and the calls do     *)
(* what FileStore says.                                                    *)
(*                                                                         *)
(* The functions of the code follow lists: next_block from a block to the  *)
(* next one of a file or of the free blocks, next_file from a file to the  *)
(* next one.  The invariant says, for each step of each function, which    *)
(* blocks are in which list; a step moves a block or a list of blocks.     *)
(***************************************************************************)
EXTENDS BlockFS, Induction, FiniteSetTheorems, SequenceTheorems

-----------------------------------------------------------------------------
(***************************************************************************)
(* Lists.  s[b] is what follows b, 0 if nothing does; r gives the order.   *)
(***************************************************************************)
\* x is the first element of S, or 0 if S is empty.
FirstOf(S, r, x) ==
  \/ x \in S /\ \A c \in S : r[x] <= r[c]
  \/ x = 0 /\ S = {}

Beyond(S, r, b) == {c \in S : r[c] > r[b]}

\* The elements of S, from a, along s, are in the order r.
Sorted(s, a, S, r) ==
  /\ FirstOf(S, r, a)
  /\ \A b \in S : FirstOf(Beyond(S, r, b), r, s[b])
  /\ \A b, c \in S : r[b] = r[c] => b = c

Links(s, a, S) == \E r \in [S -> Int] : Sorted(s, a, S, r)

LEMMA ListFrame ==
  ASSUME NEW s, NEW t, NEW a, NEW S, \A b \in S : t[b] = s[b], Links(s, a, S)
  PROVE  Links(t, a, S)
BY DEF Links, Sorted

LEMMA ListEmpty ==
  ASSUME NEW s
  PROVE  Links(s, 0, {})
<1>1. [b \in {} |-> 0] \in [{} -> Int]
  OBVIOUS
<1>2. Sorted(s, 0, {}, [b \in {} |-> 0])
  BY DEF Sorted, FirstOf
<1>3. QED
  BY <1>1, <1>2 DEF Links

LEMMA ListOfOne ==
  ASSUME NEW s, NEW b, s[b] = 0
  PROVE  Links(s, b, {b})
<1> DEFINE r == [c \in {b} |-> 0]
<1>1. r \in [{b} -> Int]
  OBVIOUS
<1>2. Beyond({b}, r, b) = {}
  BY DEF Beyond
<1>3. Sorted(s, b, {b}, r)
  BY <1>2 DEF Sorted, FirstOf
<1>4. QED
  BY <1>1, <1>3 DEF Links

LEMMA ListHead ==
  ASSUME NEW s, NEW a, NEW S, 0 \notin S, Links(s, a, S)
  PROVE  /\ a = 0 <=> S = {}
         /\ a # 0 => a \in S
         /\ \A b \in S : s[b] \in (S \cup {0}) \ {a, b}
<1>1. PICK r \in [S -> Int] : Sorted(s, a, S, r)
  BY DEF Links
<1>2. FirstOf(S, r, a)
  BY <1>1 DEF Sorted
<1>3. (a = 0 <=> S = {}) /\ (a # 0 => a \in S)
  BY <1>2 DEF FirstOf
<1>4. ASSUME NEW b \in S
      PROVE  s[b] \in (S \cup {0}) \ {a, b}
  <2>1. FirstOf(Beyond(S, r, b), r, s[b])
    BY <1>1 DEF Sorted
  <2>2. CASE s[b] \in Beyond(S, r, b)
    <3>1. s[b] \in S /\ r[s[b]] > r[b]
      BY <2>2 DEF Beyond
    <3>2. a \in S /\ r[a] <= r[b]
      BY <1>2, <1>3 DEF FirstOf
    <3>3. QED
      BY <3>1, <3>2
  <2>3. CASE s[b] = 0
    BY <1>3, <2>3
  <2>4. QED
    BY <2>1, <2>2, <2>3 DEF FirstOf
<1>5. QED
  BY <1>3, <1>4

\* Only one element is the last one.
LEMMA LastIsOne ==
  ASSUME NEW s, NEW a, NEW S, 0 \notin S, Links(s, a, S),
         NEW b \in S, NEW c \in S, s[b] = 0, s[c] = 0
  PROVE  b = c
<1>1. PICK r \in [S -> Int] : Sorted(s, a, S, r)
  BY DEF Links
<1>2. Beyond(S, r, b) = {} /\ Beyond(S, r, c) = {}
  BY <1>1 DEF Sorted, FirstOf, Beyond
<1>3. r[b] = r[c]
  BY <1>1, <1>2 DEF Beyond
<1>4. QED
  BY <1>1, <1>3 DEF Sorted

\* The list without its first element.
LEMMA ListTail ==
  ASSUME NEW s, NEW a, NEW S, 0 \notin S, Links(s, a, S), a # 0
  PROVE  Links(s, s[a], S \ {a})
<1>1. PICK r \in [S -> Int] : Sorted(s, a, S, r)
  BY DEF Links
<1>2. a \in S
  BY ListHead
<1> DEFINE T == S \ {a}
           q == [b \in T |-> r[b]]
<1>3. q \in [T -> Int]
  OBVIOUS
<1>4. Beyond(S, r, a) = T
  <2>1. \A c \in S : r[a] <= r[c] /\ (r[a] = r[c] => a = c)
    BY <1>1, <1>2 DEF Sorted, FirstOf
  <2>2. QED
    BY <1>2, <2>1 DEF Beyond
<1>5. FirstOf(T, q, s[a])
  <2>1. FirstOf(T, r, s[a])
    BY <1>1, <1>2, <1>4 DEF Sorted
  <2>2. QED
    BY <2>1 DEF FirstOf
<1>6. ASSUME NEW b \in T
      PROVE  FirstOf(Beyond(T, q, b), q, s[b])
  <2>1. a \notin Beyond(S, r, b)
    BY <1>4 DEF Beyond
  <2>2. Beyond(T, q, b) = Beyond(S, r, b)
    BY <2>1 DEF Beyond
  <2>3. FirstOf(Beyond(S, r, b), r, s[b])
    BY <1>1 DEF Sorted
  <2>4. \A c \in Beyond(S, r, b) : q[c] = r[c]
    BY <2>1 DEF Beyond
  <2>5. QED
    BY <2>2, <2>3, <2>4 DEF FirstOf
<1>7. \A b, c \in T : q[b] = q[c] => b = c
  BY <1>1 DEF Sorted
<1>8. Sorted(s, s[a], T, q)
  BY <1>5, <1>6, <1>7 DEF Sorted
<1>9. QED
  BY <1>3, <1>8 DEF Links

\* A list that is put after the last element of another one.
LEMMA ListJoin ==
  ASSUME NEW s, NEW a1, NEW S1, NEW a2, NEW S2, NEW z \in S1,
         S1 \cup S2 \subseteq DOMAIN s, 0 \notin S1 \cup S2, S1 \cap S2 = {},
         Links(s, a1, S1), Links(s, a2, S2), s[z] = 0
  PROVE  Links([s EXCEPT ![z] = a2], a1, S1 \cup S2)
<1>1. PICK p \in [S1 -> Int] : Sorted(s, a1, S1, p)
  BY DEF Links
<1>2. PICK q \in [S2 -> Int] : Sorted(s, a2, S2, q)
  BY DEF Links
<1> DEFINE k == IF S2 = {} THEN 0 ELSE p[z] - q[a2] + 1
           S == S1 \cup S2
           r == [b \in S |-> IF b \in S1 THEN p[b] ELSE q[b] + k]
           t == [s EXCEPT ![z] = a2]
<1>3. S2 # {} => a2 \in S2
  BY ListHead
<1>4. k \in Int
  BY <1>3
<1>5. r \in [S -> Int] /\ (\A b \in S1 : r[b] = p[b]) /\ (\A b \in S2 : r[b] = q[b] + k)
  BY <1>4
<1> HIDE DEF r
<1>6. \A c \in S1 : p[c] <= p[z]
  <2>1. FirstOf(Beyond(S1, p, z), p, 0)
    BY <1>1 DEF Sorted
  <2>2. Beyond(S1, p, z) = {}
    BY <2>1 DEF FirstOf, Beyond
  <2>3. QED
    BY <2>2 DEF Beyond
<1>7. \A c \in S2 : p[z] < r[c]
  <2>1. ASSUME NEW c \in S2 PROVE p[z] < r[c]
    <3>1. q[a2] <= q[c] /\ a2 \in S2
      BY <1>2, <1>3 DEF Sorted, FirstOf
    <3>2. k = p[z] - q[a2] + 1
      OBVIOUS
    <3> HIDE DEF k
    <3>3. QED
      BY <1>5, <3>1, <3>2
  <2>2. QED
    BY <2>1
<1> HIDE DEF k
<1>8. FirstOf(S, r, a1)
  <2>1. a1 \in S1 /\ \A c \in S1 : p[a1] <= p[c]
    BY <1>1 DEF Sorted, FirstOf
  <2>2. p[a1] <= p[z]
    BY <2>1
  <2>3. ASSUME NEW c \in S PROVE r[a1] <= r[c]
    <3>1. CASE c \in S1
      BY <1>5, <2>1, <3>1
    <3>2. CASE c \in S2
      BY <1>5, <1>7, <2>1, <2>2, <3>2
    <3>3. QED
      BY <3>1, <3>2
  <2>4. QED
    BY <2>1, <2>3 DEF FirstOf
<1>9. ASSUME NEW b \in S
      PROVE  FirstOf(Beyond(S, r, b), r, t[b])
  <2>1. CASE b = z
    <3>1. t[b] = a2
      BY <2>1
    <3>2. Beyond(S, r, b) = S2
      <4>1. \A c \in S1 : ~ (r[c] > r[z])
        BY <1>5, <1>6
      <4>2. \A c \in S2 : r[c] > r[z]
        BY <1>5, <1>7
      <4>3. QED
        BY <2>1, <4>1, <4>2 DEF Beyond
    <3>3. FirstOf(S2, q, a2)
      BY <1>2 DEF Sorted
    <3>4. FirstOf(S2, r, a2)
      <4>1. CASE a2 \in S2 /\ \A c \in S2 : q[a2] <= q[c]
        <5>1. \A c \in S2 : r[a2] <= r[c]
          BY <1>4, <1>5, <4>1
        <5>2. QED
          BY <4>1, <5>1 DEF FirstOf
      <4>2. CASE a2 = 0 /\ S2 = {}
        BY <4>2 DEF FirstOf
      <4>3. QED
        BY <3>3, <4>1, <4>2 DEF FirstOf
    <3>5. QED
      BY <3>1, <3>2, <3>4
  <2>2. CASE b \in S1 /\ b # z
    <3>1. t[b] = s[b]
      BY <2>2
    <3>2. FirstOf(Beyond(S1, p, b), p, s[b])
      BY <1>1, <2>2 DEF Sorted
    <3>3. p[b] < p[z]
      <4>1. p[b] <= p[z] /\ p[b] # p[z]
        BY <1>1, <1>6, <2>2 DEF Sorted
      <4>2. QED
        BY <2>2, <4>1
    <3>4. z \in Beyond(S1, p, b)
      BY <3>3 DEF Beyond
    <3>5. s[b] \in S1 /\ p[s[b]] > p[b] /\ \A c \in Beyond(S1, p, b) : p[s[b]] <= p[c]
      BY <3>2, <3>4 DEF FirstOf, Beyond
    <3>6. s[b] \in Beyond(S, r, b)
      BY <1>5, <2>2, <3>5 DEF Beyond
    <3>7. ASSUME NEW c \in Beyond(S, r, b) PROVE r[s[b]] <= r[c]
      <4>1. c \in S /\ r[c] > r[b]
        BY DEF Beyond
      <4>2. CASE c \in S1
        <5>1. c \in Beyond(S1, p, b)
          BY <1>5, <2>2, <4>1, <4>2 DEF Beyond
        <5>2. QED
          BY <1>5, <3>5, <4>2, <5>1
      <4>3. CASE c \in S2
        <5>1. p[s[b]] <= p[z] /\ p[z] < r[c] /\ r[s[b]] = p[s[b]]
          BY <1>5, <1>6, <1>7, <3>5, <4>3
        <5>2. p[s[b]] \in Int /\ p[z] \in Int /\ r[c] \in Int
          BY <1>5, <3>5, <4>3
        <5>3. QED
          BY <5>1, <5>2
      <4>4. QED
        BY <4>1, <4>2, <4>3
    <3>8. QED
      BY <3>1, <3>6, <3>7 DEF FirstOf
  <2>3. CASE b \in S2
    <3>1. t[b] = s[b]
      BY <2>3
    <3>2. FirstOf(Beyond(S2, q, b), q, s[b])
      BY <1>2, <2>3 DEF Sorted
    <3>3. Beyond(S, r, b) = Beyond(S2, q, b)
      <4>1. \A c \in S1 : ~ (r[c] > r[b])
        BY <1>5, <1>6, <1>7, <2>3
      <4>2. \A c \in S2 : r[c] > r[b] <=> q[c] > q[b]
        BY <1>4, <1>5, <2>3
      <4>3. QED
        BY <4>1, <4>2 DEF Beyond
    <3>4. \A c, e \in S2 : q[c] <= q[e] => r[c] <= r[e]
      BY <1>4, <1>5
    <3>5. Beyond(S2, q, b) \subseteq S2
      BY DEF Beyond
    <3>6. QED
      BY <3>1, <3>2, <3>3, <3>4, <3>5 DEF FirstOf
  <2>4. QED
    BY <2>1, <2>2, <2>3
<1>10. ASSUME NEW b \in S, NEW c \in S, r[b] = r[c]
       PROVE  b = c
  <2>1. CASE b \in S1 /\ c \in S1
    BY <1>1, <1>5, <1>10, <2>1 DEF Sorted
  <2>2. CASE b \in S2 /\ c \in S2
    <3>1. q[b] = q[c]
      BY <1>4, <1>5, <1>10, <2>2
    <3>2. QED
      BY <1>2, <2>2, <3>1 DEF Sorted
  <2>3. CASE b \in S1 /\ c \in S2
    BY <1>5, <1>6, <1>7, <1>10, <2>3
  <2>4. CASE b \in S2 /\ c \in S1
    BY <1>5, <1>6, <1>7, <1>10, <2>4
  <2>5. QED
    BY <2>1, <2>2, <2>3, <2>4
<1>11. Sorted(t, a1, S, r)
  BY <1>8, <1>9, <1>10 DEF Sorted
<1>12. QED
  BY <1>5, <1>11 DEF Links

-----------------------------------------------------------------------------
(***************************************************************************)
(* The blocks and the files.  own[b] is the file that block b is in, 0 if  *)
(* it is free; h is the first free block; L are the files.                 *)
(***************************************************************************)
Own(own, f) == {b \in FileIds : own[b] = f}

Layout(own, s, L, h) ==
  /\ own \in [FileIds -> L \cup {0}]
  /\ Links(s, h, Own(own, 0))
  /\ \A f \in L : Links(s, f, Own(own, f))

Link(d) == [b \in FileIds |-> block_get_next(d[b])]
Cut(s, b) == [s EXCEPT ![b] = 0]
FreeHead(d) == block_get_next(d[SUPER_BLOCK])
FirstFile(d) == NextFile(d[SUPER_BLOCK])
NextOf(d, L) == [f \in L |-> NextFile(d[f])]
NameOf(d, L) == [f \in L |-> Name(d[f])]

\* The files are listed from a first one along nf, in the order of their names.
Directory(d, L, first, nf) ==
  /\ NameOf(d, L) \in [L -> Names]
  /\ Sorted(nf, first, L, NameOf(d, L))

Listing(d, L) == Directory(d, L, FirstFile(d), NextOf(d, L))

\* Each block is in the right list, and no call is halfway.
Whole(d, L, own) == Layout(own, Link(d), L, FreeHead(d)) /\ Listing(d, L)

\* A free block is linked or has the size of a block, and the last block of a
\* file has some data, unless it is the first one too.
BlockSizes(d, own) ==
  \A b \in FileIds :
    /\ own[b] = 0 => d[b][0] >= BlockSize
    /\ own[b] \notin {0, b} => d[b][0] > 1

DiskOK(d, L) ==
  /\ d \in [Blocks -> [Offsets -> Nat]]
  /\ \A b \in Blocks : d[b][0] >= 1 /\ d[b][0] < BlockSize + NumBlocks
  /\ \A f \in L : HeaderSize(Name(d[f])) <= d[f][0]

-----------------------------------------------------------------------------
(***************************************************************************)
(* What holds at each step of a call.                                      *)
(***************************************************************************)
\* n is the file after p, or the first one if p is 0.
Follows(d, L, p, n) == p \in L \cup {0} /\ n = IF p = 0 THEN FirstFile(d) ELSE NextFile(d[p])

\* The place of the new file.
Place(L) ==
  /\ call.name \in Names
  /\ Follows(disk, L, call.previous, call.next)
  /\ call.previous # 0 => Name(disk[call.previous]) < call.name

NewPlace(L) ==
  /\ call.previous \in L \cup {0} /\ call.next \in L \cup {0}
  /\ call.previous # 0 => Name(disk[call.previous]) < call.name
  /\ call.next # 0 => call.name < Name(disk[call.next])

NewBlock == call.newFile \in FileIds /\ call.newFile = FreeHead(disk)

AtFind(L, own) ==
  /\ Whole(disk, L, own)
  /\ call.op \in {"stat", "open_read", "open_write", "delete"} /\ call.name \in Names
  /\ call.file = 0 /\ call.next \in L \cup {0}
  /\ IF call.op = "delete" THEN Follows(disk, L, call.previous, call.next)
     ELSE call.previous = 0

AtFound(L, own) ==
  /\ Whole(disk, L, own)
  /\ call.op \in {"stat", "open_read", "open_write", "delete", "create"} /\ call.name \in Names
  /\ call.file \in L \cup {0}
  /\ IF call.op = "delete"
     THEN call.file # 0 => Follows(disk, L, call.previous, call.file)
     ELSE call.previous = 0

AtScan(L, own) ==
  /\ Whole(disk, L, own)
  /\ NewBlock /\ Place(L)
  /\ call.newFirst = FirstFile(disk) /\ call.file = 0

AtLink(L, own) ==
  /\ Whole(disk, L, own)
  /\ NewBlock /\ Place(L) /\ NewPlace(L)
  /\ call.newFirst = FirstFile(disk) /\ call.file = 0

\* In the list of the disk the new file follows the previous one, already.
AtFill(L, own) ==
  /\ Layout(own, Link(disk), L, FreeHead(disk))
  /\ NewBlock /\ call.name \in Names /\ NewPlace(L) /\ call.file = 0
  /\ IF call.previous = 0
     THEN /\ Listing(disk, L)
          /\ call.newFirst = call.newFile /\ call.next = FirstFile(disk)
     ELSE /\ Directory(disk, L, FirstFile(disk),
                       [NextOf(disk, L) EXCEPT ![call.previous] = call.next])
          /\ NextFile(disk[call.previous]) = call.newFile
          /\ call.newFirst = FirstFile(disk)

AtPublish(L, own) ==
  /\ Layout(own, Link(disk), L \cup {call.newFile}, call.newFree)
  /\ NewBlock /\ call.newFile \notin L /\ call.file = 0
  /\ disk[call.newFile][0] = HeaderSize(Name(disk[call.newFile]))
  /\ own[call.newFile] = call.newFile /\ Link(disk)[call.newFile] = 0
  /\ call.newFree \in Blocks
  /\ Directory(disk, L \cup {call.newFile}, call.newFirst, NextOf(disk, L \cup {call.newFile}))
  /\ IF call.previous = 0 THEN Listing(disk, L) ELSE call.newFirst = FirstFile(disk)

AtQuery(L, own) == Whole(disk, L, own)

\* The block that is written, and what is in the block buffer.
AtWrite(L, own) ==
  /\ Listing(disk, L)
  /\ call.file \in L /\ writer[call.file] # 0
  /\ Layout(own, Cut(Link(disk), writer[call.file]), L, call.newFree)
  /\ Link(disk)[writer[call.file]] \in {0, call.newFree} /\ call.newFree \in Blocks
  /\ call.oldFree = FreeHead(disk)
  /\ call.oldFree # 0 => own[call.oldFree] \in {0, call.file}
  /\ buffer = disk[writer[call.file]]
  /\ call.used \in 1 .. BlockSize
  /\ writer[call.file] = call.file => HeaderSize(Name(disk[call.file])) <= call.used
  /\ call.bytes \in Seq(Nat)
  /\ writer[call.file] # call.file => call.used + Len(call.bytes) > 1

AtCommit(L, own) ==
  /\ Listing(disk, L) /\ call.file \in L
  /\ Layout(own, Link(disk), L, call.newFree) /\ call.newFree \in Blocks
  /\ call.oldFree = FreeHead(disk)
  /\ call.oldFree # 0 => own[call.oldFree] \in {0, call.file}

\* The file that is cleared or deleted.
Closed(L) == call.file \in L /\ writer[call.file] = 0

AtFree(L, own) ==
  /\ Whole(disk, L, own) /\ Closed(L)
  /\ call.op \in {"open_write", "delete"}
  /\ call.block \in Own(own, call.file) /\ buffer = disk[call.block]
  /\ call.oldFree = FreeHead(disk)
  /\ IF call.op = "delete"
     THEN /\ Follows(disk, L, call.previous, call.file)
          /\ call.next = NextFile(disk[call.file]) /\ call.newFirst = FirstFile(disk)
     ELSE /\ call.newFree = Link(disk)[call.file] /\ call.newFree # 0
          /\ call.block # call.file

AtFreed(L, own) ==
  /\ Listing(disk, L) /\ Closed(L)
  /\ Layout(own, Cut(Link(disk), call.file), L, call.newFree)
  /\ call.newFree \in FileIds /\ Link(disk)[call.file] = call.newFree
  /\ FreeHead(disk) # 0 => own[FreeHead(disk)] = 0

AtClear(L, own) ==
  /\ Listing(disk, L) /\ Closed(L)
  /\ Layout(own, Cut(Link(disk), call.file), L, FreeHead(disk))
  /\ Link(disk)[call.file] \in {0, FreeHead(disk)}

AtUnlink(L, own) ==
  /\ Listing(disk, L) /\ Closed(L)
  /\ Layout(own, Link(disk), L \ {call.file}, call.file)
  /\ FreeHead(disk) # 0 => own[FreeHead(disk)] = 0
  /\ Follows(disk, L, call.previous, call.file)
  /\ call.next = NextFile(disk[call.file]) /\ call.newFirst = FirstFile(disk)

AtDeleted(L, own) ==
  /\ Closed(L)
  /\ Layout(own, Link(disk), L \ {call.file}, call.file)
  /\ FreeHead(disk) # 0 => own[FreeHead(disk)] = 0
  /\ Directory(disk, L \ {call.file}, call.newFirst, NextOf(disk, L \ {call.file}))
  /\ IF call.previous = 0 THEN Listing(disk, L) ELSE call.newFirst = FirstFile(disk)

\* A stream writes at the end of its file.
Writers(L, own) ==
  /\ writer \in [FileIds -> Blocks]
  /\ \A f \in FileIds : writer[f] # 0 =>
       /\ f \in L /\ own[writer[f]] = f
       /\ (pc = "write" /\ f = call.file) \/ Link(disk)[writer[f]] = 0

Steps ==
  {"idle", "done", "find", "found", "size", "read", "scan", "link", "fill",
   "publish", "write", "commit", "free", "freed", "clear", "unlink", "deleted"}

Fields ==
  {"op", "name", "file", "previous", "next", "newFile", "newFirst", "newFree",
   "oldFree", "block", "used", "bytes", "size", "status", "before", "from", "written"}

BlockInvariantOf(L, own) ==
  /\ L \in SUBSET FileIds /\ own \in [FileIds -> Blocks]
  /\ DOMAIN call = Fields
  /\ DiskOK(disk, L) /\ BlockSizes(disk, own) /\ Writers(L, own)
  /\ pc \in Steps
  /\ pc \notin {"idle", "done"} => L = DOMAIN call.before
  /\ pc \in {"idle", "done"} => Whole(disk, L, own)
  /\ pc = "find" => AtFind(L, own)
  /\ pc = "found" => AtFound(L, own)
  /\ pc \in {"size", "read"} => AtQuery(L, own)
  /\ pc = "scan" => AtScan(L, own)
  /\ pc = "link" => AtLink(L, own)
  /\ pc = "fill" => AtFill(L, own)
  /\ pc = "publish" => AtPublish(L, own)
  /\ pc = "write" => AtWrite(L, own)
  /\ pc = "commit" => AtCommit(L, own)
  /\ pc = "free" => AtFree(L, own)
  /\ pc = "freed" => AtFreed(L, own)
  /\ pc = "clear" => AtClear(L, own)
  /\ pc = "unlink" => AtUnlink(L, own)
  /\ pc = "deleted" => AtDeleted(L, own)

BlockInvariant == \E L \in SUBSET FileIds, own \in [FileIds -> Blocks] : BlockInvariantOf(L, own)

-----------------------------------------------------------------------------
(***************************************************************************)
(* Moving blocks from a list to another.                                   *)
(***************************************************************************)
LEMMA BlockSets ==
  /\ NumBlocks \in Nat /\ NumBlocks > 0 /\ BlockSize \in Nat /\ BlockSize > 2
  /\ Blocks = FileIds \cup {0} /\ 0 \notin FileIds /\ FileIds \subseteq Nat /\ SUPER_BLOCK = 0
  /\ Blocks = 0 .. NumBlocks - 1 /\ 0 \in Offsets /\ 1 \in Offsets /\ 2 \in Offsets
  /\ Offsets = 0 .. BlockSize - 1
  BY BlockFSAssumption DEF BlockFSAssumption, Blocks, FileIds, SUPER_BLOCK, Offsets

LEMMA LayoutFacts ==
  ASSUME NEW own, NEW s, NEW L \in SUBSET FileIds, NEW h, Layout(own, s, L, h)
  PROVE  /\ \A f \in L : own[f] = f
         /\ h # 0 => h \in FileIds /\ own[h] = 0 /\ h \notin L
         /\ h = 0 => \A b \in FileIds : own[b] # 0
         /\ \A b \in FileIds : /\ own[b] \in L \cup {0}
                               /\ s[b] # 0 => /\ s[b] \in FileIds /\ own[s[b]] = own[b]
                                              /\ s[b] # b /\ s[b] # own[b] /\ s[b] # h
<1>1. /\ 0 \notin Own(own, 0) /\ Links(s, h, Own(own, 0))
      /\ \A f \in L : 0 \notin Own(own, f) /\ Links(s, f, Own(own, f))
  BY BlockSets DEF Own, Layout
<1>2. \A f \in L : f # 0
  BY BlockSets
<1>3. /\ h = 0 <=> Own(own, 0) = {}
      /\ h # 0 => h \in Own(own, 0)
      /\ \A b \in Own(own, 0) : s[b] \in (Own(own, 0) \cup {0}) \ {h, b}
  BY <1>1, ListHead
<1>4. ASSUME NEW f \in L
      PROVE  /\ f \in Own(own, f)
             /\ \A b \in Own(own, f) : s[b] \in (Own(own, f) \cup {0}) \ {f, b}
  BY <1>1, <1>2, ListHead
<1>5. \A f \in L : own[f] = f
  BY <1>4 DEF Own
<1>6. h # 0 => h \in FileIds /\ own[h] = 0 /\ h \notin L
  BY <1>2, <1>3, <1>5 DEF Own
<1>7. h = 0 => \A b \in FileIds : own[b] # 0
  BY <1>3 DEF Own
<1>8. ASSUME NEW b \in FileIds
      PROVE  /\ own[b] \in L \cup {0}
             /\ s[b] # 0 => /\ s[b] \in FileIds /\ own[s[b]] = own[b]
                            /\ s[b] # b /\ s[b] # own[b] /\ s[b] # h
  <2>1. own[b] \in L \cup {0}
    BY DEF Layout
  <2>2. b \in Own(own, own[b])
    BY DEF Own
  <2>3. CASE own[b] = 0
    BY <1>3, <2>1, <2>2, <2>3, BlockSets DEF Own
  <2>4. CASE own[b] \in L
    <3>1. s[b] # 0 => s[b] \in FileIds /\ own[s[b]] = own[b] /\ s[b] # b /\ s[b] # own[b]
      BY <1>4, <2>2, <2>4 DEF Own
    <3>2. s[b] # 0 /\ s[b] = h => own[s[b]] = 0
      BY <1>6
    <3>3. QED
      BY <1>2, <2>4, <3>1, <3>2
  <2>5. QED
    BY <2>1, <2>3, <2>4
<1>9. QED
  BY <1>5, <1>6, <1>7, <1>8

\* The first free block becomes the only one of a new file.
LEMMA LayoutTake ==
  ASSUME NEW own, NEW s, NEW L \in SUBSET FileIds, NEW h, Layout(own, s, L, h),
         s \in [FileIds -> Blocks], h # 0
  PROVE  Layout([own EXCEPT ![h] = h], [s EXCEPT ![h] = 0], L \cup {h}, s[h])
<1> DEFINE o == [own EXCEPT ![h] = h]
           t == [s EXCEPT ![h] = 0]
<1>1. own \in [FileIds -> L \cup {0}]
  BY DEF Layout
<1>2. h \in FileIds /\ own[h] = 0 /\ h \notin L
  BY LayoutFacts, Zenon
<1>3. o \in [FileIds -> (L \cup {h}) \cup {0}]
      /\ \A b \in FileIds : o[b] = IF b = h THEN h ELSE own[b]
  BY <1>1, <1>2
<1>4. (\A b \in FileIds : b # h => t[b] = s[b]) /\ t[h] = 0
  BY <1>2
<1> HIDE DEF o, t
<1>5. Own(o, 0) = Own(own, 0) \ {h} /\ Own(o, h) = {h}
      /\ \A f \in L : Own(o, f) = Own(own, f)
  <2>1. h # 0 /\ \A b \in FileIds : own[b] # h
    BY <1>1, <1>2
  <2>2. \A f \in L : f # h
    BY <1>2
  <2>3. \A b \in FileIds : /\ o[b] = 0 <=> own[b] = 0 /\ b # h
                           /\ o[b] = h <=> b = h
                           /\ \A f \in L : o[b] = f <=> own[b] = f
    BY <1>2, <1>3, <2>1, <2>2, BlockSets
  <2>4. QED
    BY <1>2, <2>3 DEF Own
<1>6. Links(s, s[h], Own(own, 0) \ {h})
  BY ListTail, BlockSets DEF Layout, Own
<1>7. Links(t, s[h], Own(o, 0))
  <2>1. \A b \in Own(own, 0) \ {h} : t[b] = s[b]
    BY <1>4 DEF Own
  <2>2. Links(t, s[h], Own(own, 0) \ {h})
    BY <1>6, <2>1, ListFrame, Zenon
  <2>3. QED
    BY <1>5, <2>2, Zenon
<1>8. Links(t, h, Own(o, h))
  <2>1. Links(t, h, {h})
    BY <1>4, ListOfOne, Zenon
  <2>2. QED
    BY <1>5, <2>1, Zenon
<1>9. ASSUME NEW f \in L
      PROVE  Links(t, f, Own(o, f))
  <2>1. Links(s, f, Own(own, f))
    BY DEF Layout
  <2>2. \A b \in Own(own, f) : t[b] = s[b]
    BY <1>2, <1>4, BlockSets DEF Own
  <2>3. Links(t, f, Own(own, f))
    BY <2>1, <2>2, ListFrame, Zenon
  <2>4. QED
    BY <1>5, <2>3, Zenon
<1>10. Layout(o, t, L \cup {h}, s[h])
  BY <1>3, <1>7, <1>8, <1>9 DEF Layout
<1>11. QED
  BY <1>10 DEF o, t

\* The first free block is put at the end of a file.
LEMMA LayoutGrow ==
  ASSUME NEW own, NEW s, NEW L \in SUBSET FileIds, NEW h, Layout(own, s, L, h),
         s \in [FileIds -> Blocks], h # 0,
         NEW f \in L, NEW w \in FileIds, own[w] = f, s[w] = 0
  PROVE  Layout([own EXCEPT ![h] = f], [[s EXCEPT ![w] = h] EXCEPT ![h] = 0], L, s[h])
<1> DEFINE o == [own EXCEPT ![h] = f]
           t == [s EXCEPT ![h] = 0]
           u == [t EXCEPT ![w] = h]
           v == [[s EXCEPT ![w] = h] EXCEPT ![h] = 0]
<1>1. own \in [FileIds -> L \cup {0}] /\ f \in FileIds /\ f # 0
  BY BlockSets DEF Layout
<1>2. h \in FileIds /\ own[h] = 0 /\ h \notin L
  BY LayoutFacts, Zenon
<1>3. w # h
  BY <1>1, <1>2
<1>4. /\ o \in [FileIds -> L \cup {0}]
      /\ \A b \in FileIds : o[b] = IF b = h THEN f ELSE own[b]
  BY <1>1, <1>2
<1>5. /\ t \in [FileIds -> Blocks] /\ t[h] = 0 /\ t[w] = 0
      /\ \A b \in FileIds : b # h => t[b] = s[b]
      /\ u \in [FileIds -> Blocks]
      /\ \A b \in FileIds : u[b] = IF b = w THEN h ELSE t[b]
  BY <1>2, <1>3, BlockSets
<1>6. u = v
  <2>1. v \in [FileIds -> Blocks]
    BY <1>2, BlockSets
  <2>2. \A b \in FileIds : v[b] = IF b = h THEN 0 ELSE IF b = w THEN h ELSE s[b]
    OBVIOUS
  <2> HIDE DEF u, t, v
  <2>3. \A b \in FileIds : u[b] = v[b]
    BY <1>3, <1>5, <2>2
  <2>4. QED
    BY <1>5, <2>1, <2>3
<1>7. u = [t EXCEPT ![w] = h]
  OBVIOUS
<1> HIDE DEF o, t, u
<1>8. Own(o, 0) = Own(own, 0) \ {h} /\ Own(o, f) = Own(own, f) \cup {h}
      /\ \A g \in L \ {f} : Own(o, g) = Own(own, g)
  <2>1. \A b \in FileIds : /\ o[b] = 0 <=> own[b] = 0 /\ b # h
                           /\ o[b] = f <=> own[b] = f \/ b = h
                           /\ \A g \in L \ {f} : o[b] = g <=> own[b] = g
    BY <1>1, <1>2, <1>4, BlockSets
  <2>2. QED
    BY <1>2, <2>1 DEF Own
<1>9. Links(s, s[h], Own(own, 0) \ {h}) /\ Links(s, f, Own(own, f))
  BY ListTail, BlockSets DEF Layout, Own
<1>10. Links(u, s[h], Own(o, 0))
  <2>1. \A b \in Own(own, 0) \ {h} : u[b] = s[b]
    BY <1>1, <1>5 DEF Own
  <2>2. Links(u, s[h], Own(own, 0) \ {h})
    BY <1>9, <2>1, ListFrame, Zenon
  <2>3. QED
    BY <1>8, <2>2, Zenon
<1>11. Links(u, f, Own(o, f))
  <2>1. \A b \in Own(own, f) : t[b] = s[b]
    BY <1>1, <1>2, <1>5 DEF Own
  <2>2. Links(t, f, Own(own, f))
    BY <1>9, <2>1, ListFrame, Zenon
  <2>3. Links(t, h, {h})
    BY <1>5, ListOfOne, Zenon
  <2>4. w \in Own(own, f) /\ Own(own, f) \cup {h} \subseteq DOMAIN t
        /\ 0 \notin Own(own, f) \cup {h} /\ Own(own, f) \cap {h} = {}
    BY <1>1, <1>2, <1>5, BlockSets DEF Own
  <2>5. Links([t EXCEPT ![w] = h], f, Own(own, f) \cup {h})
    BY <1>5, <2>2, <2>3, <2>4, ListJoin, Zenon
  <2>6. QED
    BY <1>7, <1>8, <2>5, Zenon
<1>12. ASSUME NEW g \in L \ {f}
      PROVE  Links(u, g, Own(o, g))
  <2>1. Links(s, g, Own(own, g))
    BY DEF Layout
  <2>2. \A b \in Own(own, g) : u[b] = s[b]
    BY <1>1, <1>2, <1>5, BlockSets DEF Own
  <2>3. Links(u, g, Own(own, g))
    BY <2>1, <2>2, ListFrame, Zenon
  <2>4. QED
    BY <1>8, <2>3, Zenon
<1>13. Layout(o, u, L, s[h])
  BY <1>4, <1>10, <1>11, <1>12 DEF Layout
<1>14. Layout(o, v, L, s[h])
  BY <1>6, <1>13, Zenon
<1>15. QED
  BY <1>14 DEF o, v

\* The blocks of a file are put before the free ones.
LEMMA LayoutDelete ==
  ASSUME NEW own, NEW s, NEW L \in SUBSET FileIds, NEW h, Layout(own, s, L, h),
         s \in [FileIds -> Blocks],
         NEW f \in L, NEW z \in FileIds, own[z] = f, s[z] = 0
  PROVE  Layout([b \in FileIds |-> IF own[b] = f THEN 0 ELSE own[b]],
                [s EXCEPT ![z] = h], L \ {f}, f)
<1> DEFINE o == [b \in FileIds |-> IF own[b] = f THEN 0 ELSE own[b]]
           t == [s EXCEPT ![z] = h]
<1>1. own \in [FileIds -> L \cup {0}] /\ f # 0
  BY BlockSets DEF Layout
<1>2. o \in [FileIds -> (L \ {f}) \cup {0}]
  BY <1>1
<1>3. Own(o, 0) = Own(own, f) \cup Own(own, 0)
      /\ \A g \in L \ {f} : Own(o, g) = Own(own, g)
  BY <1>1, BlockSets DEF Own
<1>4. Links(t, f, Own(o, 0))
  <2>1. Links(s, f, Own(own, f)) /\ Links(s, h, Own(own, 0))
    BY DEF Layout
  <2>2. z \in Own(own, f) /\ DOMAIN s = FileIds /\ Own(own, f) \cup Own(own, 0) \subseteq FileIds
        /\ 0 \notin Own(own, f) \cup Own(own, 0) /\ Own(own, f) \cap Own(own, 0) = {}
    BY <1>1, BlockSets DEF Own
  <2>3. Links(t, f, Own(own, f) \cup Own(own, 0))
    BY <2>1, <2>2, ListJoin
  <2> HIDE DEF o, t
  <2>4. QED
    BY <1>3, <2>3, Zenon
<1>5. ASSUME NEW g \in L \ {f}
      PROVE  Links(t, g, Own(o, g))
  <2>1. Links(s, g, Own(own, g))
    BY DEF Layout
  <2>2. \A b \in Own(own, g) : t[b] = s[b]
    BY DEF Own
  <2>3. QED
    BY <1>3, <2>1, <2>2, ListFrame
<1> HIDE DEF o, t
<1>6. QED
  BY <1>2, <1>4, <1>5 DEF Layout, o, t

\* The blocks of a file, but the first one, are put before the free ones.
LEMMA LayoutClear ==
  ASSUME NEW own, NEW s, NEW L \in SUBSET FileIds, NEW h, Layout(own, s, L, h),
         s \in [FileIds -> Blocks],
         NEW f \in L, NEW z \in FileIds, own[z] = f, s[z] = 0, z # f
  PROVE  Layout([b \in FileIds |-> IF own[b] = f /\ b # f THEN 0 ELSE own[b]],
                [[s EXCEPT ![z] = h] EXCEPT ![f] = 0], L, s[f])
<1> DEFINE o == [b \in FileIds |-> IF own[b] = f /\ b # f THEN 0 ELSE own[b]]
           t == [s EXCEPT ![z] = h]
           u == [[s EXCEPT ![z] = h] EXCEPT ![f] = 0]
           S == Own(own, f) \ {f}
<1>1. own \in [FileIds -> L \cup {0}] /\ f # 0 /\ own[f] = f /\ f \in FileIds
  BY LayoutFacts, BlockSets DEF Layout
<1>2. o \in [FileIds -> L \cup {0}]
  BY <1>1
<1>3. Own(o, 0) = S \cup Own(own, 0) /\ Own(o, f) = {f}
      /\ \A g \in L \ {f} : Own(o, g) = Own(own, g)
  BY <1>1, BlockSets DEF Own
<1>4. /\ u[f] = 0
      /\ \A b \in FileIds : b # f => u[b] = t[b]
      /\ \A b \in FileIds : b # f /\ b # z => u[b] = s[b]
  BY <1>1
<1>5. Links(u, s[f], Own(o, 0))
  <2>1. Links(s, s[f], S) /\ Links(s, h, Own(own, 0))
    BY <1>1, ListTail, BlockSets DEF Layout, Own
  <2>2. z \in S /\ DOMAIN s = FileIds /\ S \cup Own(own, 0) \subseteq FileIds
        /\ 0 \notin S \cup Own(own, 0) /\ S \cap Own(own, 0) = {}
    BY <1>1, BlockSets DEF Own
  <2> HIDE DEF S
  <2>3. Links(t, s[f], S \cup Own(own, 0))
    BY <2>1, <2>2, ListJoin
  <2>4. \A b \in S \cup Own(own, 0) : u[b] = t[b]
    BY <1>1, <1>4 DEF Own, S
  <2> HIDE DEF o, t, u
  <2>5. Links(u, s[f], S \cup Own(own, 0))
    BY <2>3, <2>4, ListFrame, Zenon
  <2>6. QED
    BY <1>3, <2>5, Zenon DEF S
<1>6. Links(u, f, Own(o, f))
  <2> HIDE DEF o, t, u
  <2>1. Links(u, f, {f})
    BY <1>4, ListOfOne, Zenon
  <2>2. QED
    BY <1>3, <2>1, Zenon
<1>7. ASSUME NEW g \in L \ {f}
      PROVE  Links(u, g, Own(o, g))
  <2>1. Links(s, g, Own(own, g))
    BY DEF Layout
  <2>2. \A b \in Own(own, g) : u[b] = s[b]
    BY <1>1, <1>4 DEF Own
  <2>3. QED
    BY <1>3, <2>1, <2>2, ListFrame
<1> HIDE DEF o, t, u
<1>8. QED
  BY <1>2, <1>5, <1>6, <1>7 DEF Layout, o, u

-----------------------------------------------------------------------------
(***************************************************************************)
(* A file is put in the list of files, or removed from it.                 *)
(***************************************************************************)
\* s and t are two lists, from a and b.  In t, f is put after p, or is the
\* first if p is 0, and x follows it.
Inserted(s, a, S, p, f, x, t, b) ==
  /\ p \in S \cup {0} /\ f \notin S /\ t[f] = x
  /\ p = 0 => x = a /\ b = f
  /\ p # 0 => x = s[p] /\ b = a /\ t[p] = f
  /\ \A c \in S \ {p} : t[c] = s[c]

\* In t, f, that follows p in s, or is the first, is no longer there.
Removed(s, a, S, p, f, t, b) ==
  /\ p \in S \cup {0} /\ f \in S
  /\ p = 0 => f = a /\ b = s[f]
  /\ p # 0 => f = s[p] /\ b = a /\ t[p] = s[f]
  /\ \A c \in S \ {p, f} : t[c] = s[c]

LEMMA SortedInsert ==
  ASSUME NEW s, NEW a, NEW S, NEW r \in [S -> Int], Sorted(s, a, S, r), 0 \notin S,
         NEW p, NEW f, NEW x, NEW t, NEW first, Inserted(s, a, S, p, f, x, t, first),
         NEW q \in [S \cup {f} -> Int], \A b \in S : q[b] = r[b],
         p # 0 => r[p] < q[f], x # 0 => q[f] < r[x]
  PROVE  Sorted(t, first, S \cup {f}, q)
<1>0. /\ p \in S \cup {0} /\ f \notin S /\ t[f] = x
      /\ p = 0 => x = a /\ first = f
      /\ p # 0 => x = s[p] /\ first = a /\ t[p] = f
      /\ \A b \in S \ {p} : t[b] = s[b]
  BY DEF Inserted
<1> USE <1>0
<1> DEFINE U == {c \in S : q[c] > q[f]}
           T == S \cup {f}
<1>1. /\ FirstOf(S, r, a)
      /\ \A b \in S : FirstOf(Beyond(S, r, b), r, s[b])
      /\ \A b, c \in S : r[b] = r[c] => b = c
  BY DEF Sorted
<1>2. FirstOf(U, q, x) /\ (\A c \in S : c \notin U => q[c] < q[f])
      /\ (p = 0 => U = S) /\ (p # 0 => U = Beyond(S, r, p))
  <2>1. CASE p = 0
    <3>1. x = a
      BY <2>1
    <3>2. CASE S = {}
      BY <1>1, <2>1, <3>1, <3>2 DEF FirstOf
    <3>3. CASE S # {}
      <4>1. a \in S /\ \A c \in S : r[a] <= r[c]
        BY <1>1, <3>3 DEF FirstOf
      <4>2. q[f] < r[a]
        BY <3>1, <4>1
      <4>3. \A c \in S : q[c] > q[f]
        BY <4>1, <4>2
      <4>4. QED
        BY <2>1, <3>1, <4>1, <4>3 DEF FirstOf
    <3>4. QED
      BY <3>2, <3>3
  <2>2. CASE p # 0
    <3>1. x = s[p] /\ p \in S /\ FirstOf(Beyond(S, r, p), r, x) /\ r[p] < q[f]
      BY <1>1, <2>2
    <3>2. ASSUME NEW c \in S, r[c] > r[p]
          PROVE  q[c] > q[f]
      <4>1. c \in Beyond(S, r, p)
        BY <3>2 DEF Beyond
      <4>2. x \in S /\ r[x] <= r[c] /\ x # 0
        BY <3>1, <4>1 DEF FirstOf, Beyond
      <4>3. q[f] < r[x] /\ q[c] = r[c]
        BY <4>2
      <4>4. QED
        BY <4>2, <4>3
    <3>3. \A c \in S : ~ (r[c] > r[p]) => q[c] < q[f]
      BY <3>1
    <3>4. U = Beyond(S, r, p)
      BY <3>2, <3>3 DEF Beyond
    <3>5. \A c \in S : c \notin U => q[c] < q[f]
      BY <3>3, <3>4 DEF Beyond
    <3>6. FirstOf(U, q, x)
      <4>1. FirstOf(U, r, x) /\ U \subseteq S
        BY <3>1, <3>4
      <4> HIDE DEF U
      <4>2. QED
        BY <4>1 DEF FirstOf
    <3>7. QED
      BY <2>2, <3>4, <3>5, <3>6
  <2>3. QED
    BY <2>1, <2>2
<1>3. \A c \in S : (c \in U <=> q[c] > q[f]) /\ q[c] # q[f] /\ q[c] \in Int /\ q[c] = r[c]
  BY <1>2
<1>4. q[f] \in Int /\ U \subseteq S
  OBVIOUS
<1> HIDE DEF U
<1>5. Beyond(T, q, f) = U
  BY <1>3, <1>4 DEF Beyond
<1>6. ASSUME NEW b \in S, b \notin U
      PROVE  /\ p # 0 /\ p \in S /\ Beyond(T, q, b) = Beyond(S, r, b) \cup {f}
             /\ b # p => p \in Beyond(S, r, b)
  <2>1. p # 0 /\ p \in S
    BY <1>2, <1>6
  <2>2. q[b] < q[f]
    BY <1>2, <1>6
  <2>3. Beyond(T, q, b) = Beyond(S, r, b) \cup {f}
    BY <1>3, <2>2 DEF Beyond
  <2>4. b # p => p \in Beyond(S, r, b)
    <3>1. ~ (r[b] > r[p])
      BY <1>2, <1>6, <2>1 DEF Beyond
    <3>2. QED
      BY <1>1, <2>1, <3>1 DEF Beyond
  <2>5. QED
    BY <2>1, <2>3, <2>4
<1>7. ASSUME NEW b \in T
      PROVE  FirstOf(Beyond(T, q, b), q, t[b])
  <2>1. CASE b = f
    BY <1>2, <1>5, <2>1
  <2>2. CASE b \in U
    <3>1. b \in S /\ b # p
      BY <1>2, <1>4, <2>2 DEF Beyond
    <3>2. Beyond(T, q, b) = Beyond(S, r, b)
      BY <1>3, <1>4, <2>2, <3>1 DEF Beyond
    <3>3. FirstOf(Beyond(S, r, b), r, s[b]) /\ t[b] = s[b] /\ Beyond(S, r, b) \subseteq S
      BY <1>1, <3>1 DEF Beyond
    <3>4. QED
      BY <1>3, <3>2, <3>3 DEF FirstOf
  <2>3. CASE b \in S /\ b \notin U /\ b = p
    <3>1. Beyond(T, q, b) = U \cup {f} /\ t[b] = f
      BY <1>2, <1>6, <2>3
    <3>2. \A c \in U : q[f] <= q[c]
      BY <1>3, <1>4
    <3>3. QED
      BY <1>4, <3>1, <3>2 DEF FirstOf
  <2>4. CASE b \in S /\ b \notin U /\ b # p
    <3>1. Beyond(T, q, b) = Beyond(S, r, b) \cup {f} /\ p \in Beyond(S, r, b) /\ p \in S /\ p # 0
      BY <1>6, <2>4
    <3>2. t[b] = s[b] /\ FirstOf(Beyond(S, r, b), r, s[b])
      BY <1>1, <2>4
    <3>3. s[b] \in Beyond(S, r, b) /\ \A c \in Beyond(S, r, b) : r[s[b]] <= r[c]
      BY <3>1, <3>2 DEF FirstOf
    <3>4. Beyond(S, r, b) \subseteq S
      BY DEF Beyond
    <3>5. r[s[b]] <= r[p] /\ r[p] < q[f] /\ r[p] \in Int /\ r[s[b]] \in Int
      BY <3>1, <3>3, <3>4
    <3>6. q[s[b]] <= q[f]
      BY <1>3, <1>4, <3>3, <3>4, <3>5
    <3>7. \A c \in Beyond(S, r, b) : q[s[b]] <= q[c]
      BY <1>3, <3>3, <3>4
    <3>8. QED
      BY <3>1, <3>2, <3>3, <3>6, <3>7 DEF FirstOf
  <2>5. QED
    BY <2>1, <2>2, <2>3, <2>4
<1>8. FirstOf(T, q, first)
  <2>1. CASE p = 0
    <3>1. first = f /\ U = S
      BY <1>2, <2>1
    <3>2. \A c \in T : q[f] <= q[c]
      BY <1>3, <1>4, <3>1
    <3>3. QED
      BY <3>1, <3>2 DEF FirstOf
  <2>2. CASE p # 0
    <3>1. first = a /\ p \in S /\ r[p] < q[f]
      BY <2>2
    <3>2. a \in S /\ \A c \in S : r[a] <= r[c]
      BY <1>1, <3>1 DEF FirstOf
    <3>3. r[a] <= r[p] /\ r[a] \in Int /\ r[p] \in Int
      BY <3>1, <3>2
    <3>4. \A c \in T : q[a] <= q[c]
      BY <1>3, <1>4, <3>1, <3>2, <3>3
    <3>5. QED
      BY <3>1, <3>2, <3>4 DEF FirstOf
  <2>3. QED
    BY <2>1, <2>2
<1>9. \A b, c \in T : q[b] = q[c] => b = c
  BY <1>1, <1>3
<1>10. QED
  BY <1>7, <1>8, <1>9 DEF Sorted

LEMMA SortedRemove ==
  ASSUME NEW s, NEW a, NEW S, NEW r \in [S -> Int], Sorted(s, a, S, r), 0 \notin S,
         NEW p, NEW f, NEW t, NEW first, Removed(s, a, S, p, f, t, first),
         NEW q, \A b \in S \ {f} : q[b] = r[b]
  PROVE  Sorted(t, first, S \ {f}, q)
<1>0. /\ p \in S \cup {0} /\ f \in S
      /\ p = 0 => f = a /\ first = s[f]
      /\ p # 0 => f = s[p] /\ first = a /\ t[p] = s[f]
      /\ \A b \in S \ {p, f} : t[b] = s[b]
  BY DEF Removed
<1> USE <1>0
<1> DEFINE T == S \ {f}
<1>1. /\ FirstOf(S, r, a)
      /\ \A b \in S : FirstOf(Beyond(S, r, b), r, s[b])
      /\ \A b, c \in S : r[b] = r[c] => b = c
      /\ \A b \in S : r[b] \in Int
  BY DEF Sorted
<1>2. \A b, c \in T : q[b] = q[c] => b = c
  BY <1>1
<1>3. CASE p = 0
  <2>1. f = a /\ first = s[a] /\ \A c \in S : r[a] <= r[c]
    BY <1>1, <1>3 DEF FirstOf
  <2>2. Beyond(S, r, a) = T
    BY <1>1, <2>1 DEF Beyond
  <2>3. FirstOf(T, r, first)
    BY <1>1, <2>1, <2>2
  <2>4. FirstOf(T, q, first)
    BY <2>3 DEF FirstOf
  <2>5. ASSUME NEW b \in T
        PROVE  FirstOf(Beyond(T, q, b), q, t[b])
    <3>1. a \notin Beyond(S, r, b)
      BY <1>1, <2>1 DEF Beyond
    <3>2. Beyond(T, q, b) = Beyond(S, r, b) /\ Beyond(S, r, b) \subseteq T
      BY <2>1, <3>1 DEF Beyond
    <3>3. t[b] = s[b] /\ FirstOf(Beyond(S, r, b), r, s[b])
      BY <1>1, <1>3
    <3>4. QED
      BY <3>2, <3>3 DEF FirstOf
  <2>6. QED
    BY <1>2, <2>4, <2>5 DEF Sorted
<1>4. CASE p # 0
  <2>1. f = s[p] /\ first = a /\ p \in S /\ t[p] = s[f]
    BY <1>4
  <2>2. f \in Beyond(S, r, p) /\ \A c \in Beyond(S, r, p) : r[f] <= r[c]
    <3>1. FirstOf(Beyond(S, r, p), r, f) /\ f # 0
      BY <1>1, <2>1
    <3>2. QED
      BY <3>1 DEF FirstOf
  <2>3. r[p] < r[f] /\ p # f /\ \A c \in S : r[c] > r[p] => r[f] <= r[c]
    BY <1>1, <2>1, <2>2 DEF Beyond
  <2>4. FirstOf(T, q, a)
    <3>1. a \in S /\ \A c \in S : r[a] <= r[c]
      BY <1>1 DEF FirstOf
    <3>2. r[a] <= r[p]
      BY <2>1, <3>1
    <3>3. a # f
      BY <1>1, <2>1, <2>3, <3>1, <3>2
    <3>4. QED
      BY <3>1, <3>3 DEF FirstOf
  <2>5. ASSUME NEW b \in T
        PROVE  FirstOf(Beyond(T, q, b), q, t[b])
    <3>1. CASE b = p
      <4>1. Beyond(T, q, b) = Beyond(S, r, f)
        <5>1. ASSUME NEW c \in T PROVE q[c] > q[p] <=> r[c] > r[f]
          <6>1. q[c] = r[c] /\ q[p] = r[p] /\ r[c] # r[f]
            BY <1>1, <2>1, <2>3
          <6>2. QED
            BY <1>1, <2>1, <2>3, <6>1
        <5>2. f \notin Beyond(S, r, f)
          BY <1>1 DEF Beyond
        <5>3. QED
          BY <3>1, <5>1, <5>2 DEF Beyond
      <4>2. FirstOf(Beyond(S, r, f), r, s[f]) /\ t[b] = s[f]
        BY <1>1, <2>1, <3>1
      <4>3. Beyond(S, r, f) \subseteq T
        BY <1>1 DEF Beyond
      <4>4. QED
        BY <4>1, <4>2, <4>3 DEF FirstOf
    <3>2. CASE b # p /\ r[b] > r[f]
      <4>1. Beyond(T, q, b) = Beyond(S, r, b) /\ Beyond(S, r, b) \subseteq T
        BY <1>1, <3>2 DEF Beyond
      <4>2. t[b] = s[b] /\ FirstOf(Beyond(S, r, b), r, s[b])
        BY <1>1, <3>2
      <4>3. QED
        BY <4>1, <4>2 DEF FirstOf
    <3>3. CASE b # p /\ ~ (r[b] > r[f])
      <4>1. r[b] < r[p]
        <5>1. r[b] # r[f] /\ r[b] # r[p]
          BY <1>1, <2>1, <3>3
        <5>2. QED
          BY <1>1, <2>1, <2>3, <3>3, <5>1
      <4>2. p \in Beyond(S, r, b) /\ t[b] = s[b] /\ FirstOf(Beyond(S, r, b), r, s[b])
        BY <1>1, <2>1, <3>3, <4>1 DEF Beyond
      <4>3. s[b] \in Beyond(S, r, b) /\ \A c \in Beyond(S, r, b) : r[s[b]] <= r[c]
        BY <4>2 DEF FirstOf
      <4>4. s[b] \in S /\ r[s[b]] <= r[p]
        BY <4>2, <4>3 DEF Beyond
      <4>5. s[b] # f
        BY <1>1, <2>1, <2>3, <4>4
      <4>6. Beyond(T, q, b) = Beyond(S, r, b) \ {f}
        BY DEF Beyond
      <4>7. Beyond(S, r, b) \subseteq S
        BY DEF Beyond
      <4>8. QED
        BY <4>2, <4>3, <4>4, <4>5, <4>6, <4>7 DEF FirstOf
    <3>4. QED
      BY <3>1, <3>2, <3>3
  <2>6. QED
    BY <1>2, <2>1, <2>4, <2>5 DEF Sorted
<1>5. QED
  BY <1>3, <1>4

\* The list of files only depends on the names and on what follows each file.
LEMMA DirectoryFrame ==
  ASSUME NEW d, NEW e, NEW L, NEW first, NEW nf, NEW ng, Directory(d, L, first, nf),
         \A f \in L : Name(e[f]) = Name(d[f]) /\ ng[f] = nf[f]
  PROVE  Directory(e, L, first, ng)
<1>1. NameOf(e, L) = NameOf(d, L)
  BY DEF NameOf
<1>2. Sorted(ng, first, L, NameOf(d, L))
  BY DEF Directory, Sorted
<1>3. QED
  BY <1>1, <1>2, Zenon DEF Directory

LEMMA WiderFunction ==
  ASSUME NEW S, NEW M, NEW N, M \subseteq N, NEW q \in [S -> M]
  PROVE  q \in [S -> N]
<1>1. \A x \in S : q[x] \in M
  OBVIOUS
<1>2. \A x \in S : q[x] \in N
  BY <1>1
<1>3. QED
  BY <1>2

LEMMA NamesOfFiles ==
  ASSUME NEW d, NEW L \in SUBSET FileIds, NEW first, NEW nf, Directory(d, L, first, nf)
  PROVE  /\ NameOf(d, L) \in [L -> Names] /\ NameOf(d, L) \in [L -> Int]
         /\ Sorted(nf, first, L, NameOf(d, L))
         /\ 0 \notin L
         /\ Names \subseteq Nat
<1>1. NameOf(d, L) \in [L -> Names] /\ Sorted(nf, first, L, NameOf(d, L))
  BY Zenon DEF Directory
<1>2. 0 \notin L /\ Names \subseteq Nat
  BY BlockSets, BlockFSAssumption DEF BlockFSAssumption
<1>3. Names \subseteq Int
  BY <1>2
<1>4. NameOf(d, L) \in [L -> Int]
  BY <1>1, <1>3, WiderFunction, Zenon
<1>5. QED
  BY <1>1, <1>2, <1>4

LEMMA NameOfFile ==
  ASSUME NEW d, NEW L
  PROVE  \A f \in L : NameOf(d, L)[f] = Name(d[f])
BY Zenon DEF NameOf

LEMMA DirectoryFacts ==
  ASSUME NEW d, NEW L \in SUBSET FileIds, NEW first, NEW nf, Directory(d, L, first, nf)
  PROVE  /\ \A f \in L : Name(d[f]) \in Names /\ Name(d[f]) \in Nat
         /\ \A f, g \in L : Name(d[f]) = Name(d[g]) => f = g
         /\ first \in L \cup {0}
         /\ \A f \in L : nf[f] \in L \cup {0} /\ (nf[f] # 0 => Name(d[f]) < Name(d[nf[f]]))
<1>1. PICK r : r = NameOf(d, L)
  OBVIOUS
<1>2. r \in [L -> Names] /\ Sorted(nf, first, L, r) /\ 0 \notin L /\ Names \subseteq Nat
  BY <1>1, NamesOfFiles, Zenon
<1>3. \A f \in L : r[f] = Name(d[f])
  BY <1>1, NameOfFile, Zenon
<1>4. \A f \in L : r[f] \in Names /\ r[f] \in Nat
  BY <1>2
<1>5. FirstOf(L, r, first) /\ (\A f \in L : FirstOf(Beyond(L, r, f), r, nf[f]))
      /\ \A f, g \in L : r[f] = r[g] => f = g
  BY <1>2, Zenon DEF Sorted
<1>6. \A f \in L : nf[f] \in L \cup {0} /\ (nf[f] # 0 => r[f] < r[nf[f]])
  BY <1>2, <1>4, <1>5 DEF FirstOf, Beyond
<1>7. \A f \in L : nf[f] # 0 => Name(d[f]) < Name(d[nf[f]])
  <2> TAKE f \in L
  <2> HAVE nf[f] # 0
  <2>1. nf[f] \in L /\ r[f] < r[nf[f]]
    BY <1>6
  <2>2. r[f] = Name(d[f]) /\ r[nf[f]] = Name(d[nf[f]])
    BY <1>3, <2>1, Zenon
  <2>3. QED
    BY <2>1, <2>2
<1>8. \A f, g \in L : Name(d[f]) = Name(d[g]) => f = g
  BY <1>3, <1>5, Zenon
<1>9. \A f \in L : Name(d[f]) \in Names /\ Name(d[f]) \in Nat
  BY <1>3, <1>4
<1>10. first \in L \cup {0}
  BY <1>5 DEF FirstOf
<1>11. QED
  BY <1>6, <1>7, <1>8, <1>9, <1>10

LEMMA DirectoryInsert ==
  ASSUME NEW d, NEW e, NEW L \in SUBSET FileIds, NEW first, NEW nf, NEW ng,
         Directory(d, L, first, nf),
         NEW p, NEW f, NEW x, NEW head, Inserted(nf, first, L, p, f, x, ng, head),
         Name(e[f]) \in Names, \A g \in L : Name(e[g]) = Name(d[g]),
         p # 0 => Name(d[p]) < Name(e[f]), x # 0 => Name(e[f]) < Name(d[x])
  PROVE  Directory(e, L \cup {f}, head, ng)
<1>1. PICK r : r \in [L -> Names] /\ r \in [L -> Int] /\ Sorted(nf, first, L, r)
                /\ 0 \notin L /\ Names \subseteq Nat /\ \A g \in L : r[g] = Name(d[g])
  <2>1. \A g \in L : NameOf(d, L)[g] = Name(d[g])
    BY NameOfFile, Zenon
  <2>2. NameOf(d, L) \in [L -> Names] /\ NameOf(d, L) \in [L -> Int]
        /\ Sorted(nf, first, L, NameOf(d, L)) /\ 0 \notin L /\ Names \subseteq Nat
    BY NamesOfFiles, Zenon
  <2>3. QED
    BY <2>1, <2>2, Zenon
<1>2. PICK q : q = NameOf(e, L \cup {f}) /\ \A g \in L \cup {f} : q[g] = Name(e[g])
  <2>1. \A g \in L \cup {f} : NameOf(e, L \cup {f})[g] = Name(e[g])
    BY NameOfFile, Zenon
  <2>2. QED
    BY <2>1, Zenon
<1>3. p \in L \cup {0} /\ f \notin L /\ (p = 0 => x = first) /\ (p # 0 => x = nf[p])
  BY DEF Inserted
<1>4. first \in L \cup {0} /\ \A g \in L : nf[g] \in L \cup {0}
  BY DirectoryFacts, Zenon
<1>5. x \in L \cup {0}
  BY <1>3, <1>4
<1>6. \A g \in L : q[g] = r[g]
  BY <1>1, <1>2
<1>7. q \in [L \cup {f} -> Names]
  <2>1. \A g \in L \cup {f} : Name(e[g]) \in Names
    BY <1>1
  <2>2. QED
    BY <1>2, <2>1, Zenon DEF NameOf
<1>8. q \in [L \cup {f} -> Int]
  <2>1. Names \subseteq Int
    BY <1>1
  <2>2. QED
    BY <1>7, <2>1, WiderFunction, Zenon
<1>9. p # 0 => r[p] < q[f]
  BY <1>1, <1>2, <1>3
<1>10. x # 0 => q[f] < r[x]
  BY <1>1, <1>2, <1>5
<1>11. Sorted(ng, head, L \cup {f}, q)
  BY <1>1, <1>6, <1>8, <1>9, <1>10, SortedInsert
<1>12. QED
  BY <1>2, <1>7, <1>11, Zenon DEF Directory

LEMMA DirectoryRemove ==
  ASSUME NEW d, NEW e, NEW L \in SUBSET FileIds, NEW first, NEW nf, NEW ng,
         Directory(d, L, first, nf),
         NEW p, NEW f, NEW head, Removed(nf, first, L, p, f, ng, head),
         \A g \in L \ {f} : Name(e[g]) = Name(d[g])
  PROVE  Directory(e, L \ {f}, head, ng)
<1>1. PICK r : r \in [L -> Names] /\ r \in [L -> Int] /\ Sorted(nf, first, L, r)
                /\ 0 \notin L /\ \A g \in L : r[g] = Name(d[g])
  <2>1. \A g \in L : NameOf(d, L)[g] = Name(d[g])
    BY NameOfFile, Zenon
  <2>2. NameOf(d, L) \in [L -> Names] /\ NameOf(d, L) \in [L -> Int]
        /\ Sorted(nf, first, L, NameOf(d, L)) /\ 0 \notin L
    BY NamesOfFiles, Zenon
  <2>3. QED
    BY <2>1, <2>2, Zenon
<1>2. PICK q : q = NameOf(e, L \ {f}) /\ \A g \in L \ {f} : q[g] = Name(e[g])
  <2>1. \A g \in L \ {f} : NameOf(e, L \ {f})[g] = Name(e[g])
    BY NameOfFile, Zenon
  <2>2. QED
    BY <2>1, Zenon
<1>3. \A g \in L \ {f} : q[g] = r[g]
  BY <1>1, <1>2
<1>4. q \in [L \ {f} -> Names]
  <2>1. \A g \in L \ {f} : Name(e[g]) \in Names
    BY <1>1
  <2>2. QED
    BY <1>2, <2>1, Zenon DEF NameOf
<1>5. Sorted(ng, head, L \ {f}, q)
  BY <1>1, <1>3, SortedRemove, Zenon
<1>6. QED
  BY <1>2, <1>4, <1>5, Zenon DEF Directory

-----------------------------------------------------------------------------
(***************************************************************************)
(* Walking along a list.                                                   *)
(***************************************************************************)
\* g goes from a along s; it stays at 0 after the end.
IsWalk(g, a, s) ==
  /\ g \in [0 .. NumBlocks -> Blocks]
  /\ g[0] = a
  /\ \A k \in 1 .. NumBlocks : g[k] = IF g[k - 1] = 0 THEN 0 ELSE s[g[k - 1]]

LEMMA WalkExists ==
  ASSUME NEW s \in [FileIds -> Blocks], NEW a \in Blocks
  PROVE  \E g : IsWalk(g, a, s)
<1> DEFINE t == [b \in Blocks |-> IF b = 0 THEN 0 ELSE s[b]]
<1>1. t \in [Blocks -> Blocks] /\ NumBlocks \in Nat
  BY BlockSets
<1>2. \A b \in Blocks : t[b] = IF b = 0 THEN 0 ELSE s[b]
  OBVIOUS
<1> HIDE DEF t
<1>3. PICK g : /\ g \in [0 .. NumBlocks -> Blocks]
               /\ g[0] = a /\ \A k \in 1 .. NumBlocks : g[k] = t[g[k - 1]]
  <2>1. \E g : Iterated(g, NumBlocks, Blocks, a, t)
    BY <1>1, Iterates, Zenon
  <2>2. QED
    BY <2>1 DEF Iterated
<1>4. ASSUME NEW k \in 1 .. NumBlocks
      PROVE  g[k] = IF g[k - 1] = 0 THEN 0 ELSE s[g[k - 1]]
  <2>1. k - 1 \in 0 .. NumBlocks
    BY <1>1
  <2>2. g[k - 1] \in Blocks /\ g[k] = t[g[k - 1]]
    BY <1>3, <2>1
  <2>3. QED
    BY <1>2, <2>2
<1>5. IsWalk(g, a, s)
  BY <1>3, <1>4 DEF IsWalk
<1>6. QED
  BY <1>5

ValidNext(d) == [b \in FileIds |-> Valid(block_get_next(d[b]))]
ValidFile(d) == [b \in FileIds |-> Valid(NextFile(d[b]))]

LEMMA ValidBlock ==
  ASSUME NEW x
  PROVE  Valid(x) \in Blocks
  BY BlockSets DEF Valid

LEMMA ChainIsWalk ==
  ASSUME NEW d, NEW first
  PROVE  IsWalk(Chain(d, first), Valid(first), ValidNext(d))
<1> DEFINE P(w) == w = [k \in 0 .. NumBlocks |->
                         IF k = 0 THEN Valid(first)
                         ELSE IF w[k - 1] = 0 THEN 0
                         ELSE Valid(block_get_next(d[w[k - 1]]))]
           walk == CHOOSE w : P(w)
<1>1. ValidNext(d) \in [FileIds -> Blocks] /\ Valid(first) \in Blocks
  BY ValidBlock DEF ValidNext
<1>2. PICK g : IsWalk(g, Valid(first), ValidNext(d))
  BY <1>1, WalkExists, Zenon
<1>3. \A k \in 1 .. NumBlocks : g[k - 1] # 0 => ValidNext(d)[g[k - 1]] = Valid(block_get_next(d[g[k - 1]]))
  <2> TAKE k \in 1 .. NumBlocks
  <2>1. k - 1 \in 0 .. NumBlocks
    BY BlockSets
  <2>2. g[k - 1] \in FileIds \cup {0}
    BY <1>2, <2>1, BlockSets DEF IsWalk
  <2>3. QED
    BY <2>2 DEF ValidNext
<1>4. P(g)
  <2>1. \A k \in 0 .. NumBlocks :
          g[k] = IF k = 0 THEN Valid(first)
                 ELSE IF g[k - 1] = 0 THEN 0
                 ELSE Valid(block_get_next(d[g[k - 1]]))
    <3> TAKE k \in 0 .. NumBlocks
    <3>1. CASE k = 0
      BY <1>2, <3>1 DEF IsWalk
    <3>2. CASE k # 0
      <4>1. k \in 1 .. NumBlocks
        BY <3>2, BlockSets
      <4>2. QED
        BY <1>2, <1>3, <3>2, <4>1 DEF IsWalk
    <3>3. QED
      BY <3>1, <3>2
  <2>2. g = [k \in 0 .. NumBlocks |-> g[k]]
    BY <1>2 DEF IsWalk
  <2>3. QED
    BY <2>1, <2>2, Zenon
<1>5. P(walk)
  BY <1>4
<1>6. walk = Chain(d, first)
  BY DEF Chain
<1> HIDE DEF walk
<1>7. /\ DOMAIN walk = 0 .. NumBlocks
      /\ \A k \in 0 .. NumBlocks :
           walk[k] = IF k = 0 THEN Valid(first)
                     ELSE IF walk[k - 1] = 0 THEN 0
                     ELSE Valid(block_get_next(d[walk[k - 1]]))
  BY <1>5
<1>8. \A k \in 0 .. NumBlocks : walk[k] \in Blocks
  BY <1>7, ValidBlock, BlockSets
<1>9. walk \in [0 .. NumBlocks -> Blocks]
  BY <1>5, <1>7, <1>8
<1>10. walk[0] = Valid(first)
  BY <1>7, BlockSets
<1>11. ASSUME NEW k \in 1 .. NumBlocks
       PROVE  walk[k] = IF walk[k - 1] = 0 THEN 0 ELSE ValidNext(d)[walk[k - 1]]
  <2>1. k \in 0 .. NumBlocks /\ k # 0 /\ k - 1 \in 0 .. NumBlocks
    BY BlockSets
  <2>2. walk[k] = IF walk[k - 1] = 0 THEN 0 ELSE Valid(block_get_next(d[walk[k - 1]]))
    BY <1>7, <2>1
  <2>3. walk[k - 1] \in FileIds \cup {0}
    BY <1>8, <2>1, BlockSets
  <2>4. QED
    BY <2>2, <2>3 DEF ValidNext
<1>12. QED
  BY <1>6, <1>9, <1>10, <1>11 DEF IsWalk

LEMMA FileChainIsWalk ==
  ASSUME NEW d
  PROVE  IsWalk(FileChain(d), Valid(FirstFile(d)), ValidFile(d))
<1> DEFINE P(w) == w = [k \in 0 .. NumBlocks |->
                         IF k = 0 THEN Valid(NextFile(d[SUPER_BLOCK]))
                         ELSE IF w[k - 1] = 0 THEN 0
                         ELSE Valid(NextFile(d[w[k - 1]]))]
           walk == CHOOSE w : P(w)
           first == NextFile(d[SUPER_BLOCK])
<1>1. ValidFile(d) \in [FileIds -> Blocks] /\ Valid(first) \in Blocks
  BY ValidBlock DEF ValidFile
<1>2. PICK g : IsWalk(g, Valid(first), ValidFile(d))
  BY <1>1, WalkExists, Zenon
<1>3. \A k \in 1 .. NumBlocks : g[k - 1] # 0 => ValidFile(d)[g[k - 1]] = Valid(NextFile(d[g[k - 1]]))
  <2> TAKE k \in 1 .. NumBlocks
  <2>1. k - 1 \in 0 .. NumBlocks
    BY BlockSets
  <2>2. g[k - 1] \in FileIds \cup {0}
    BY <1>2, <2>1, BlockSets DEF IsWalk
  <2>3. QED
    BY <2>2 DEF ValidFile
<1>4. P(g)
  <2>1. \A k \in 0 .. NumBlocks :
          g[k] = IF k = 0 THEN Valid(first)
                 ELSE IF g[k - 1] = 0 THEN 0
                 ELSE Valid(NextFile(d[g[k - 1]]))
    <3> TAKE k \in 0 .. NumBlocks
    <3>1. CASE k = 0
      BY <1>2, <3>1 DEF IsWalk
    <3>2. CASE k # 0
      <4>1. k \in 1 .. NumBlocks
        BY <3>2, BlockSets
      <4>2. QED
        BY <1>2, <1>3, <3>2, <4>1 DEF IsWalk
    <3>3. QED
      BY <3>1, <3>2
  <2>2. g = [k \in 0 .. NumBlocks |-> g[k]]
    BY <1>2 DEF IsWalk
  <2>3. QED
    BY <2>1, <2>2, Zenon
<1>5. P(walk)
  BY <1>4
<1>6. walk = FileChain(d)
  BY DEF FileChain
<1> HIDE DEF walk
<1>7. /\ DOMAIN walk = 0 .. NumBlocks
      /\ \A k \in 0 .. NumBlocks :
           walk[k] = IF k = 0 THEN Valid(first)
                     ELSE IF walk[k - 1] = 0 THEN 0
                     ELSE Valid(NextFile(d[walk[k - 1]]))
  BY <1>5
<1>8. \A k \in 0 .. NumBlocks : walk[k] \in Blocks
  BY <1>7, ValidBlock, BlockSets
<1>9. walk \in [0 .. NumBlocks -> Blocks]
  BY <1>5, <1>7, <1>8
<1>10. walk[0] = Valid(first)
  BY <1>7, BlockSets
<1>11. ASSUME NEW k \in 1 .. NumBlocks
       PROVE  walk[k] = IF walk[k - 1] = 0 THEN 0 ELSE ValidFile(d)[walk[k - 1]]
  <2>1. k \in 0 .. NumBlocks /\ k # 0 /\ k - 1 \in 0 .. NumBlocks
    BY BlockSets
  <2>2. walk[k] = IF walk[k - 1] = 0 THEN 0 ELSE Valid(NextFile(d[walk[k - 1]]))
    BY <1>7, <2>1
  <2>3. walk[k - 1] \in FileIds \cup {0}
    BY <1>8, <2>1, BlockSets
  <2>4. QED
    BY <2>2, <2>3 DEF ValidFile
<1>12. QED
  BY <1>6, <1>9, <1>10, <1>11 DEF IsWalk, FirstFile

LEMMA NoInjection ==
  ASSUME NEW S, IsFiniteSet(S), NEW T, IsFiniteSet(T), Cardinality(T) < Cardinality(S),
         NEW f \in [S -> T], \A x, y \in S : x # y => f[x] # f[y]
  PROVE  FALSE
  BY FS_PigeonHole, Zenon

\* A walk along a list goes through all its elements, and ends.
LEMMA WalkOfList ==
  ASSUME NEW g, NEW a, NEW s, NEW t, NEW S \in SUBSET FileIds, Links(s, a, S),
         IsWalk(g, a, t), \A b \in S : t[b] = s[b]
  PROVE  Members(g) = S /\ Ends(g)
<1>1. PICK r \in [S -> Int] : Sorted(s, a, S, r)
  BY DEF Links
<1>2. /\ FirstOf(S, r, a)
      /\ \A b \in S : FirstOf(Beyond(S, r, b), r, s[b])
      /\ \A b \in S : r[b] \in Int
      /\ 0 \notin S
  BY <1>1, BlockSets DEF Sorted
<1>3. /\ DOMAIN g = 0 .. NumBlocks /\ g[0] = a
      /\ \A k \in 1 .. NumBlocks : g[k] = IF g[k - 1] = 0 THEN 0 ELSE t[g[k - 1]]
      /\ NumBlocks \in Nat /\ 0 \in 0 .. NumBlocks
  BY BlockSets DEF IsWalk
<1>4. \A k \in 0 .. NumBlocks : g[k] \in S \cup {0}
  <2> DEFINE T == {k \in 0 .. NumBlocks : g[k] \in S \cup {0}}
  <2>0. 0 \in Int /\ NumBlocks \in Int
    BY <1>3
  <2>1. 0 \in T
    BY <1>2, <1>3 DEF FirstOf
  <2>2. ASSUME NEW k \in 0 .. NumBlocks - 1, k \in T
        PROVE  k + 1 \in T
    <3>1. k + 1 \in 1 .. NumBlocks /\ k + 1 - 1 = k /\ k + 1 \in 0 .. NumBlocks
      BY <1>3
    <3>2. g[k + 1] = IF g[k] = 0 THEN 0 ELSE t[g[k]]
      BY <1>3, <3>1
    <3>3. g[k] \in S => s[g[k]] \in S \cup {0}
      BY <1>2 DEF FirstOf, Beyond
    <3>4. QED
      BY <2>2, <3>1, <3>2, <3>3
  <2> HIDE DEF T
  <2>3. \A k \in 0 .. NumBlocks : k \in T
    BY <1>3, <2>0, <2>1, <2>2, IntervalInduction, Zenon
  <2>4. QED
    BY <2>3 DEF T
<1>5. ASSUME NEW k \in 1 .. NumBlocks, g[k] # 0
      PROVE  /\ g[k - 1] \in S /\ g[k] \in S /\ r[g[k - 1]] < r[g[k]]
             /\ \A b \in S : r[g[k - 1]] < r[b] => r[g[k]] <= r[b]
  <2>1. k - 1 \in 0 .. NumBlocks /\ k \in 0 .. NumBlocks
    BY <1>3
  <2>2. g[k - 1] \in S /\ g[k] = s[g[k - 1]] /\ g[k] \in S
    BY <1>2, <1>3, <1>4, <1>5, <2>1
  <2>3. FirstOf(Beyond(S, r, g[k - 1]), r, g[k])
    BY <1>2, <2>2
  <2>4. g[k] \in Beyond(S, r, g[k - 1]) /\ \A c \in Beyond(S, r, g[k - 1]) : r[g[k]] <= r[c]
    BY <1>5, <2>3 DEF FirstOf
  <2>5. QED
    BY <1>2, <2>2, <2>4 DEF Beyond
<1>6. Ends(g)
  <2>1. SUFFICES ASSUME g[NumBlocks] # 0 PROVE FALSE
    BY DEF Ends
  <2>2. \A k \in 0 .. NumBlocks : g[k] # 0
    <3> DEFINE T == {n \in Nat : n <= NumBlocks => g[NumBlocks - n] # 0}
    <3>1. 0 \in T
      BY <1>3, <2>1
    <3>2. ASSUME NEW n \in Nat, n \in T
          PROVE  n + 1 \in T
      <4>1. SUFFICES ASSUME n + 1 <= NumBlocks PROVE g[NumBlocks - (n + 1)] # 0
        OBVIOUS
      <4>2. NumBlocks - n \in 1 .. NumBlocks /\ NumBlocks - n - 1 = NumBlocks - (n + 1)
        BY <1>3, <4>1
      <4>3. g[NumBlocks - n] # 0
        BY <3>2, <4>1, <1>3
      <4>4. g[NumBlocks - n - 1] \in S
        BY <1>5, <4>2, <4>3
      <4>5. QED
        BY <1>2, <4>2, <4>4
    <3> HIDE DEF T
    <3>3. \A n \in Nat : n \in T
      BY <3>1, <3>2, NatInductionSet
    <3>4. ASSUME NEW k \in 0 .. NumBlocks
          PROVE  g[k] # 0
      <4>1. NumBlocks - k \in Nat /\ NumBlocks - k <= NumBlocks /\ NumBlocks - (NumBlocks - k) = k
        BY <1>3
      <4>2. NumBlocks - k \in T
        BY <3>3, <4>1
      <4>3. g[NumBlocks - (NumBlocks - k)] # 0
        BY <4>1, <4>2 DEF T
      <4>4. QED
        BY <4>1, <4>3
    <3>5. QED
      BY <3>4
  <2>3. \A j \in 0 .. NumBlocks : \A k \in 0 .. NumBlocks : j < k => r[g[j]] < r[g[k]]
    <3> TAKE j \in 0 .. NumBlocks
    <3> DEFINE T == {k \in j .. NumBlocks : j < k => r[g[j]] < r[g[k]]}
    <3>1. j \in T
      BY <1>3
    <3>2. ASSUME NEW k \in j .. NumBlocks - 1, k \in T
          PROVE  k + 1 \in T
      <4>1. k + 1 \in 1 .. NumBlocks /\ k + 1 - 1 = k /\ k + 1 \in j .. NumBlocks
            /\ k \in 0 .. NumBlocks /\ k + 1 \in 0 .. NumBlocks
        BY <1>3
      <4>2. r[g[k]] < r[g[k + 1]]
        BY <1>5, <2>2, <4>1
      <4>3. r[g[j]] \in Int /\ r[g[k]] \in Int /\ r[g[k + 1]] \in Int
        BY <1>2, <1>4, <2>2, <4>1
      <4>4. j = k \/ r[g[j]] < r[g[k]]
        BY <3>2
      <4>5. r[g[j]] < r[g[k + 1]]
        BY <4>2, <4>3, <4>4
      <4>6. QED
        BY <4>1, <4>5
    <3> HIDE DEF T
    <3>3. \A k \in j .. NumBlocks : k \in T
      <4>1. j \in Int /\ NumBlocks \in Int
        BY <1>3
      <4>2. QED
        BY <3>1, <3>2, <4>1, IntervalInduction, Zenon
    <3>4. QED
      BY <3>3, <1>3 DEF T
  <2>4. \A j, k \in 0 .. NumBlocks : j # k => g[j] # g[k]
    <3> TAKE j \in 0 .. NumBlocks, k \in 0 .. NumBlocks
    <3>1. r[g[j]] \in Int /\ r[g[k]] \in Int
      BY <1>2, <1>4, <2>2
    <3>2. j < k => r[g[j]] < r[g[k]]
      BY <2>3
    <3>3. k < j => r[g[k]] < r[g[j]]
      BY <2>3
    <3>4. j # k => j < k \/ k < j
      BY <1>3
    <3>5. QED
      BY <3>1, <3>2, <3>3, <3>4
  <2>5. IsFiniteSet(0 .. NumBlocks) /\ Cardinality(0 .. NumBlocks) = NumBlocks + 1
    BY <1>3, FS_Interval
  <2>6. IsFiniteSet(Blocks) /\ Cardinality(Blocks) = NumBlocks
    <3>1. Blocks = 0 .. NumBlocks - 1 /\ NumBlocks > 0
      BY BlockSets
    <3>2. IsFiniteSet(0 .. NumBlocks - 1) /\ Cardinality(0 .. NumBlocks - 1) = NumBlocks
      BY <1>3, <3>1, FS_Interval
    <3>3. QED
      BY <3>1, <3>2
  <2>7. g \in [0 .. NumBlocks -> Blocks]
    BY DEF IsWalk
  <2>8. IsFiniteSet(Blocks) /\ IsFiniteSet(0 .. NumBlocks)
        /\ Cardinality(Blocks) < Cardinality(0 .. NumBlocks)
    BY <1>3, <2>5, <2>6
  <2>9. QED
    BY <2>4, <2>7, <2>8, NoInjection, Zenon
<1>7. Members(g) \subseteq S
  BY <1>3, <1>4 DEF Members
<1>8. ASSUME NEW b \in S, b \notin Members(g)
      PROVE  FALSE
  <2> DEFINE T == {k \in 0 .. NumBlocks : g[k] # 0 /\ r[g[k]] < r[b]}
  <2>0. 0 \in Int /\ NumBlocks \in Int
    BY <1>3
  <2>1. \A k \in 0 .. NumBlocks : g[k] # b
    BY <1>2, <1>3, <1>8 DEF Members
  <2>2. \A c, e \in S : r[c] = r[e] => c = e
    BY <1>1 DEF Sorted
  <2>3. 0 \in T
    <3>1. g[0] \in S /\ r[g[0]] <= r[b]
      BY <1>2, <1>3 DEF FirstOf
    <3>2. r[g[0]] # r[b]
      BY <1>3, <2>1, <2>2, <3>1
    <3>3. QED
      BY <1>2, <1>3, <3>1, <3>2
  <2>4. ASSUME NEW k \in 0 .. NumBlocks - 1, k \in T
        PROVE  k + 1 \in T
    <3>1. k + 1 \in 1 .. NumBlocks /\ k + 1 - 1 = k /\ k + 1 \in 0 .. NumBlocks
          /\ k \in 0 .. NumBlocks
      BY <1>3
    <3>2. g[k] \in S /\ r[g[k]] < r[b]
      BY <1>4, <2>4, <3>1
    <3>3. FirstOf(Beyond(S, r, g[k]), r, s[g[k]]) /\ b \in Beyond(S, r, g[k])
      BY <1>2, <3>2 DEF Beyond
    <3>4. s[g[k]] \in S /\ r[s[g[k]]] <= r[b]
      BY <3>3 DEF FirstOf, Beyond
    <3>5. g[k + 1] = s[g[k]]
      BY <1>2, <1>3, <3>1, <3>2
    <3>6. r[g[k + 1]] # r[b]
      BY <2>1, <2>2, <3>1, <3>4, <3>5
    <3>7. QED
      BY <1>2, <3>1, <3>4, <3>5, <3>6
  <2> HIDE DEF T
  <2>5. \A k \in 0 .. NumBlocks : k \in T
    BY <2>0, <2>3, <2>4, IntervalInduction, Zenon
  <2>6. NumBlocks \in 0 .. NumBlocks
    BY <1>3
  <2>7. QED
    BY <1>6, <2>5, <2>6 DEF T, Ends
<1>9. QED
  BY <1>6, <1>7, <1>8

LEMMA SameWalk ==
  ASSUME NEW d, NEW h, NEW S \in SUBSET FileIds, Links(Link(d), h, S)
  PROVE  Members(Chain(d, h)) = S /\ Ends(Chain(d, h))
<1>1. /\ h \in S \cup {0} /\ 0 \notin S
      /\ \A b \in S : Link(d)[b] \in S \cup {0}
  BY ListHead, BlockSets
<1>2. Valid(h) = h
  BY <1>1, BlockSets DEF Valid
<1>3. \A b \in S : ValidNext(d)[b] = Link(d)[b]
  BY <1>1, BlockSets DEF Valid, ValidNext, Link
<1>4. IsWalk(Chain(d, h), h, ValidNext(d))
  BY <1>2, ChainIsWalk
<1>5. QED
  BY <1>3, <1>4, WalkOfList, Zenon

LEMMA ChainsAre ==
  ASSUME NEW d, NEW own, NEW L \in SUBSET FileIds, NEW h, Layout(own, Link(d), L, h)
  PROVE  /\ Members(Chain(d, h)) = Own(own, 0) /\ Ends(Chain(d, h))
         /\ \A f \in L : Members(Chain(d, f)) = Own(own, f) /\ Ends(Chain(d, f))
<1>1. Own(own, 0) \in SUBSET FileIds /\ \A f \in L : Own(own, f) \in SUBSET FileIds
  BY DEF Own
<1>2. Links(Link(d), h, Own(own, 0)) /\ \A f \in L : Links(Link(d), f, Own(own, f))
  BY DEF Layout
<1>3. QED
  BY <1>1, <1>2, SameWalk, Zenon

LEMMA ListedAre ==
  ASSUME NEW d, NEW L \in SUBSET FileIds, Listing(d, L)
  PROVE  Listed(d) = L
<1>1. Directory(d, L, FirstFile(d), NextOf(d, L))
  BY DEF Listing
<1>2. /\ FirstFile(d) \in L \cup {0}
      /\ \A f \in L : NextOf(d, L)[f] \in L \cup {0}
  BY <1>1, DirectoryFacts, Zenon
<1>3. NameOf(d, L) \in [L -> Int] /\ Sorted(NextOf(d, L), FirstFile(d), L, NameOf(d, L))
  BY <1>1, NamesOfFiles, Zenon
<1>4. Links(NextOf(d, L), FirstFile(d), L)
  BY <1>3, Zenon DEF Links
<1>5. Valid(FirstFile(d)) = FirstFile(d)
  BY <1>2, BlockSets DEF Valid
<1>6. \A f \in L : ValidFile(d)[f] = NextOf(d, L)[f]
  BY <1>2, BlockSets DEF Valid, ValidFile, NextOf
<1>7. IsWalk(FileChain(d), FirstFile(d), ValidFile(d))
  BY <1>5, FileChainIsWalk
<1>8. Members(FileChain(d)) = L
  BY <1>4, <1>6, <1>7, WalkOfList, Zenon
<1>9. QED
  BY <1>8 DEF Listed

LEMMA FilesAre ==
  ASSUME NEW d, NEW L \in SUBSET FileIds, Listing(d, L)
  PROVE  /\ DOMAIN Files(d) = L
         /\ \A f \in L : Files(d)[f].name = Name(d[f]) /\ Files(d)[f].data = Data(d, f)
  BY ListedAre DEF Files

\* When no call is halfway, each block is in one list, and the files are in
\* the order of their names.
LEMMA WholeDisk ==
  ASSUME NEW L \in SUBSET FileIds, NEW own, Whole(disk, L, own), Resting
  PROVE  BlocksPartitioned /\ FilesInOrder
<1>1. Layout(own, Link(disk), L, FreeHead(disk)) /\ Listing(disk, L)
  BY DEF Whole
<1>2. Listed(disk) = L
  BY <1>1, ListedAre
<1>3. BlocksPartitioned
  <2>1. FreeBlocks(disk) = Own(own, 0) /\ Ends(Chain(disk, block_get_next(disk[SUPER_BLOCK])))
    BY <1>1, ChainsAre DEF FreeBlocks, FreeHead
  <2>2. \A f \in L : FileBlocks(disk, f) = Own(own, f) /\ Ends(Chain(disk, f))
    BY <1>1, ChainsAre DEF FileBlocks
  <2>3. \A f \in L : f # 0
    BY BlockSets
  <2>4. FileIds = Own(own, 0) \cup UNION {Own(own, f) : f \in L}
    <3>1. \A b \in FileIds : own[b] \in L \cup {0}
      BY <1>1 DEF Layout
    <3>2. QED
      BY <3>1 DEF Own
  <2>5. \A f \in L : FileBlocks(disk, f) \cap FreeBlocks(disk) = {}
    BY <2>1, <2>2, <2>3 DEF Own
  <2>6. \A f, g \in L : f # g => FileBlocks(disk, f) \cap FileBlocks(disk, g) = {}
    BY <2>2 DEF Own
  <2>7. UNION {FileBlocks(disk, f) : f \in L} = UNION {Own(own, f) : f \in L}
    BY <2>2
  <2>8. QED
    BY <1>2, <2>1, <2>2, <2>4, <2>5, <2>6, <2>7 DEF BlocksPartitioned
<1>4. FilesInOrder
  <2>1. Store = Files(disk)
    BY DEF Store
  <2>2. DOMAIN Store = L /\ \A f \in L : Store[f].name = Name(disk[f])
    BY <1>1, <2>1, FilesAre
  <2>3. PICK r : /\ Sorted(NextOf(disk, L), FirstFile(disk), L, r)
                 /\ \A f \in L : r[f] = Name(disk[f])
    <3>1. Directory(disk, L, FirstFile(disk), NextOf(disk, L))
      BY <1>1 DEF Listing
    <3>2. Sorted(NextOf(disk, L), FirstFile(disk), L, NameOf(disk, L))
      BY <3>1, NamesOfFiles, Zenon
    <3>3. \A f \in L : NameOf(disk, L)[f] = Name(disk[f])
      BY NameOfFile, Zenon
    <3>4. QED
      BY <3>2, <3>3
  <2>4. \A f \in L : r[f] = Store[f].name
    BY <2>2, <2>3
  <2>5. ASSUME NEW S \in SUBSET L, NEW x, FirstOf(S, r, x)
        PROVE  FS!IsFirst(S, x)
    BY <2>4, <2>5 DEF FirstOf, FS!IsFirst, FS!NoFile
  <2>6. FS!Live = L
    BY <2>2 DEF FS!Live
  <2>7. FS!IsFirst(L, FirstFile(disk))
    <3>1. FirstOf(L, r, FirstFile(disk))
      BY <2>3 DEF Sorted
    <3>2. QED
      BY <2>5, <3>1
  <2>8. ASSUME NEW f \in L
        PROVE  FS!IsFirst(FS!After(f), NextFile(disk[f]))
    <3>1. FirstOf(Beyond(L, r, f), r, NextFile(disk[f]))
      BY <2>3 DEF Sorted, NextOf
    <3>2. FS!After(f) = Beyond(L, r, f)
      BY <2>4, <2>6 DEF FS!After, Beyond
    <3>3. Beyond(L, r, f) \subseteq L
      BY DEF Beyond
    <3>4. QED
      BY <2>5, <3>1, <3>2, <3>3
  <2>9. QED
    BY <2>6, <2>7, <2>8 DEF FilesInOrder, FirstFile
<1>5. QED
  BY <1>3, <1>4

-----------------------------------------------------------------------------
(***************************************************************************)
(* What a block contains after it is written.                              *)
(***************************************************************************)
GoodBlock(v) == v \in [Offsets -> Nat] /\ v[0] >= 1 /\ v[0] < BlockSize + NumBlocks

LEMMA GoodBlocks ==
  ASSUME NEW d, NEW L, DiskOK(d, L), NEW b \in Blocks
  PROVE  GoodBlock(d[b])
  BY DEF DiskOK, GoodBlock

LEMMA NextOfBlock ==
  ASSUME NEW v, GoodBlock(v)
  PROVE  block_get_next(v) \in Blocks /\ (block_get_next(v) = 0 <=> v[0] <= BlockSize)
<1>1. v[0] \in Nat
  BY BlockSets DEF GoodBlock
<1>2. QED
  BY <1>1, BlockSets DEF GoodBlock, block_get_next

LEMMA SetNext ==
  ASSUME NEW v, GoodBlock(v), NEW next \in Blocks
  PROVE  /\ GoodBlock(block_set_next(v, next))
         /\ block_get_next(block_set_next(v, next)) = next
         /\ \A i \in Offsets \ {0} : block_set_next(v, next)[i] = v[i]
<1>1. block_set_next(v, next) \in [Offsets -> Nat]
      /\ block_set_next(v, next)[0] = next + BlockSize
      /\ \A i \in Offsets \ {0} : block_set_next(v, next)[i] = v[i]
  BY BlockSets DEF block_set_next, GoodBlock
<1>2. next \in Nat /\ next < NumBlocks
  BY BlockSets
<1>3. GoodBlock(block_set_next(v, next))
  BY <1>1, <1>2, BlockSets DEF GoodBlock
<1> HIDE DEF block_set_next
<1>4. block_get_next(block_set_next(v, next)) = next
  BY <1>1, <1>2, BlockSets DEF block_get_next
<1>5. QED
  BY <1>1, <1>3, <1>4

LEMMA SetFile ==
  ASSUME NEW v, GoodBlock(v), NEW next \in Nat
  PROVE  /\ GoodBlock([v EXCEPT ![1] = next])
         /\ [v EXCEPT ![1] = next][1] = next
         /\ \A i \in Offsets \ {1} : [v EXCEPT ![1] = next][i] = v[i]
  BY BlockSets DEF GoodBlock

LEMMA SetSize ==
  ASSUME NEW v, v \in [Offsets -> Nat], NEW n \in Nat, n >= 1, n < BlockSize + NumBlocks
  PROVE  /\ GoodBlock([v EXCEPT ![0] = n])
         /\ [v EXCEPT ![0] = n][0] = n
         /\ \A i \in Offsets \ {0} : [v EXCEPT ![0] = n][i] = v[i]
  BY BlockSets DEF GoodBlock

LEMMA CopyToBlock ==
  ASSUME NEW v, v \in [Offsets -> Nat], NEW at \in Nat, NEW src \in Seq(Nat)
  PROVE  /\ CopyTo(v, at, src) \in [Offsets -> Nat]
         /\ \A i \in Offsets : i < at => CopyTo(v, at, src)[i] = v[i]
<1>1. /\ DOMAIN CopyTo(v, at, src) = Offsets
      /\ \A i \in Offsets :
           CopyTo(v, at, src)[i] = IF at <= i /\ i < at + Len(src) THEN src[i - at + 1] ELSE v[i]
  BY DEF CopyTo
<1>2. \A i \in Offsets : CopyTo(v, at, src)[i] \in Nat
  <2> TAKE i \in Offsets
  <2>1. i \in Nat /\ v[i] \in Nat
    BY BlockSets
  <2>2. CASE at <= i /\ i < at + Len(src)
    <3>1. i - at + 1 \in 1 .. Len(src)
      BY <2>1, <2>2
    <3>2. src[i - at + 1] \in Nat
      BY <3>1
    <3>3. QED
      BY <1>1, <2>2, <3>2
  <2>3. QED
    BY <1>1, <2>1, <2>2
<1>3. CopyTo(v, at, src) \in [Offsets -> Nat]
  <2>1. CopyTo(v, at, src) = [i \in Offsets |-> CopyTo(v, at, src)[i]]
    BY DEF CopyTo
  <2>2. QED
    BY <1>2, <2>1, Zenon
<1>4. \A i \in Offsets : i < at => CopyTo(v, at, src)[i] = v[i]
  <2> TAKE i \in Offsets
  <2> HAVE i < at
  <2>1. ~ (at <= i)
    BY BlockSets
  <2>2. QED
    BY <1>1, <2>1
<1>5. QED
  BY <1>3, <1>4

LEMMA HeaderSizes ==
  ASSUME NEW n \in Names
  PROVE  NameSize[n] \in Nat /\ NameSize[n] >= 1 /\ n \in Nat
         /\ HeaderSize(n) \in Nat /\ HeaderSize(n) >= 3 /\ HeaderSize(n) <= BlockSize
  BY BlockFSAssumption DEF BlockFSAssumption, HeaderSize

LEMMA HeaderBlock ==
  ASSUME NEW v, v \in [Offsets -> Nat], NEW n \in Names, NEW next \in Nat
  PROVE  /\ GoodBlock(FileHeader(v, n, next))
         /\ block_get_next(FileHeader(v, n, next)) = 0
         /\ FileHeader(v, n, next)[0] = HeaderSize(n)
         /\ NextFile(FileHeader(v, n, next)) = next
         /\ Name(FileHeader(v, n, next)) = n
<1> DEFINE src == [i \in 1 .. NameSize[n] |-> n]
           c == CopyTo(v, 2, src)
<1>1. src \in Seq(Nat) /\ Len(src) = NameSize[n] /\ src[1] = n
  BY HeaderSizes
<1>2. c \in [Offsets -> Nat]
  BY <1>1, CopyToBlock
<1>3. c[2] = n
  <2>1. c[2] = src[2 - 2 + 1]
    BY <1>1, HeaderSizes, BlockSets DEF CopyTo
  <2>2. QED
    BY <1>1, <2>1
<1>4. FileHeader(v, n, next) = [c EXCEPT ![0] = HeaderSize(n), ![1] = next]
  BY DEF FileHeader
<1> HIDE DEF src, c
<1>5. /\ FileHeader(v, n, next) \in [Offsets -> Nat]
      /\ FileHeader(v, n, next)[0] = HeaderSize(n)
      /\ FileHeader(v, n, next)[1] = next /\ FileHeader(v, n, next)[2] = n
  <2>1. HeaderSize(n) \in Nat /\ 0 \in Offsets /\ 1 \in Offsets /\ 2 \in Offsets
    BY HeaderSizes, BlockSets
  <2> HIDE DEF HeaderSize
  <2>2. /\ [c EXCEPT ![0] = HeaderSize(n), ![1] = next] \in [Offsets -> Nat]
        /\ [c EXCEPT ![0] = HeaderSize(n), ![1] = next][0] = HeaderSize(n)
        /\ [c EXCEPT ![0] = HeaderSize(n), ![1] = next][1] = next
        /\ [c EXCEPT ![0] = HeaderSize(n), ![1] = next][2] = n
    BY <1>2, <1>3, <2>1
  <2>3. QED
    BY <1>4, <2>2, Zenon
<1>6. QED
  BY <1>5, HeaderSizes, BlockSets DEF GoodBlock, block_get_next, NextFile, Name

-----------------------------------------------------------------------------
(***************************************************************************)
(* What a disk contains after a block is written.                          *)
(***************************************************************************)
LEMMA DiskLinks ==
  ASSUME NEW d, NEW L, DiskOK(d, L)
  PROVE  /\ Link(d) \in [FileIds -> Blocks] /\ FreeHead(d) \in Blocks
         /\ \A b \in FileIds : Link(d)[b] = block_get_next(d[b])
<1>1. \A b \in Blocks : block_get_next(d[b]) \in Blocks
  BY GoodBlocks, NextOfBlock
<1>2. QED
  BY <1>1, BlockSets DEF Link, FreeHead

\* Block b of d has the contents v in e.
Wrote(d, e, b, v) ==
  /\ b \in Blocks /\ e[b] = v
  /\ \A c \in Blocks \ {b} : e[c] = d[c]
  /\ d \in [Blocks -> [Offsets -> Nat]]
  /\ e = [d EXCEPT ![b] = v]

LEMMA WriteIsWrote ==
  ASSUME NEW d, NEW L, DiskOK(d, L), NEW b \in Blocks, NEW v, NEW e, e = [d EXCEPT ![b] = v]
  PROVE  Wrote(d, e, b, v)
  BY DEF Wrote, DiskOK

LEMMA WroteOK ==
  ASSUME NEW d, NEW e, NEW L, NEW M \in SUBSET FileIds, DiskOK(d, L),
         NEW b, NEW v, Wrote(d, e, b, v), GoodBlock(v),
         \A f \in M : IF f = b THEN HeaderSize(Name(v)) <= v[0] ELSE f \in L
  PROVE  DiskOK(e, M)
<1>1. v \in [Offsets -> Nat] /\ v[0] >= 1 /\ v[0] < BlockSize + NumBlocks
  BY DEF GoodBlock
<1>2. d \in [Blocks -> [Offsets -> Nat]] /\ e = [d EXCEPT ![b] = v] /\ b \in Blocks /\ e[b] = v
      /\ \A c \in Blocks \ {b} : e[c] = d[c]
  BY DEF Wrote
<1>3. e \in [Blocks -> [Offsets -> Nat]]
  BY <1>1, <1>2
<1>4. \A c \in Blocks : e[c][0] >= 1 /\ e[c][0] < BlockSize + NumBlocks
  <2> TAKE c \in Blocks
  <2>1. CASE c = b
    BY <1>1, <1>2, <2>1
  <2>2. CASE c # b
    BY <1>2, <2>2 DEF DiskOK
  <2>3. QED
    BY <2>1, <2>2
<1>5. \A f \in M : HeaderSize(Name(e[f])) <= e[f][0]
  <2> TAKE f \in M
  <2>1. CASE f = b
    BY <1>2, <2>1
  <2>2. CASE f # b
    <3>1. f \in L /\ e[f] = d[f]
      BY <1>2, <2>2, BlockSets
    <3>2. HeaderSize(Name(d[f])) <= d[f][0]
      BY <3>1 DEF DiskOK
    <3>3. QED
      BY <3>1, <3>2
  <2>3. QED
    BY <2>1, <2>2
<1>6. QED
  BY <1>3, <1>4, <1>5 DEF DiskOK

\* A block of a file, or a free one, is written.
LinkIsSet(d, e, b, x) ==
  /\ Link(e) = [Link(d) EXCEPT ![b] = x]
  /\ FreeHead(e) = FreeHead(d) /\ FirstFile(e) = FirstFile(d)

LEMMA WroteLink ==
  ASSUME NEW d, NEW e, NEW b \in FileIds, NEW v, Wrote(d, e, b, v),
         NEW x, block_get_next(v) = x
  PROVE  LinkIsSet(d, e, b, x)
<1>1. e[0] = d[0] /\ e[b] = v /\ \A c \in FileIds : c # b => e[c] = d[c]
  BY BlockSets DEF Wrote
<1>2. \A c \in FileIds : block_get_next(e[c]) = IF c = b THEN block_get_next(v) ELSE block_get_next(d[c])
  BY <1>1
<1>3. Link(e) = [Link(d) EXCEPT ![b] = block_get_next(v)]
  <2> HIDE DEF block_get_next
  <2>1. [Link(d) EXCEPT ![b] = block_get_next(v)]
          = [c \in FileIds |-> IF c = b THEN block_get_next(v) ELSE block_get_next(d[c])]
    BY DEF Link
  <2>2. Link(e) = [c \in FileIds |-> IF c = b THEN block_get_next(v) ELSE block_get_next(d[c])]
    BY <1>2 DEF Link
  <2>3. QED
    BY <2>1, <2>2, Zenon
<1>4. QED
  BY <1>1, <1>3, BlockSets DEF FreeHead, FirstFile, LinkIsSet

\* What follows the block is not changed.
LEMMA WroteSameLink ==
  ASSUME NEW d, NEW e, NEW b \in FileIds, NEW v, Wrote(d, e, b, v),
         block_get_next(v) = block_get_next(d[b])
  PROVE  Link(e) = Link(d) /\ FreeHead(e) = FreeHead(d) /\ FirstFile(e) = FirstFile(d)
<1>1. e[0] = d[0] /\ e[b] = v /\ \A c \in FileIds : c # b => e[c] = d[c]
  BY BlockSets DEF Wrote
<1>2. \A c \in FileIds : block_get_next(e[c]) = block_get_next(d[c])
  BY <1>1
<1>3. Link(e) = Link(d)
  BY <1>2, Zenon DEF Link
<1>4. QED
  BY <1>1, <1>3, BlockSets DEF FreeHead, FirstFile

\* The super block is written.
LEMMA WroteSuper ==
  ASSUME NEW d, NEW e, NEW v, Wrote(d, e, SUPER_BLOCK, v), NEW L \in SUBSET FileIds
  PROVE  /\ Link(e) = Link(d) /\ NextOf(e, L) = NextOf(d, L)
         /\ \A f \in FileIds : e[f] = d[f]
         /\ FreeHead(e) = block_get_next(v) /\ FirstFile(e) = NextFile(v)
<1>1. e[SUPER_BLOCK] = v /\ \A c \in FileIds : e[c] = d[c]
  BY BlockSets DEF Wrote
<1>2. \A c \in FileIds : block_get_next(e[c]) = block_get_next(d[c])
  BY <1>1
<1>3. \A c \in L : NextFile(e[c]) = NextFile(d[c])
  BY <1>1
<1>4. Link(e) = Link(d)
  BY <1>2, Zenon DEF Link
<1>5. NextOf(e, L) = NextOf(d, L)
  BY <1>3, Zenon DEF NextOf
<1>6. QED
  BY <1>1, <1>4, <1>5 DEF FreeHead, FirstFile

\* The names of the files and what follows them are not changed.
LEMMA ListingFrame ==
  ASSUME NEW d, NEW e, NEW L, Listing(d, L), FirstFile(e) = FirstFile(d),
         \A f \in L : Name(e[f]) = Name(d[f]) /\ NextFile(e[f]) = NextFile(d[f])
  PROVE  Listing(e, L)
<1>1. Directory(d, L, FirstFile(d), NextOf(d, L))
  BY DEF Listing
<1>2. \A f \in L : Name(e[f]) = Name(d[f]) /\ NextOf(e, L)[f] = NextOf(d, L)[f]
  BY DEF NextOf
<1>3. Directory(e, L, FirstFile(d), NextOf(e, L))
  BY <1>1, <1>2, DirectoryFrame
<1>4. QED
  BY <1>3 DEF Listing

-----------------------------------------------------------------------------
(***************************************************************************)
(* Each step keeps the invariant.  First what a call begins and ends with. *)
(***************************************************************************)
LEMMA CallFields == DOMAIN NoCall = Fields
  BY DEF NoCall, Fields

\* The streams that write, when the call is not in the middle of a write, and
\* the sizes of the blocks.
WritersRest(d, w, L, own) ==
  /\ BlockSizes(d, own)
  /\ w \in [FileIds -> Blocks]
  /\ \A f \in FileIds : w[f] # 0 =>
       f \in L /\ w[f] \in FileIds /\ own[w[f]] = f /\ Link(d)[w[f]] = 0

LEMMA RestingWriters ==
  ASSUME NEW L, NEW own, BlockInvariantOf(L, own), pc # "write"
  PROVE  WritersRest(disk, writer, L, own)
  BY BlockSets DEF BlockInvariantOf, Writers, WritersRest

LEMMA WritersNext ==
  ASSUME NEW L, NEW own, WritersRest(disk', writer', L, own)
  PROVE  Writers(L, own)'
  BY DEF Writers, WritersRest

\* The sizes of the blocks, when one is written or none is.
LEMMA SizesFrame ==
  ASSUME NEW d, NEW e, NEW own, BlockSizes(d, own), \A b \in FileIds : e[b][0] = d[b][0]
  PROVE  BlockSizes(e, own)
  BY DEF BlockSizes

LEMMA SizesWrote ==
  ASSUME NEW d, NEW e, NEW own, BlockSizes(d, own), NEW b \in FileIds, NEW v, Wrote(d, e, b, v),
         own[b] = 0 => v[0] >= BlockSize, own[b] \notin {0, b} => v[0] > 1
  PROVE  BlockSizes(e, own)
<1>1. e[b] = v /\ \A c \in FileIds : c # b => e[c] = d[c]
  BY BlockSets DEF Wrote
<1>2. QED
  BY <1>1 DEF BlockSizes

\* The call goes on to another step.
LEMMA GoesOn ==
  ASSUME NEW L, NEW own, L \in SUBSET FileIds, own \in [FileIds -> Blocks],
         call'.before = call.before, L = DOMAIN call.before,
         DOMAIN call' = Fields, DiskOK(disk', L), WritersRest(disk', writer', L, own),
         \/ pc' = "find" /\ AtFind(L, own)'
         \/ pc' = "found" /\ AtFound(L, own)'
         \/ pc' \in {"size", "read"} /\ AtQuery(L, own)'
         \/ pc' = "scan" /\ AtScan(L, own)'
         \/ pc' = "link" /\ AtLink(L, own)'
         \/ pc' = "fill" /\ AtFill(L, own)'
         \/ pc' = "publish" /\ AtPublish(L, own)'
         \/ pc' = "write" /\ AtWrite(L, own)'
         \/ pc' = "commit" /\ AtCommit(L, own)'
         \/ pc' = "free" /\ AtFree(L, own)'
         \/ pc' = "freed" /\ AtFreed(L, own)'
         \/ pc' = "clear" /\ AtClear(L, own)'
         \/ pc' = "unlink" /\ AtUnlink(L, own)'
         \/ pc' = "deleted" /\ AtDeleted(L, own)'
  PROVE  BlockInvariant'
<1>1. Writers(L, own)' /\ BlockSizes(disk', own)
  BY WritersNext DEF WritersRest
<1>2. L = DOMAIN (call'.before)
  OBVIOUS
<1>3. BlockInvariantOf(L, own)'
  BY <1>1, <1>2 DEF BlockInvariantOf, Steps
<1>4. QED
  BY <1>3 DEF BlockInvariant

\* The call ends, or has ended.
LEMMA Rests ==
  ASSUME NEW L, NEW own, L \in SUBSET FileIds, own \in [FileIds -> Blocks],
         pc' \in {"idle", "done"}, DOMAIN call' = Fields, DiskOK(disk', L),
         WritersRest(disk', writer', L, own), Whole(disk', L, own)
  PROVE  BlockInvariant'
<1>1. Writers(L, own)' /\ BlockSizes(disk', own)
  BY WritersNext DEF WritersRest
<1>2. BlockInvariantOf(L, own)'
  BY <1>1 DEF BlockInvariantOf, Steps
<1>3. QED
  BY <1>2 DEF BlockInvariant

LEMMA DoneCall ==
  ASSUME NEW c, DOMAIN c = Fields, NEW s, Done(s, c)
  PROVE  pc' = "done" /\ DOMAIN call' = Fields
  BY DEF Done

LEMMA BeginCall ==
  ASSUME NEW L, NEW own, BlockInvariantOf(L, own), NEW c, DOMAIN c = Fields, Begin(c)
  PROVE  /\ pc = "idle" /\ Whole(disk, L, own) /\ DOMAIN (call'.before) = L
         /\ DOMAIN call' = Fields /\ c.op \in Ops
         /\ \A x \in Fields \ {"before", "from"} : call'[x] = c[x]
<1>1. pc = "idle" /\ Whole(disk, L, own) /\ L \in SUBSET FileIds
  BY DEF BlockInvariantOf, Begin
<1>2. call' = [c EXCEPT !.before = Files(disk), !.from = reader] /\ c.op \in Ops
  BY DEF Begin
<1>3. DOMAIN call' = Fields /\ call'.before = Files(disk)
      /\ \A x \in Fields \ {"before", "from"} : call'[x] = c[x]
  BY <1>2 DEF Fields
<1>4. DOMAIN Files(disk) = L
  BY <1>1, FilesAre DEF Whole
<1>5. QED
  BY <1>1, <1>2, <1>3, <1>4

\* The call begins with a step.
LEMMA Begins ==
  ASSUME NEW L, NEW own, L \in SUBSET FileIds, own \in [FileIds -> Blocks],
         L = DOMAIN (call'.before), DOMAIN call' = Fields,
         DiskOK(disk', L), WritersRest(disk', writer', L, own),
         \/ pc' = "find" /\ AtFind(L, own)'
         \/ pc' = "found" /\ AtFound(L, own)'
         \/ pc' = "read" /\ AtQuery(L, own)'
         \/ pc' = "write" /\ AtWrite(L, own)'
  PROVE  BlockInvariant'
<1>1. Writers(L, own)' /\ BlockSizes(disk', own)
  BY WritersNext DEF WritersRest
<1>2. BlockInvariantOf(L, own)'
  BY <1>1 DEF BlockInvariantOf, Steps
<1>3. QED
  BY <1>2 DEF BlockInvariant

\* What holds at all steps.
LEMMA InvariantFacts ==
  ASSUME NEW L, NEW own, BlockInvariantOf(L, own)
  PROVE  /\ L \in SUBSET FileIds /\ own \in [FileIds -> Blocks] /\ DOMAIN call = Fields
         /\ DiskOK(disk, L) /\ BlockSizes(disk, own) /\ pc \in Steps
         /\ pc \notin {"idle", "done"} => L = DOMAIN call.before
  BY DEF BlockInvariantOf

\* The list of files, from the first one.
LEMMA ListingFacts ==
  ASSUME NEW d, NEW L, L \in SUBSET FileIds, Listing(d, L)
  PROVE  /\ FirstFile(d) \in L \cup {0}
         /\ \A f \in L : /\ NextFile(d[f]) \in L \cup {0}
                         /\ NextFile(d[f]) # 0 => Name(d[f]) < Name(d[NextFile(d[f])])
         /\ \A f \in L : Name(d[f]) \in Names /\ Name(d[f]) \in Nat
<1>1. Directory(d, L, FirstFile(d), NextOf(d, L))
  BY DEF Listing
<1>2. /\ \A f \in L : Name(d[f]) \in Names /\ Name(d[f]) \in Nat
      /\ FirstFile(d) \in L \cup {0}
      /\ \A f \in L : NextOf(d, L)[f] \in L \cup {0}
                      /\ (NextOf(d, L)[f] # 0 => Name(d[f]) < Name(d[NextOf(d, L)[f]]))
  BY <1>1, DirectoryFacts, Zenon
<1>3. \A f \in L : NextOf(d, L)[f] = NextFile(d[f])
  BY DEF NextOf
<1>4. QED
  BY <1>2, <1>3

-----------------------------------------------------------------------------
(***************************************************************************)
(* The calls that look for a file, and the queries.                        *)
(***************************************************************************)
LEMMA FindKeeps ==
  ASSUME NEW L, NEW own, BlockInvariantOf(L, own),
         NEW op \in {"stat", "open_read", "open_write", "delete"}, NEW n \in Names, Find(op, n)
  PROVE  BlockInvariant'
<1> DEFINE c == [NoCall EXCEPT !.op = op, !.name = n, !.next = NextFile(disk[SUPER_BLOCK])]
<1>1. DOMAIN c = Fields /\ c.op = op /\ c.name = n /\ c.next = FirstFile(disk)
      /\ c.file = 0 /\ c.previous = 0
  BY DEF NoCall, Fields, FirstFile
<1>2. Begin(c) /\ pc' = "find" /\ disk' = disk /\ writer' = writer
  BY DEF Find, ReadBlock, Streams
<1> HIDE DEF c
<1>3. /\ pc = "idle" /\ Whole(disk, L, own) /\ DOMAIN (call'.before) = L /\ DOMAIN call' = Fields
      /\ \A x \in Fields \ {"before", "from"} : call'[x] = c[x]
  BY <1>1, <1>2, BeginCall, Zenon
<1>4. call'.op = op /\ call'.name = n /\ call'.next = FirstFile(disk)
      /\ call'.file = 0 /\ call'.previous = 0
  BY <1>1, <1>3 DEF Fields
<1>5. FirstFile(disk) \in L \cup {0}
  BY <1>3, InvariantFacts, ListingFacts DEF Whole
<1>6. AtFind(L, own)'
  BY <1>2, <1>3, <1>4, <1>5 DEF AtFind, Follows
<1>7. WritersRest(disk', writer', L, own) /\ DiskOK(disk', L)
  BY <1>2, <1>3, RestingWriters, InvariantFacts
<1>8. QED
  BY <1>2, <1>3, <1>6, <1>7, InvariantFacts, Begins

\* A step that does not write to the disk, nor opens a stream to write.
LEMMA SameDisk ==
  ASSUME NEW L, NEW own, BlockInvariantOf(L, own), pc # "write",
         disk' = disk, writer' = writer
  PROVE  WritersRest(disk', writer', L, own) /\ DiskOK(disk', L)
  BY RestingWriters, InvariantFacts

LEMMA FindStepKeeps ==
  ASSUME NEW L, NEW own, BlockInvariantOf(L, own), FindStep
  PROVE  BlockInvariant'
<1>1. pc = "find" /\ disk' = disk /\ writer' = writer
  BY DEF FindStep, ReadBlock, Streams
<1>2. AtFind(L, own) /\ DOMAIN call = Fields /\ L \in SUBSET FileIds
      /\ own \in [FileIds -> Blocks] /\ L = DOMAIN call.before
  BY <1>1 DEF BlockInvariantOf
<1>3. WritersRest(disk', writer', L, own) /\ DiskOK(disk', L)
  BY <1>1, SameDisk
<1>4. Whole(disk, L, own) /\ call.next \in L \cup {0}
      /\ \A f \in L : NextFile(disk[f]) \in L \cup {0}
  BY <1>2, ListingFacts DEF AtFind, Whole
<1>5. CASE Goto("found", call)
  <2>1. pc' = "found" /\ call' = call
    BY <1>5 DEF Goto
  <2>2. AtFound(L, own)'
    BY <1>1, <1>2, <2>1 DEF AtFind, AtFound, Follows
  <2>3. QED
    BY <1>2, <1>3, <2>1, <2>2, GoesOn
<1>6. CASE call.next # 0 /\ Goto("found", [call EXCEPT !.file = call.next])
  <2>1. pc' = "found" /\ DOMAIN call' = Fields /\ call'.before = call.before
        /\ call'.op = call.op /\ call'.name = call.name /\ call'.previous = call.previous
        /\ call'.file = call.next
    BY <1>2, <1>6 DEF Goto, Fields
  <2>2. AtFound(L, own)'
    BY <1>1, <1>2, <1>4, <1>6, <2>1 DEF AtFind, AtFound, Follows
  <2>3. QED
    BY <1>2, <1>3, <2>1, <2>2, GoesOn
<1>7. CASE /\ call.next # 0
           /\ Goto("find", [call EXCEPT !.next = NextFile(disk[call.next]),
                              !.previous = IF call.op = "delete" THEN call.next ELSE 0])
  <2>1. pc' = "find" /\ DOMAIN call' = Fields /\ call'.before = call.before
        /\ call'.op = call.op /\ call'.name = call.name /\ call'.file = call.file
        /\ call'.next = NextFile(disk[call.next])
        /\ call'.previous = IF call.op = "delete" THEN call.next ELSE 0
    BY <1>2, <1>7 DEF Goto, Fields
  <2>2. AtFind(L, own)'
    BY <1>1, <1>2, <1>4, <1>7, <2>1 DEF AtFind, Follows
  <2>3. QED
    BY <1>2, <1>3, <2>1, <2>2, GoesOn
<1>8. QED
  BY <1>5, <1>6, <1>7 DEF FindStep

LEMMA FindFailsKeeps ==
  ASSUME NEW L, NEW own, BlockInvariantOf(L, own), FindFails
  PROVE  BlockInvariant'
<1>1. pc = "found" /\ disk' = disk /\ writer' = writer /\ \E s : Done(s, call)
  BY DEF FindFails, Streams
<1>2. DOMAIN call = Fields /\ Whole(disk, L, own)
  BY <1>1 DEF BlockInvariantOf, AtFound
<1>3. pc' = "done" /\ DOMAIN call' = Fields
  BY <1>1, <1>2, DoneCall
<1>4. QED
  BY <1>1, <1>2, <1>3, SameDisk, InvariantFacts, Rests

LEMMA QueryKeeps ==
  ASSUME NEW L, NEW own, BlockInvariantOf(L, own),
         SizeStart \/ SizeStep \/ OpenRead \/ ReadStep
  PROVE  BlockInvariant'
<1>1. pc \in {"found", "size", "read"} /\ disk' = disk /\ writer' = writer
  BY DEF SizeStart, SizeStep, OpenRead, ReadStep, ReadBlock, Streams
<1>2. DOMAIN call = Fields /\ Whole(disk, L, own) /\ L \in SUBSET FileIds
      /\ own \in [FileIds -> Blocks] /\ L = DOMAIN call.before
  BY <1>1 DEF BlockInvariantOf, AtFound, AtQuery
<1>3. WritersRest(disk', writer', L, own) /\ DiskOK(disk', L)
  BY <1>1, SameDisk
<1>4. /\ DOMAIN call' = Fields
      /\ (pc' \in {"size", "read"} /\ call'.before = call.before) \/ pc' = "done"
  <2>1. CASE SizeStart
    BY <1>2, <2>1 DEF SizeStart, Goto, Fields
  <2>2. CASE SizeStep
    BY <1>2, <2>2 DEF SizeStep, Goto, Done, Fields
  <2>3. CASE OpenRead
    BY <1>2, <2>3 DEF OpenRead, Done, Fields
  <2>4. CASE ReadStep
    BY <1>2, <2>4 DEF ReadStep, Goto, Done, Fields
  <2>5. QED
    BY <2>1, <2>2, <2>3, <2>4
<1>5. Whole(disk', L, own)
  BY <1>1, <1>2
<1>6. CASE pc' = "done"
  BY <1>2, <1>3, <1>4, <1>5, <1>6, Rests
<1>7. CASE pc' \in {"size", "read"} /\ call'.before = call.before
  <2>1. AtQuery(L, own)'
    BY <1>5 DEF AtQuery
  <2>2. QED
    BY <1>2, <1>3, <1>4, <1>7, <2>1, GoesOn
<1>8. QED
  BY <1>4, <1>6, <1>7

LEMMA ReadKeeps ==
  ASSUME NEW L, NEW own, BlockInvariantOf(L, own), NEW size, Read(size)
  PROVE  BlockInvariant'
<1> DEFINE c == [NoCall EXCEPT !.op = "read", !.size = size]
<1>1. DOMAIN c = Fields
  BY DEF NoCall, Fields
<1>2. Begin(c) /\ pc' = "read" /\ disk' = disk /\ writer' = writer
  BY DEF Read, Streams
<1> HIDE DEF c
<1>3. pc = "idle" /\ Whole(disk, L, own) /\ DOMAIN (call'.before) = L /\ DOMAIN call' = Fields
  BY <1>1, <1>2, BeginCall, Zenon
<1>4. AtQuery(L, own)'
  BY <1>2, <1>3 DEF AtQuery
<1>5. WritersRest(disk', writer', L, own) /\ DiskOK(disk', L)
  BY <1>2, <1>3, SameDisk
<1>6. QED
  BY <1>2, <1>3, <1>4, <1>5, InvariantFacts, Begins

LEMMA CreateKeeps ==
  ASSUME NEW L, NEW own, BlockInvariantOf(L, own), NEW n \in Names, Create(n)
  PROVE  BlockInvariant'
<1> DEFINE c == [NoCall EXCEPT !.op = "create", !.name = n]
<1>1. DOMAIN c = Fields /\ c.op = "create" /\ c.name = n /\ c.file = 0 /\ c.previous = 0
  BY DEF NoCall, Fields
<1>2. Begin(c) /\ pc' = "found" /\ disk' = disk /\ writer' = writer
  BY DEF Create, Streams
<1> HIDE DEF c
<1>3. /\ pc = "idle" /\ Whole(disk, L, own) /\ DOMAIN (call'.before) = L /\ DOMAIN call' = Fields
      /\ \A x \in Fields \ {"before", "from"} : call'[x] = c[x]
  BY <1>1, <1>2, BeginCall, Zenon
<1>4. call'.op = "create" /\ call'.name = n /\ call'.file = 0 /\ call'.previous = 0
  BY <1>1, <1>3 DEF Fields
<1>5. AtFound(L, own)'
  BY <1>2, <1>3, <1>4 DEF AtFound
<1>6. WritersRest(disk', writer', L, own) /\ DiskOK(disk', L)
  BY <1>2, <1>3, SameDisk
<1>7. QED
  BY <1>2, <1>3, <1>5, <1>6, InvariantFacts, Begins

\* Between the calls.
LEMMA BetweenKeeps ==
  ASSUME NEW L, NEW own, BlockInvariantOf(L, own),
         Return \/ (\E f \in FileIds : CloseWriter(f)) \/ CloseReader
  PROVE  BlockInvariant'
<1>1. pc \in {"idle", "done"} /\ disk' = disk /\ pc' = "idle"
      /\ call' \in {call, NoCall}
  BY DEF Return, CloseWriter, CloseReader, Streams
<1>2. DOMAIN call' = Fields /\ Whole(disk', L, own) /\ DiskOK(disk', L)
  BY <1>1, CallFields DEF BlockInvariantOf
<1>3. WritersRest(disk, writer, L, own)
  BY <1>1, RestingWriters
<1>4. writer' = writer \/ \E f \in FileIds : writer' = [writer EXCEPT ![f] = 0]
  BY DEF Return, CloseWriter, CloseReader, Streams
<1>5. WritersRest(disk', writer', L, own)
  BY <1>1, <1>3, <1>4, BlockSets DEF WritersRest
<1>6. QED
  BY <1>1, <1>2, <1>5, InvariantFacts, Rests

-----------------------------------------------------------------------------
(***************************************************************************)
(* Creating a file.                                                        *)
(***************************************************************************)
LEMMA CreateStartKeeps ==
  ASSUME NEW L, NEW own, BlockInvariantOf(L, own), CreateStart
  PROVE  BlockInvariant'
<1>1. pc = "found" /\ disk' = disk /\ writer' = writer /\ call.file = 0
      /\ call.op \in {"open_write", "create"}
  BY DEF CreateStart, ReadBlock, Streams
<1>2. AtFound(L, own) /\ DOMAIN call = Fields /\ L \in SUBSET FileIds
      /\ own \in [FileIds -> Blocks] /\ L = DOMAIN call.before
  BY <1>1 DEF BlockInvariantOf
<1>3. WritersRest(disk', writer', L, own) /\ DiskOK(disk', L)
  BY <1>1, SameDisk
<1>4. Whole(disk, L, own) /\ call.previous = 0 /\ call.name \in Names
  BY <1>1, <1>2 DEF AtFound
<1>5. CASE Done(OUT_OF_MEMORY, call)
  <2>1. pc' = "done" /\ DOMAIN call' = Fields
    BY <1>2, <1>5, DoneCall
  <2>2. QED
    BY <1>1, <1>2, <1>3, <1>4, <2>1, Rests
<1>6. CASE /\ FreeHead(disk) # 0
           /\ Goto("scan", [call EXCEPT !.newFile = FreeHead(disk),
                              !.newFirst = FirstFile(disk), !.next = FirstFile(disk)])
  <2>1. pc' = "scan" /\ DOMAIN call' = Fields /\ call'.before = call.before
        /\ call'.name = call.name /\ call'.previous = 0 /\ call'.file = 0
        /\ call'.newFile = FreeHead(disk) /\ call'.newFirst = FirstFile(disk)
        /\ call'.next = FirstFile(disk)
    BY <1>1, <1>2, <1>4, <1>6 DEF Goto, Fields
  <2>2. FreeHead(disk) \in FileIds
    BY <1>2, <1>4, <1>6, LayoutFacts DEF Whole
  <2>3. NewBlock'
    BY <1>1, <2>1, <2>2 DEF NewBlock
  <2>4. Place(L)'
    BY <1>1, <1>4, <2>1 DEF Place, Follows
  <2>5. AtScan(L, own)'
    BY <1>1, <1>4, <2>1, <2>3, <2>4 DEF AtScan
  <2>6. QED
    BY <1>2, <1>3, <2>1, <2>5, GoesOn
<1>7. QED
  BY <1>5, <1>6 DEF CreateStart, FreeHead, FirstFile

LEMMA PlaceFacts ==
  ASSUME NEW L, NEW own, L \in SUBSET FileIds, Whole(disk, L, own), Place(L)
  PROVE  /\ call.previous \in L \cup {0} /\ call.next \in L \cup {0}
         /\ call.next # 0 => NextFile(disk[call.next]) \in L \cup {0}
  BY ListingFacts DEF Place, Follows, Whole

LEMMA CreateScanKeeps ==
  ASSUME NEW L, NEW own, BlockInvariantOf(L, own), CreateScan
  PROVE  BlockInvariant'
<1>1. pc = "scan" /\ disk' = disk /\ writer' = writer
  BY DEF CreateScan, ReadBlock, Streams
<1>2. AtScan(L, own) /\ DOMAIN call = Fields /\ L \in SUBSET FileIds
      /\ own \in [FileIds -> Blocks] /\ L = DOMAIN call.before
  BY <1>1 DEF BlockInvariantOf
<1>3. WritersRest(disk', writer', L, own) /\ DiskOK(disk', L)
  BY <1>1, SameDisk
<1>4. Whole(disk, L, own) /\ NewBlock /\ Place(L)
      /\ call.newFirst = FirstFile(disk) /\ call.file = 0
  BY <1>2 DEF AtScan
<1>5. /\ call.previous \in L \cup {0} /\ call.next \in L \cup {0}
      /\ call.next # 0 => NextFile(disk[call.next]) \in L \cup {0}
  BY <1>2, <1>4, PlaceFacts
<1>6. CASE Done(ALREADY_EXISTS, call)
  <2>1. pc' = "done" /\ DOMAIN call' = Fields
    BY <1>2, <1>6, DoneCall
  <2>2. QED
    BY <1>1, <1>2, <1>3, <1>4, <2>1, Rests
<1>7. CASE /\ Goto("link", call)
           /\ call.next # 0 => Name(disk[call.next]) > call.name
  <2>1. pc' = "link" /\ call' = call
    BY <1>7 DEF Goto
  <2>2. call.next # 0 => call.name < Name(disk[call.next])
    <3>1. call.name \in Nat
      BY <1>4, HeaderSizes DEF Place
    <3>2. call.next # 0 => Name(disk[call.next]) \in Nat
      BY <1>2, <1>4, <1>5, ListingFacts DEF Whole
    <3>3. QED
      BY <1>7, <3>1, <3>2
  <2>3. NewPlace(L)
    BY <1>4, <1>5, <2>2 DEF NewPlace, Place
  <2>4. AtLink(L, own)'
    BY <1>1, <1>4, <2>1, <2>3 DEF AtLink, NewPlace, Place, NewBlock
  <2>5. QED
    BY <1>2, <1>3, <2>1, <2>4, GoesOn
<1>8. CASE /\ call.next # 0 /\ Name(disk[call.next]) < call.name
           /\ Goto("scan", [call EXCEPT !.previous = call.next,
                              !.next = NextFile(disk[call.next])])
  <2>1. pc' = "scan" /\ DOMAIN call' = Fields /\ call'.before = call.before
        /\ call'.name = call.name /\ call'.file = 0
        /\ call'.newFile = call.newFile /\ call'.newFirst = call.newFirst
        /\ call'.previous = call.next /\ call'.next = NextFile(disk[call.next])
    BY <1>2, <1>4, <1>8 DEF Goto, Fields
  <2>2. Place(L)'
    BY <1>1, <1>4, <1>5, <1>8, <2>1 DEF Place, Follows
  <2>3. AtScan(L, own)'
    BY <1>1, <1>4, <2>1, <2>2 DEF AtScan, NewBlock
  <2>4. QED
    BY <1>2, <1>3, <2>1, <2>3, GoesOn
<1>9. QED
  BY <1>6, <1>7, <1>8 DEF CreateScan

\* A file of the list is changed but for its name and its next block.
SetsFile(d, e, b, n) == e = [d EXCEPT ![b] = [d[b] EXCEPT ![1] = n]]

FileIsSet(d, e, b, n, L) ==
  /\ DiskOK(e, L) /\ Link(e) = Link(d)
  /\ FreeHead(e) = FreeHead(d) /\ FirstFile(e) = FirstFile(d)
  /\ NextFile(e[b]) = n
  /\ \A f \in FileIds : Name(e[f]) = Name(d[f]) /\ e[f][0] = d[f][0]
  /\ \A f \in FileIds \ {b} : e[f] = d[f]

LEMMA WroteFileIs ==
  ASSUME NEW d, NEW L, DiskOK(d, L), NEW b \in FileIds, NEW n \in Nat,
         NEW e, SetsFile(d, e, b, n), L \in SUBSET FileIds
  PROVE  FileIsSet(d, e, b, n, L)
<1> DEFINE v == [d[b] EXCEPT ![1] = n]
<1>1. GoodBlock(d[b]) /\ b \in Blocks
  BY GoodBlocks, BlockSets
<1>2. GoodBlock(v) /\ v[1] = n /\ \A i \in Offsets \ {1} : v[i] = d[b][i]
  BY <1>1, SetFile
<1>3. e = [d EXCEPT ![b] = v]
  BY DEF SetsFile
<1> HIDE DEF v
<1>4. Wrote(d, e, b, v)
  BY <1>1, <1>3, WriteIsWrote, Zenon
<1>5. v[0] = d[b][0] /\ Name(v) = Name(d[b]) /\ NextFile(v) = n
  BY <1>2, BlockSets DEF Name, NextFile
<1>6. block_get_next(v) = block_get_next(d[b])
  BY <1>5 DEF block_get_next
<1>7. Link(e) = Link(d) /\ FreeHead(e) = FreeHead(d) /\ FirstFile(e) = FirstFile(d)
  BY <1>4, <1>6, WroteSameLink, Zenon
<1>8. DiskOK(e, L)
  <2>1. \A f \in L : IF f = b THEN HeaderSize(Name(v)) <= v[0] ELSE f \in L
    <3> TAKE f \in L
    <3>1. CASE f = b
      <4>1. HeaderSize(Name(d[b])) <= d[b][0]
        BY <3>1 DEF DiskOK
      <4>2. QED
        BY <1>5, <3>1, <4>1
    <3>2. QED
      BY <3>1
  <2>2. QED
    BY <1>2, <1>4, <2>1, WroteOK, Zenon
<1>9. e[b] = v /\ \A f \in FileIds \ {b} : e[f] = d[f]
  BY <1>4, BlockSets DEF Wrote
<1>10. QED
  BY <1>5, <1>7, <1>8, <1>9 DEF FileIsSet

LEMMA CreateLinkKeeps ==
  ASSUME NEW L, NEW own, BlockInvariantOf(L, own), CreateLink
  PROVE  BlockInvariant'
<1>1. pc = "link" /\ writer' = writer
  BY DEF CreateLink, Streams
<1>2. AtLink(L, own) /\ DOMAIN call = Fields /\ L \in SUBSET FileIds
      /\ own \in [FileIds -> Blocks] /\ L = DOMAIN call.before /\ DiskOK(disk, L)
  BY <1>1 DEF BlockInvariantOf
<1>3. WritersRest(disk, writer, L, own)
  BY <1>1, RestingWriters
<1>4. Whole(disk, L, own) /\ NewBlock /\ Place(L) /\ NewPlace(L)
      /\ call.newFirst = FirstFile(disk) /\ call.file = 0 /\ call.name \in Names
  BY <1>2 DEF AtLink, Place
<1>5. CASE /\ call.previous = 0 /\ disk' = disk
           /\ Goto("fill", [call EXCEPT !.newFirst = call.newFile])
  <2>1. pc' = "fill" /\ DOMAIN call' = Fields /\ call'.before = call.before
        /\ call'.name = call.name /\ call'.file = 0
        /\ call'.newFile = call.newFile /\ call'.newFirst = call.newFile
        /\ call'.previous = 0 /\ call'.next = call.next
    BY <1>2, <1>4, <1>5 DEF Goto, Fields
  <2>2. call.next = FirstFile(disk)
    BY <1>4, <1>5 DEF Place, Follows
  <2>3. NewPlace(L)' /\ NewBlock'
    BY <1>4, <1>5, <2>1 DEF NewPlace, NewBlock
  <2>4. AtFill(L, own)'
    BY <1>4, <1>5, <2>1, <2>2, <2>3 DEF AtFill, Whole
  <2>5. QED
    BY <1>1, <1>2, <1>3, <1>5, <2>1, <2>4, GoesOn
<1>6. CASE /\ call.previous # 0
           /\ disk' = [disk EXCEPT ![call.previous] = [disk[call.previous] EXCEPT ![1] = call.newFile]]
           /\ Goto("fill", call)
  <2>1. pc' = "fill" /\ call' = call
    BY <1>6 DEF Goto
  <2>2. call.previous \in L /\ call.previous \in FileIds /\ call.newFile \in Nat
        /\ call.next = NextFile(disk[call.previous])
    BY <1>2, <1>4, <1>6, BlockSets DEF Place, Follows, NewBlock
  <2>3. /\ DiskOK(disk', L) /\ Link(disk') = Link(disk)
        /\ FreeHead(disk') = FreeHead(disk) /\ FirstFile(disk') = FirstFile(disk)
        /\ NextFile(disk'[call.previous]) = call.newFile
        /\ \A f \in FileIds : Name(disk'[f]) = Name(disk[f]) /\ disk'[f][0] = disk[f][0]
        /\ \A f \in FileIds \ {call.previous} : disk'[f] = disk[f]
    <3>1. SetsFile(disk, disk', call.previous, call.newFile)
      BY <1>6 DEF SetsFile
    <3>2. FileIsSet(disk, disk', call.previous, call.newFile, L)
      BY <1>2, <2>2, <3>1, WroteFileIs, Zenon
    <3>3. QED
      BY <3>2 DEF FileIsSet
  <2>4. Layout(own, Link(disk'), L, FreeHead(disk'))
    BY <1>4, <2>3 DEF Whole
  <2>5. NewBlock'
    BY <1>4, <2>1, <2>3 DEF NewBlock
  <2>6. NewPlace(L)'
    BY <1>2, <1>4, <2>1, <2>3 DEF NewPlace
  <2>7. Directory(disk', L, FirstFile(disk'), [NextOf(disk', L) EXCEPT ![call.previous] = call.next])
    <3> DEFINE ng == [NextOf(disk', L) EXCEPT ![call.previous] = call.next]
    <3>1. \A f \in L : ng[f] = NextOf(disk, L)[f]
      <4> TAKE f \in L
      <4>1. CASE f = call.previous
        BY <2>2, <4>1 DEF NextOf
      <4>2. CASE f # call.previous
        <5>1. disk'[f] = disk[f]
          BY <1>2, <2>3, <4>2
        <5>2. QED
          BY <2>2, <4>2, <5>1 DEF NextOf
      <4>3. QED
        BY <4>1, <4>2
    <3> HIDE DEF ng
    <3>2. \A f \in L : Name(disk'[f]) = Name(disk[f]) /\ ng[f] = NextOf(disk, L)[f]
      BY <1>2, <2>3, <3>1
    <3>3. Directory(disk, L, FirstFile(disk), NextOf(disk, L))
      BY <1>4 DEF Whole, Listing
    <3>4. Directory(disk', L, FirstFile(disk), ng)
      BY <3>2, <3>3, DirectoryFrame, Zenon
    <3>5. QED
      BY <2>3, <3>4, Zenon DEF ng
  <2>8. AtFill(L, own)'
    BY <1>4, <1>6, <2>1, <2>3, <2>4, <2>5, <2>6, <2>7 DEF AtFill
  <2>9. WritersRest(disk', writer', L, own)
    BY <1>1, <1>3, <2>3, SizesFrame DEF WritersRest
  <2>10. QED
    BY <1>2, <2>1, <2>3, <2>8, <2>9, GoesOn
<1>7. QED
  BY <1>5, <1>6 DEF CreateLink, WriteBlock

\* The streams that write when a block is changed in which none writes, and
\* the blocks change hands but for those of the files that are written.
LinksKept(d, e, b) == \A c \in FileIds \ {b} : Link(e)[c] = Link(d)[c]
FilesKept(w, L, M) == \A f \in L : w[f] # 0 => f \in M
BlocksKept(w, L, own, o, b) ==
  \A c \in FileIds : own[c] \in L /\ w[own[c]] # 0 => o[c] = own[c] /\ c # b

LEMMA WritersMove ==
  ASSUME NEW d, NEW e, NEW w, NEW L, NEW own, NEW o, WritersRest(d, w, L, own),
         NEW b, LinksKept(d, e, b), NEW M, FilesKept(w, L, M), BlocksKept(w, L, own, o, b),
         BlockSizes(e, o)
  PROVE  WritersRest(e, w, M, o)
<1> SUFFICES ASSUME NEW f \in FileIds, w[f] # 0
             PROVE  f \in M /\ w[f] \in FileIds /\ o[w[f]] = f /\ Link(e)[w[f]] = 0
  BY DEF WritersRest
<1>1. f \in L /\ w[f] \in FileIds /\ own[w[f]] = f /\ Link(d)[w[f]] = 0
  BY DEF WritersRest
<1>2. o[w[f]] = f /\ w[f] # b
  BY <1>1 DEF BlocksKept
<1>3. QED
  BY <1>1, <1>2 DEF LinksKept, FilesKept

\* The file that is created, in the list.
LEMMA CreatedListing ==
  ASSUME NEW d, NEW e, NEW L, L \in SUBSET FileIds, NEW f \in FileIds, f \notin L,
         NEW p \in L \cup {0}, NEW x \in L \cup {0}, NEW head,
         Name(e[f]) \in Names, NextFile(e[f]) = x, \A g \in L : e[g] = d[g],
         p # 0 => Name(d[p]) < Name(e[f]), x # 0 => Name(e[f]) < Name(d[x]),
         IF p = 0
         THEN Listing(d, L) /\ head = f /\ x = FirstFile(d)
         ELSE /\ Directory(d, L, FirstFile(d), [NextOf(d, L) EXCEPT ![p] = x])
              /\ NextFile(d[p]) = f /\ head = FirstFile(d)
  PROVE  Directory(e, L \cup {f}, head, NextOf(e, L \cup {f}))
<1> DEFINE ng == NextOf(e, L \cup {f})
           nf == IF p = 0 THEN NextOf(d, L) ELSE [NextOf(d, L) EXCEPT ![p] = x]
<1>1. /\ Directory(d, L, FirstFile(d), nf)
      /\ p = 0 => x = FirstFile(d) /\ head = f
      /\ p # 0 => NextFile(d[p]) = f /\ head = FirstFile(d)
  BY DEF Listing
<1>2. /\ ng[f] = x /\ \A g \in L : ng[g] = NextFile(d[g])
  BY DEF NextOf
<1>3. /\ p # 0 => nf[p] = x
      /\ \A g \in L \ {p} : nf[g] = NextFile(d[g])
  BY DEF NextOf
<1> HIDE DEF ng, nf
<1>4. p # 0 => ng[p] = f
  BY <1>1, <1>2
<1>5. Inserted(nf, FirstFile(d), L, p, f, x, ng, head)
  BY <1>1, <1>2, <1>3, <1>4 DEF Inserted
<1>6. \A g \in L : Name(e[g]) = Name(d[g])
  OBVIOUS
<1>7. Directory(e, L \cup {f}, head, ng)
  BY <1>1, <1>5, <1>6, DirectoryInsert, Zenon
<1>8. QED
  BY <1>7 DEF ng

LEMMA CreateFillKeeps ==
  ASSUME NEW L, NEW own, BlockInvariantOf(L, own), CreateFill
  PROVE  BlockInvariant'
<1>0. PICK h : h = call.newFile
  OBVIOUS
<1> DEFINE v == FileHeader(disk[h], call.name, call.next)
           M == L \cup {h}
<1>1. pc = "fill" /\ writer' = writer /\ disk' = [disk EXCEPT ![h] = v] /\ pc' = "publish"
      /\ call' = [call EXCEPT !.newFree = block_get_next(disk[h])]
  BY <1>0 DEF CreateFill, Streams, WriteBlock, Goto
<1>2. AtFill(L, own) /\ DOMAIN call = Fields /\ L \in SUBSET FileIds
      /\ own \in [FileIds -> Blocks] /\ L = DOMAIN call.before /\ DiskOK(disk, L)
  BY <1>1 DEF BlockInvariantOf
<1>3. WritersRest(disk, writer, L, own)
  BY <1>1, RestingWriters
<1>4. Layout(own, Link(disk), L, h) /\ h \in FileIds /\ h = FreeHead(disk)
      /\ call.name \in Names /\ NewPlace(L) /\ call.file = 0
  BY <1>0, <1>2 DEF AtFill, NewBlock
<1>5. h \notin L /\ own[h] = 0 /\ h # 0 /\ h \in Blocks
  <2>1. h # 0 /\ h \in Blocks
    BY <1>4, BlockSets
  <2>2. h # 0 => h \in FileIds /\ own[h] = 0 /\ h \notin L
    <3>1. Layout(own, Link(disk), L, h) /\ L \in SUBSET FileIds
      BY <1>2, <1>4
    <3>2. QED
      BY <3>1, LayoutFacts, Zenon
  <2>3. QED
    BY <2>1, <2>2
<1>6. GoodBlock(disk[h])
  BY <1>2, <1>5, GoodBlocks
<1>7. GoodBlock(v) /\ block_get_next(v) = 0 /\ v[0] = HeaderSize(call.name)
      /\ NextFile(v) = call.next /\ Name(v) = call.name
  <2>1. call.next \in Nat /\ disk[h] \in [Offsets -> Nat]
    BY <1>2, <1>4, <1>6, BlockSets DEF NewPlace, GoodBlock
  <2>2. QED
    BY <1>4, <2>1, HeaderBlock
<1> HIDE DEF v
<1>8. Wrote(disk, disk', h, v)
  BY <1>1, <1>2, <1>5, WriteIsWrote, Zenon
<1>9. Link(disk') = [Link(disk) EXCEPT ![h] = 0]
      /\ FreeHead(disk') = FreeHead(disk) /\ FirstFile(disk') = FirstFile(disk)
  <2>1. h \in FileIds
    BY <1>4
  <2>2. block_get_next(v) = 0
    BY <1>7
  <2>3. LinkIsSet(disk, disk', h, 0)
    BY <1>8, <2>1, <2>2, WroteLink, Zenon
  <2>4. QED
    BY <2>3 DEF LinkIsSet
<1>10. disk'[h] = v /\ \A f \in L : disk'[f] = disk[f]
  BY <1>2, <1>5, <1>8, BlockSets DEF Wrote
<1>11. /\ DOMAIN call' = Fields /\ call'.before = call.before /\ call'.file = 0
       /\ call'.newFile = h /\ call'.newFirst = call.newFirst
       /\ call'.previous = call.previous /\ call'.next = call.next
       /\ call'.newFree = Link(disk)[h]
  BY <1>0, <1>1, <1>2, <1>4 DEF Fields, Link
<1>12. Link(disk) \in [FileIds -> Blocks]
  BY <1>2, DiskLinks
<1>12a. PICK o : o = [own EXCEPT ![h] = h]
  OBVIOUS
<1>13. Layout(o, Link(disk'), M, Link(disk)[h])
  <2>1. Layout([own EXCEPT ![h] = h], [Link(disk) EXCEPT ![h] = 0], L \cup {h}, Link(disk)[h])
    BY <1>2, <1>4, <1>5, <1>12, LayoutTake, Zenon
  <2>2. QED
    BY <1>9, <1>12a, <2>1, Zenon
<1>14. Directory(disk', M, call.newFirst, NextOf(disk', M))
  <2>1. call.previous \in L \cup {0} /\ call.next \in L \cup {0}
        /\ (call.previous # 0 => Name(disk[call.previous]) < call.name)
        /\ (call.next # 0 => call.name < Name(disk[call.next]))
    BY <1>4 DEF NewPlace
  <2>2. IF call.previous = 0
        THEN Listing(disk, L) /\ call.newFirst = h /\ call.next = FirstFile(disk)
        ELSE /\ Directory(disk, L, FirstFile(disk), [NextOf(disk, L) EXCEPT ![call.previous] = call.next])
             /\ NextFile(disk[call.previous]) = h /\ call.newFirst = FirstFile(disk)
    BY <1>0, <1>2 DEF AtFill
  <2>3. Name(disk'[h]) = call.name /\ NextFile(disk'[h]) = call.next
    BY <1>7, <1>10
  <2>4. /\ call.previous # 0 => Name(disk[call.previous]) < Name(disk'[h])
        /\ call.next # 0 => Name(disk'[h]) < Name(disk[call.next])
        /\ Name(disk'[h]) \in Names
    BY <1>4, <2>1, <2>3
  <2>5. QED
    BY <1>2, <1>4, <1>5, <1>10, <2>1, <2>2, <2>3, <2>4, CreatedListing
<1>15. call.previous = 0 => Listing(disk', L)
  <2>1. call.previous = 0 => Listing(disk, L)
    BY <1>2 DEF AtFill
  <2>2. QED
    BY <1>9, <1>10, <2>1, ListingFrame
<1>16. call.previous # 0 => call.newFirst = FirstFile(disk')
  BY <1>2, <1>9 DEF AtFill
<1>17. o \in [FileIds -> Blocks] /\ o[h] = h /\ M \in SUBSET FileIds
       /\ \A c \in FileIds : own[c] # 0 => o[c] = own[c] /\ c # h
  BY <1>2, <1>4, <1>5, <1>12a
<1>18. Link(disk)[h] \in Blocks /\ Link(disk')[h] = 0
  BY <1>4, <1>9, <1>12
<1>19. AtPublish(L, o)'
  <2>1. L \cup {call'.newFile} = M /\ call'.newFile \notin L
    BY <1>5, <1>11
  <2>2. NewBlock'
    BY <1>4, <1>9, <1>11 DEF NewBlock
  <2>3. Layout(o, Link(disk'), M, call'.newFree)
    BY <1>11, <1>13, Zenon
  <2>4. disk'[h][0] = HeaderSize(Name(disk'[h]))
    BY <1>7, <1>10
  <2>5. Directory(disk', M, call'.newFirst, NextOf(disk', M))
    BY <1>11, <1>14, Zenon
  <2>6. IF call'.previous = 0 THEN Listing(disk', L) ELSE call'.newFirst = FirstFile(disk')
    BY <1>11, <1>15, <1>16
  <2>7. call'.file = 0 /\ o[call'.newFile] = call'.newFile /\ Link(disk')[call'.newFile] = 0
        /\ call'.newFree \in Blocks
        /\ disk'[call'.newFile][0] = HeaderSize(Name(disk'[call'.newFile]))
    BY <1>11, <1>17, <1>18, <2>4
  <2> HIDE DEF M
  <2>8. QED
    BY <2>1, <2>2, <2>3, <2>5, <2>6, <2>7 DEF AtPublish
<1>20. WritersRest(disk', writer', L, o)
  <2>1. LinksKept(disk, disk', h)
    BY <1>9 DEF LinksKept
  <2>2. BlocksKept(writer, L, own, o, h)
    BY <1>2, <1>17, BlockSets DEF BlocksKept
  <2>3. WritersRest(disk', writer, L, o)
    <3>1. FilesKept(writer, L, L)
      BY DEF FilesKept
    <3>2. BlockSizes(disk', o)
      <4>1. \A c \in FileIds \ {h} : o[c] = own[c]
        BY <1>2, <1>4, <1>12a
      <4>2. BlockSizes(disk, o)
        BY <1>3, <1>17, <4>1 DEF WritersRest, BlockSizes
      <4>3. QED
        BY <1>4, <1>5, <1>8, <1>17, <4>2, SizesWrote
    <3>3. QED
      BY <1>3, <2>1, <2>2, <3>1, <3>2, WritersMove, Zenon
  <2>4. QED
    BY <1>1, <2>3
<1>21. DiskOK(disk', L)
  <2>1. \A f \in L : IF f = h THEN HeaderSize(Name(v)) <= v[0] ELSE f \in L
    BY <1>5
  <2>2. QED
    BY <1>2, <1>7, <1>8, <2>1, WroteOK, Zenon
<1>22. L \in SUBSET FileIds /\ L = DOMAIN call.before /\ pc' = "publish"
       /\ DOMAIN call' = Fields /\ call'.before = call.before /\ o \in [FileIds -> Blocks]
  BY <1>1, <1>2, <1>11, <1>17
<1>23. QED
  BY <1>19, <1>20, <1>21, <1>22, GoesOn

\* The new file is in the list of files.
LEMMA CreatePublishIs ==
  ASSUME NEW L, NEW own, BlockInvariantOf(L, own), CreatePublish
  PROVE  /\ L \cup {call.newFile} \in SUBSET FileIds /\ call.newFile \in FileIds /\ call.newFile \notin L
         /\ Whole(disk', L \cup {call.newFile}, own) /\ DiskOK(disk', L \cup {call.newFile})
         /\ \A g \in FileIds : disk'[g] = disk[g]
         /\ Link(disk')[call.newFile] = 0
         /\ disk'[call.newFile][0] = HeaderSize(Name(disk'[call.newFile]))
<1>0. PICK f : f = call.newFile
  OBVIOUS
<1> DEFINE u == [disk[SUPER_BLOCK] EXCEPT ![1] = call.newFirst]
           v == block_set_next(u, call.newFree)
           M == L \cup {f}
<1>1. pc = "publish" /\ writer' = [writer EXCEPT ![f] = f]
      /\ disk' = [disk EXCEPT ![SUPER_BLOCK] = v] /\ Done(OK, call)
  BY <1>0 DEF CreatePublish, WriteBlock
<1>2. AtPublish(L, own) /\ DOMAIN call = Fields /\ L \in SUBSET FileIds
      /\ own \in [FileIds -> Blocks] /\ L = DOMAIN call.before /\ DiskOK(disk, L)
  BY <1>1 DEF BlockInvariantOf
<1>4. /\ Layout(own, Link(disk), M, call.newFree) /\ f \in FileIds /\ f \notin L
      /\ disk[f][0] = HeaderSize(Name(disk[f])) /\ own[f] = f /\ Link(disk)[f] = 0
      /\ call.newFree \in Blocks
      /\ Directory(disk, M, call.newFirst, NextOf(disk, M))
  BY <1>0, <1>2 DEF AtPublish, NewBlock
<1>5. M \in SUBSET FileIds
  BY <1>2, <1>4
<1>6. call.newFirst \in Nat
  <2> HIDE DEF M
  <2>1. call.newFirst \in M \cup {0}
    BY <1>4, <1>5, DirectoryFacts, Zenon
  <2>2. QED
    <3>1. \A g \in M \cup {0} : g \in Nat
      BY <1>5, BlockSets
    <3>2. QED
      BY <2>1, <3>1, Zenon
<1>7. GoodBlock(disk[SUPER_BLOCK]) /\ SUPER_BLOCK \in Blocks
  BY <1>2, GoodBlocks, BlockSets
<1>8. GoodBlock(u) /\ u[1] = call.newFirst
  BY <1>6, <1>7, SetFile
<1> HIDE DEF u
<1>9. GoodBlock(v) /\ block_get_next(v) = call.newFree /\ NextFile(v) = call.newFirst
  <2>1. call.newFree \in Blocks /\ 1 \in Offsets \ {0}
    BY <1>4, BlockSets
  <2>2. GoodBlock(v) /\ block_get_next(v) = call.newFree /\ \A i \in Offsets \ {0} : v[i] = u[i]
    BY <1>8, <2>1, SetNext, Zenon
  <2> HIDE DEF v
  <2>3. QED
    BY <1>8, <2>1, <2>2 DEF NextFile
<1> HIDE DEF v
<1>10. Wrote(disk, disk', SUPER_BLOCK, v)
  BY <1>1, <1>2, <1>7, WriteIsWrote, Zenon
<1>11. /\ Link(disk') = Link(disk) /\ NextOf(disk', M) = NextOf(disk, M)
       /\ \A g \in FileIds : disk'[g] = disk[g]
       /\ FreeHead(disk') = call.newFree /\ FirstFile(disk') = call.newFirst
  BY <1>5, <1>9, <1>10, WroteSuper
<1>12. Listing(disk', M)
  <2>1. \A g \in M : Name(disk'[g]) = Name(disk[g]) /\ NextOf(disk', M)[g] = NextOf(disk, M)[g]
    BY <1>5, <1>11
  <2>2. Directory(disk', M, call.newFirst, NextOf(disk', M))
    BY <1>4, <2>1, DirectoryFrame
  <2>3. QED
    BY <1>11, <2>2 DEF Listing
<1>13. Whole(disk', M, own)
  BY <1>4, <1>11, <1>12 DEF Whole
<1>15. DiskOK(disk', M)
  <2>1. DiskOK(disk, M)
    <3>1. HeaderSize(Name(disk[f])) <= disk[f][0]
      <4>1. disk[f] \in [Offsets -> Nat] /\ 0 \in Offsets
        BY <1>2, <1>4, BlockSets DEF DiskOK
      <4>2. disk[f][0] \in Nat
        BY <4>1
      <4>3. QED
        BY <1>4, <4>2
    <3>2. QED
      BY <1>2, <3>1 DEF DiskOK
  <2>2. \A g \in M : IF g = SUPER_BLOCK THEN HeaderSize(Name(v)) <= v[0] ELSE g \in M
    BY <1>5, BlockSets
  <2>3. QED
    BY <1>5, <1>9, <1>10, <2>1, <2>2, WroteOK, Zenon
<1>16. Link(disk')[f] = 0 /\ disk'[f][0] = HeaderSize(Name(disk'[f]))
  BY <1>4, <1>11
<1>17. QED
  BY <1>0, <1>4, <1>5, <1>11, <1>13, <1>15, <1>16

LEMMA CreatePublishKeeps ==
  ASSUME NEW L, NEW own, BlockInvariantOf(L, own), CreatePublish
  PROVE  BlockInvariant'
<1>0. PICK f, M : f = call.newFile /\ M = L \cup {call.newFile}
  OBVIOUS
<1>1. pc = "publish" /\ writer' = [writer EXCEPT ![f] = f] /\ Done(OK, call)
  BY <1>0 DEF CreatePublish
<1>2. DOMAIN call = Fields /\ own \in [FileIds -> Blocks] /\ own[f] = f
  BY <1>0, <1>1 DEF BlockInvariantOf, AtPublish
<1>3. WritersRest(disk, writer, L, own)
  BY <1>1, RestingWriters
<1>4. /\ M \in SUBSET FileIds /\ f \in FileIds /\ f \in M /\ L \subseteq M
      /\ Whole(disk', M, own) /\ DiskOK(disk', M) /\ \A g \in FileIds : disk'[g] = disk[g]
      /\ Link(disk')[f] = 0
  BY <1>0, CreatePublishIs
<1>5. \A g \in FileIds : Link(disk')[g] = Link(disk)[g]
  BY <1>4 DEF Link
<1>6. WritersRest(disk', writer', M, own)
  <2>1. BlockSizes(disk', own)
    <3>1. BlockSizes(disk, own) /\ \A g \in FileIds : disk'[g][0] = disk[g][0]
      BY <1>3, <1>4 DEF WritersRest
    <3>2. QED
      BY <3>1, SizesFrame
  <2>2. writer \in [FileIds -> Blocks] /\ f \in Blocks
    BY <1>3, <1>4, BlockSets DEF WritersRest
  <2>3. writer' \in [FileIds -> Blocks] /\ writer'[f] = f
        /\ \A g \in FileIds \ {f} : writer'[g] = writer[g]
    BY <1>1, <1>4, <2>2
  <2>4. \A g \in FileIds : writer'[g] # 0 =>
          g \in M /\ writer'[g] \in FileIds /\ own[writer'[g]] = g /\ Link(disk')[writer'[g]] = 0
    <3> TAKE g \in FileIds
    <3> HAVE writer'[g] # 0
    <3>1. CASE g = f
      BY <1>2, <1>4, <2>3, <3>1
    <3>2. CASE g # f
      BY <1>3, <1>4, <1>5, <2>3, <3>2 DEF WritersRest
    <3>3. QED
      BY <3>1, <3>2
  <2>5. QED
    BY <2>1, <2>3, <2>4 DEF WritersRest
<1>7. pc' = "done" /\ DOMAIN call' = Fields
  BY <1>1, <1>2, DoneCall
<1>8. QED
  BY <1>2, <1>4, <1>6, <1>7, Rests

-----------------------------------------------------------------------------
(***************************************************************************)
(* Writing to a file.                                                      *)
(***************************************************************************)
LEMMA CutLast ==
  ASSUME NEW s \in [FileIds -> Blocks], NEW w, s[w] = 0
  PROVE  Cut(s, w) = s
  BY DEF Cut

LEMMA FirstBlocks ==
  ASSUME NEW own, NEW s, NEW L, NEW h, L \in SUBSET FileIds, Layout(own, s, L, h)
  PROVE  \A f \in L : own[f] = f
<1> SUFFICES ASSUME NEW f \in L
             PROVE  own[f] = f
  OBVIOUS
<1>1. Links(s, f, Own(own, f)) /\ 0 \notin Own(own, f)
  BY BlockSets DEF Layout, Own
<1>2. f \in Own(own, f)
  BY <1>1, ListHead, BlockSets, Zenon
<1>3. QED
  BY <1>2 DEF Own

LEMMA FreeIsFree ==
  ASSUME NEW L, NEW own, Whole(disk, L, own), L \in SUBSET FileIds
  PROVE  FreeHead(disk) # 0 => own[FreeHead(disk)] = 0 /\ FreeHead(disk) \in FileIds
<1>1. PICK h : h = FreeHead(disk)
  OBVIOUS
<1>2. Layout(own, Link(disk), L, h) /\ L \in SUBSET FileIds
  BY <1>1 DEF Whole
<1>3. h # 0 => h \in FileIds /\ own[h] = 0 /\ h \notin L
  BY <1>2, LayoutFacts, Zenon
<1>4. QED
  BY <1>1, <1>3

\* The bytes that are written are values of cells.
LEMMA WrittenBytes ==
  ASSUME NEW src \in Seq(Bytes)
  PROVE  src \in Seq(Nat)
<1>1. src \in Seq(Bytes) /\ Bytes \subseteq Nat
  BY BlockFSAssumption DEF BlockFSAssumption
<1>2. Len(src) \in Nat /\ src \in [1 .. Len(src) -> Bytes]
  BY <1>1
<1>3. src \in [1 .. Len(src) -> Nat]
  BY <1>1, <1>2
<1>4. QED
  BY <1>2, <1>3

LEMMA WriteKeeps ==
  ASSUME NEW L, NEW own, BlockInvariantOf(L, own),
         NEW f \in FileIds, NEW src \in Seq(Bytes), Write(f, src)
  PROVE  BlockInvariant'
<1> DEFINE c == [NoCall EXCEPT !.op = "write", !.file = f, !.bytes = src, !.written = src,
                   !.oldFree = FreeHead(disk), !.newFree = FreeHead(disk),
                   !.used = block_size(disk[writer[f]])]
<1>1. DOMAIN c = Fields /\ c.file = f /\ c.bytes = src /\ c.oldFree = FreeHead(disk)
      /\ c.newFree = FreeHead(disk) /\ c.used = disk[writer[f]][0]
  BY DEF NoCall, Fields, block_size
<1>2. writer[f] # 0 /\ Begin(c) /\ pc' = "write" /\ disk' = disk /\ writer' = writer
      /\ buffer' = disk[writer[f]]
  BY DEF Write, Streams, ReadBlock, FreeHead
<1> HIDE DEF c
<1>3. /\ pc = "idle" /\ Whole(disk, L, own) /\ DOMAIN (call'.before) = L /\ DOMAIN call' = Fields
      /\ \A x \in Fields \ {"before", "from"} : call'[x] = c[x]
  BY <1>1, <1>2, BeginCall, Zenon
<1>4. call'.file = f /\ call'.bytes = src /\ call'.oldFree = FreeHead(disk)
      /\ call'.newFree = FreeHead(disk) /\ call'.used = disk[writer[f]][0]
  BY <1>1, <1>3 DEF Fields
<1>5. WritersRest(disk', writer', L, own) /\ DiskOK(disk', L) /\ L \in SUBSET FileIds
      /\ own \in [FileIds -> Blocks]
  BY <1>2, <1>3, SameDisk, InvariantFacts
<1>6. f \in L /\ writer[f] \in FileIds /\ own[writer[f]] = f /\ Link(disk)[writer[f]] = 0
      /\ writer[f] \in Blocks
  BY <1>2, <1>5, BlockSets DEF WritersRest
<1>7. Link(disk) \in [FileIds -> Blocks] /\ FreeHead(disk) \in Blocks
      /\ Link(disk)[writer[f]] = block_get_next(disk[writer[f]])
  BY <1>2, <1>5, <1>6, DiskLinks
<1>8. Cut(Link(disk), writer[f]) = Link(disk)
  BY <1>6, <1>7, CutLast
<1>9. disk[writer[f]][0] \in 1 .. BlockSize
  <2>1. GoodBlock(disk[writer[f]])
    BY <1>2, <1>5, <1>6, GoodBlocks
  <2>2. disk[writer[f]][0] <= BlockSize
    BY <1>6, <1>7, <2>1, NextOfBlock
  <2>3. disk[writer[f]][0] \in Nat /\ disk[writer[f]][0] >= 1
    BY <2>1, BlockSets DEF GoodBlock
  <2>4. QED
    BY <2>2, <2>3, BlockSets
<1>10. writer[f] = f => HeaderSize(Name(disk[f])) <= disk[writer[f]][0]
  BY <1>2, <1>5, <1>6 DEF DiskOK
<1>10a. writer[f] # f => disk[writer[f]][0] + Len(src) > 1
  <2>1. Len(src) \in Nat
    BY WrittenBytes
  <2>2. writer[f] # f => disk[writer[f]][0] > 1
    BY <1>2, <1>5, <1>6, BlockSets DEF WritersRest, BlockSizes
  <2>3. QED
    BY <1>9, <2>1, <2>2
<1>11. src \in Seq(Nat)
  BY WrittenBytes
<1>12. FreeHead(disk) # 0 => own[FreeHead(disk)] = 0
  BY <1>3, <1>5, FreeIsFree
<1>13. Layout(own, Link(disk), L, FreeHead(disk)) /\ Listing(disk, L)
  BY <1>3 DEF Whole
<1>14. AtWrite(L, own)'
  <2>1. Layout(own, Cut(Link(disk), writer[f]), L, FreeHead(disk))
    BY <1>8, <1>13, Zenon
  <2>2. QED
    BY <1>2, <1>4, <1>6, <1>7, <1>9, <1>10, <1>10a, <1>11, <1>12, <1>13, <2>1 DEF AtWrite
<1>15. QED
  BY <1>2, <1>3, <1>5, <1>14, Begins

\* The block that is written, with more bytes.
Fills(v, at, src, n, c) == c = [CopyTo(v, at, src) EXCEPT ![0] = n]

IsFilled(v, at, n, c) ==
  GoodBlock(c) /\ c[0] = n /\ (at >= 3 => Name(c) = Name(v) /\ NextFile(c) = NextFile(v))

LEMMA FilledBlock ==
  ASSUME NEW v, GoodBlock(v), NEW at \in 1 .. BlockSize, NEW src \in Seq(Nat),
         NEW n \in Nat, n >= 1, n < BlockSize + NumBlocks, NEW c, Fills(v, at, src, n, c)
  PROVE  IsFilled(v, at, n, c)
<1>1. v \in [Offsets -> Nat] /\ at \in Nat
  BY BlockSets DEF GoodBlock
<1> DEFINE u == CopyTo(v, at, src)
<1>2. u \in [Offsets -> Nat] /\ \A i \in Offsets : i < at => u[i] = v[i]
  BY <1>1, CopyToBlock
<1>3. c = [u EXCEPT ![0] = n]
  BY DEF Fills
<1> HIDE DEF u
<1>4. GoodBlock([u EXCEPT ![0] = n]) /\ [u EXCEPT ![0] = n][0] = n
      /\ \A i \in Offsets \ {0} : [u EXCEPT ![0] = n][i] = u[i]
  BY <1>2, SetSize, Zenon
<1>5. GoodBlock(c) /\ c[0] = n /\ \A i \in Offsets \ {0} : c[i] = u[i]
  BY <1>3, <1>4, Zenon
<1>6. at >= 3 => c[1] = v[1] /\ c[2] = v[2]
  <2> HAVE at >= 3
  <2>1. 1 \in Offsets \ {0} /\ 2 \in Offsets \ {0} /\ 1 < at /\ 2 < at
    BY <1>1, BlockSets
  <2>2. QED
    BY <1>2, <1>5, <2>1
<1>7. QED
  BY <1>5, <1>6 DEF Name, NextFile, IsFilled

LEMMA PartOfBytes ==
  ASSUME NEW s \in Seq(Nat), NEW a \in Nat, a >= 1, NEW b \in Int, b <= Len(s)
  PROVE  SubSeq(s, a, b) \in Seq(Nat)
  OBVIOUS

\* What holds of the block that is written.
LEMMA WriteFacts ==
  ASSUME NEW L, NEW own, BlockInvariantOf(L, own), pc = "write"
  PROVE  /\ L \in SUBSET FileIds /\ own \in [FileIds -> Blocks] /\ DOMAIN call = Fields
         /\ DiskOK(disk, L) /\ L = DOMAIN call.before /\ Listing(disk, L)
         /\ call.file \in L /\ call.file \in FileIds /\ writer \in [FileIds -> Blocks]
         /\ writer[call.file] \in FileIds /\ writer[call.file] \in Blocks
         /\ own[writer[call.file]] = call.file
         /\ Layout(own, Cut(Link(disk), writer[call.file]), L, call.newFree)
         /\ Link(disk)[writer[call.file]] \in {0, call.newFree} /\ call.newFree \in Blocks
         /\ buffer = disk[writer[call.file]] /\ GoodBlock(buffer)
         /\ call.used \in 1 .. BlockSize /\ call.bytes \in Seq(Nat)
         /\ call.oldFree = FreeHead(disk)
         /\ call.oldFree # 0 => own[call.oldFree] \in {0, call.file}
         /\ writer[call.file] \in L =>
              /\ writer[call.file] = call.file /\ call.used >= 3
              /\ HeaderSize(Name(buffer)) \in Nat /\ HeaderSize(Name(buffer)) <= call.used
         /\ writer[call.file] # call.file => call.used + Len(call.bytes) > 1
         /\ BlockSizes(disk, own)
<1>1. /\ L \in SUBSET FileIds /\ own \in [FileIds -> Blocks] /\ DOMAIN call = Fields
      /\ DiskOK(disk, L) /\ BlockSizes(disk, own) /\ L = DOMAIN call.before /\ AtWrite(L, own) /\ Writers(L, own)
  BY DEF BlockInvariantOf
<1>2. call.file \in L /\ call.file \in FileIds /\ writer[call.file] # 0 /\ Listing(disk, L)
      /\ writer \in [FileIds -> Blocks] /\ own[writer[call.file]] = call.file
      /\ Layout(own, Cut(Link(disk), writer[call.file]), L, call.newFree)
      /\ Link(disk)[writer[call.file]] \in {0, call.newFree} /\ call.newFree \in Blocks
      /\ buffer = disk[writer[call.file]]
      /\ call.used \in 1 .. BlockSize /\ call.bytes \in Seq(Nat)
      /\ call.oldFree = FreeHead(disk)
      /\ (call.oldFree # 0 => own[call.oldFree] \in {0, call.file})
      /\ (writer[call.file] = call.file => HeaderSize(Name(disk[call.file])) <= call.used)
      /\ (writer[call.file] # call.file => call.used + Len(call.bytes) > 1)
  BY <1>1 DEF AtWrite, Writers
<1>3. writer[call.file] \in Blocks /\ writer[call.file] \in FileIds
  BY <1>2, BlockSets
<1>4. GoodBlock(disk[writer[call.file]])
  BY <1>1, <1>3, GoodBlocks
<1>5. \A g \in L : own[g] = g
  <2>1. Layout(own, Cut(Link(disk), writer[call.file]), L, call.newFree) /\ L \in SUBSET FileIds
    BY <1>1, <1>2
  <2>2. QED
    BY <2>1, FirstBlocks
<1>6. HeaderSize(Name(disk[call.file])) \in Nat /\ HeaderSize(Name(disk[call.file])) >= 3
  BY <1>1, <1>2, ListingFacts, HeaderSizes
<1>7. writer[call.file] \in L =>
        /\ writer[call.file] = call.file /\ call.used >= 3
        /\ HeaderSize(Name(buffer)) \in Nat /\ HeaderSize(Name(buffer)) <= call.used
  BY <1>2, <1>5, <1>6
<1>8. QED
  BY <1>1, <1>2, <1>3, <1>4, <1>7

\* The other streams that write, when a block of a file is written.
LEMMA OtherWriters ==
  ASSUME NEW L, NEW own, BlockInvariantOf(L, own), NEW g \in FileIds, g # call.file, writer[g] # 0
  PROVE  g \in L /\ writer[g] \in FileIds /\ own[writer[g]] = g /\ Link(disk)[writer[g]] = 0
<1>1. Writers(L, own)
  BY DEF BlockInvariantOf
<1>2. writer[g] \in Blocks
  BY <1>1 DEF Writers
<1>3. QED
  BY <1>1, <1>2, BlockSets DEF Writers

\* The file that is written keeps its place in the list of files.
LEMMA WrittenListing ==
  ASSUME NEW d, NEW e, NEW L, DiskOK(d, L), Listing(d, L), NEW w \in FileIds, NEW v, Wrote(d, e, w, v),
         L \in SUBSET FileIds, GoodBlock(v),
         w \in L => Name(v) = Name(d[w]) /\ NextFile(v) = NextFile(d[w])
                    /\ HeaderSize(Name(v)) <= v[0]
  PROVE  Listing(e, L) /\ DiskOK(e, L)
<1>1. e[w] = v /\ e[0] = d[0] /\ \A f \in L : f # w => e[f] = d[f]
  BY BlockSets DEF Wrote
<1>2. FirstFile(e) = FirstFile(d)
  BY <1>1, BlockSets DEF FirstFile
<1>3. \A f \in L : Name(e[f]) = Name(d[f]) /\ NextFile(e[f]) = NextFile(d[f])
  BY <1>1
<1>4. Listing(e, L)
  <2>1. Listing(d, L)
    OBVIOUS
  <2>2. QED
    BY <1>2, <1>3, <2>1, ListingFrame
<1>5. \A f \in L : IF f = w THEN HeaderSize(Name(v)) <= v[0] ELSE f \in L
  OBVIOUS
<1>6. DiskOK(e, L)
  BY <1>5, WroteOK, Zenon
<1>7. QED
  BY <1>4, <1>6

LEMMA WritesOn ==
  ASSUME NEW L, NEW own, L \in SUBSET FileIds, own \in [FileIds -> Blocks],
         call'.before = call.before, L = DOMAIN call.before, DOMAIN call' = Fields,
         DiskOK(disk', L), BlockSizes(disk', own), Writers(L, own)', pc' = "write",
         AtWrite(L, own)'
  PROVE  BlockInvariant'
<1>1. BlockInvariantOf(L, own)'
  BY DEF BlockInvariantOf, Steps
<1>2. QED
  BY <1>1 DEF BlockInvariant

\* The bytes that remain fit in the block.
LEMMA LastWriteKeeps ==
  ASSUME NEW L, NEW own, BlockInvariantOf(L, own), pc = "write",
         Len(call.bytes) <= BlockSize - call.used,
         WriteBlock(writer[call.file],
           [CopyTo(buffer, call.used, call.bytes) EXCEPT ![0] = call.used + Len(call.bytes)]),
         Goto("commit", call), writer' = writer
  PROVE  BlockInvariant'
<1>0. PICK w : w = writer[call.file]
  OBVIOUS
<1>1. PICK n : n = call.used + Len(call.bytes)
  OBVIOUS
<1>2. PICK v : v = [CopyTo(buffer, call.used, call.bytes) EXCEPT ![0] = n]
  OBVIOUS
<1>3. disk' = [disk EXCEPT ![w] = v] /\ pc' = "commit" /\ call' = call
  BY <1>0, <1>1, <1>2 DEF WriteBlock, Goto
<1>4. /\ L \in SUBSET FileIds /\ own \in [FileIds -> Blocks] /\ DOMAIN call = Fields
      /\ DiskOK(disk, L) /\ L = DOMAIN call.before /\ Listing(disk, L)
      /\ call.file \in L /\ call.file \in FileIds /\ writer \in [FileIds -> Blocks]
      /\ w \in FileIds /\ w \in Blocks /\ own[w] = call.file
      /\ Layout(own, Cut(Link(disk), w), L, call.newFree) /\ call.newFree \in Blocks
      /\ buffer = disk[w] /\ GoodBlock(buffer)
      /\ call.used \in 1 .. BlockSize /\ call.bytes \in Seq(Nat)
      /\ call.oldFree = FreeHead(disk)
      /\ (call.oldFree # 0 => own[call.oldFree] \in {0, call.file})
      /\ w \in L => /\ w = call.file /\ call.used >= 3
                    /\ HeaderSize(Name(buffer)) \in Nat /\ HeaderSize(Name(buffer)) <= call.used
      /\ (w # call.file => call.used + Len(call.bytes) > 1) /\ BlockSizes(disk, own)
  BY <1>0, WriteFacts
<1>5. n \in Nat /\ n >= 1 /\ n <= BlockSize /\ n < BlockSize + NumBlocks /\ call.used <= n
  BY <1>1, <1>4, BlockSets
<1>6. GoodBlock(v) /\ v[0] = n
      /\ (call.used >= 3 => Name(v) = Name(buffer) /\ NextFile(v) = NextFile(buffer))
  <2>1. Fills(buffer, call.used, call.bytes, n, v)
    BY <1>2 DEF Fills
  <2>2. IsFilled(buffer, call.used, n, v)
    BY <1>4, <1>5, <2>1, FilledBlock, Zenon
  <2>3. QED
    BY <2>2 DEF IsFilled
<1>7. block_get_next(v) = 0
  BY <1>5, <1>6, NextOfBlock
<1>8. Wrote(disk, disk', w, v)
  BY <1>3, <1>4, WriteIsWrote, Zenon
<1>9. Link(disk') = Cut(Link(disk), w) /\ FreeHead(disk') = FreeHead(disk)
  <2>1. LinkIsSet(disk, disk', w, 0)
    BY <1>4, <1>7, <1>8, WroteLink, Zenon
  <2>2. QED
    BY <2>1 DEF LinkIsSet, Cut
<1>10. Listing(disk', L) /\ DiskOK(disk', L)
  <2>1. w \in L => Name(v) = Name(disk[w]) /\ NextFile(v) = NextFile(disk[w])
                   /\ HeaderSize(Name(v)) <= v[0]
    <3> HAVE w \in L
    <3>1. Name(v) = Name(buffer) /\ NextFile(v) = NextFile(buffer)
          /\ HeaderSize(Name(buffer)) \in Nat /\ HeaderSize(Name(buffer)) <= call.used
      BY <1>4, <1>6
    <3>2. HeaderSize(Name(buffer)) <= n
      BY <1>4, <1>5, <3>1
    <3>3. QED
      BY <1>4, <1>6, <3>1, <3>2
  <2>2. QED
    BY <1>4, <1>6, <1>8, <2>1, WrittenListing, Zenon
<1>11. Link(disk) \in [FileIds -> Blocks]
  BY <1>4, DiskLinks
<1>11a. BlockSizes(disk', own)
  <2>1. own[w] # 0 /\ (w # call.file => n > 1)
    BY <1>1, <1>4, BlockSets
  <2>2. QED
    BY <1>4, <1>6, <1>8, <2>1, SizesWrote
<1>12. WritersRest(disk', writer', L, own)
  <2> SUFFICES ASSUME NEW g \in FileIds, writer[g] # 0
               PROVE  g \in L /\ writer[g] \in FileIds /\ own[writer[g]] = g
                      /\ Link(disk')[writer[g]] = 0
    BY <1>4, <1>11a DEF WritersRest
  <2>1. CASE g = call.file
    BY <1>0, <1>4, <1>9, <1>11, <2>1 DEF Cut
  <2>2. CASE g # call.file
    <3>1. g \in L /\ writer[g] \in FileIds /\ own[writer[g]] = g /\ Link(disk)[writer[g]] = 0
      BY <2>2, OtherWriters
    <3>2. writer[g] # w
      BY <1>4, <2>2, <3>1
    <3>3. QED
      BY <1>9, <1>11, <3>1, <3>2 DEF Cut
  <2>3. QED
    BY <2>1, <2>2
<1>13. AtCommit(L, own)'
  BY <1>3, <1>4, <1>9, <1>10 DEF AtCommit
<1>14. QED
  BY <1>3, <1>4, <1>10, <1>12, <1>13, GoesOn

\* There are no free blocks left.
LEMMA FullWriteKeeps ==
  ASSUME NEW L, NEW own, BlockInvariantOf(L, own), pc = "write", call.newFree = 0,
         Goto("commit", [call EXCEPT !.status = OUT_OF_MEMORY]),
         disk' = disk, writer' = writer
  PROVE  BlockInvariant'
<1>0. PICK w : w = writer[call.file]
  OBVIOUS
<1>1. /\ L \in SUBSET FileIds /\ own \in [FileIds -> Blocks] /\ DOMAIN call = Fields
      /\ DiskOK(disk, L) /\ L = DOMAIN call.before /\ Listing(disk, L)
      /\ call.file \in L /\ writer \in [FileIds -> Blocks]
      /\ w \in FileIds /\ own[w] = call.file
      /\ Layout(own, Cut(Link(disk), w), L, call.newFree)
      /\ Link(disk)[w] \in {0, call.newFree} /\ call.newFree \in Blocks
      /\ call.oldFree = FreeHead(disk)
      /\ (call.oldFree # 0 => own[call.oldFree] \in {0, call.file})
      /\ BlockSizes(disk, own)
  BY <1>0, WriteFacts
<1>2. pc' = "commit" /\ DOMAIN call' = Fields /\ call'.before = call.before
      /\ call'.file = call.file /\ call'.newFree = call.newFree /\ call'.oldFree = call.oldFree
  BY <1>1 DEF Goto, Fields
<1>3. Link(disk) \in [FileIds -> Blocks] /\ Link(disk)[w] = 0
  BY <1>1, DiskLinks
<1>4. Cut(Link(disk), w) = Link(disk)
  BY <1>1, <1>3, CutLast
<1>5. WritersRest(disk', writer', L, own)
  <2> SUFFICES ASSUME NEW g \in FileIds, writer[g] # 0
               PROVE  g \in L /\ writer[g] \in FileIds /\ own[writer[g]] = g
                      /\ Link(disk)[writer[g]] = 0
    BY <1>1 DEF WritersRest
  <2>1. CASE g = call.file
    BY <1>0, <1>1, <1>3, <2>1
  <2>2. CASE g # call.file
    BY <2>2, OtherWriters
  <2>3. QED
    BY <2>1, <2>2
<1>6. AtCommit(L, own)'
  <2>1. Layout(own, Link(disk), L, call.newFree)
    BY <1>1, <1>4
  <2>2. QED
    BY <1>1, <1>2, <2>1 DEF AtCommit
<1>7. QED
  BY <1>1, <1>2, <1>5, <1>6, GoesOn

\* The block is full, and linked to the next free one.
LEMMA NextWriteKeeps ==
  ASSUME NEW L, NEW own, BlockInvariantOf(L, own), pc = "write", call.newFree # 0,
         Len(call.bytes) > BlockSize - call.used,
         disk' = [disk EXCEPT ![writer[call.file]] = FillBlock(call.newFree)],
         buffer' = disk[call.newFree],
         writer' = [writer EXCEPT ![call.file] = call.newFree],
         Goto("write", [call EXCEPT !.newFree = block_get_next(disk[call.newFree]),
                          !.bytes = SubSeq(@, BlockSize - call.used + 1, Len(call.bytes)),
                          !.used = 1])
  PROVE  BlockInvariant'
<1>0. PICK w : w = writer[call.file]
  OBVIOUS
<1>1. PICK h : h = call.newFree
  OBVIOUS
<1>2. PICK f : f = call.file
  OBVIOUS
<1>3. PICK src : src = SubSeq(call.bytes, 1, BlockSize - call.used)
  OBVIOUS
<1>4. PICK v : v = [CopyTo(buffer, call.used, src) EXCEPT ![0] = h + BlockSize]
  OBVIOUS
<1>5. disk' = [disk EXCEPT ![w] = v]
  BY <1>0, <1>1, <1>3, <1>4 DEF FillBlock
<1>6. /\ L \in SUBSET FileIds /\ own \in [FileIds -> Blocks] /\ DOMAIN call = Fields
      /\ DiskOK(disk, L) /\ L = DOMAIN call.before /\ Listing(disk, L)
      /\ f \in L /\ f \in FileIds /\ writer \in [FileIds -> Blocks]
      /\ w \in FileIds /\ w \in Blocks /\ own[w] = f
      /\ Layout(own, Cut(Link(disk), w), L, h) /\ h \in Blocks
      /\ buffer = disk[w] /\ GoodBlock(buffer)
      /\ call.used \in 1 .. BlockSize /\ call.bytes \in Seq(Nat)
      /\ call.oldFree = FreeHead(disk)
      /\ (call.oldFree # 0 => own[call.oldFree] \in {0, f})
      /\ w \in L => /\ w = f /\ call.used >= 3
                    /\ HeaderSize(Name(buffer)) \in Nat /\ HeaderSize(Name(buffer)) <= call.used
      /\ BlockSizes(disk, own)
  BY <1>0, <1>1, <1>2, WriteFacts
<1>7. h # 0
  BY <1>1
<1>8. /\ pc' = "write" /\ DOMAIN call' = Fields /\ call'.before = call.before
      /\ call'.file = f /\ call'.oldFree = call.oldFree /\ call'.used = 1
      /\ call'.newFree = block_get_next(disk[h])
      /\ call'.bytes = SubSeq(call.bytes, BlockSize - call.used + 1, Len(call.bytes))
  BY <1>1, <1>2, <1>6 DEF Goto, Fields
<1>9. call'.bytes \in Seq(Nat) /\ src \in Seq(Nat)
  <2>1. BlockSize - call.used + 1 \in Nat /\ BlockSize - call.used + 1 >= 1
        /\ BlockSize - call.used \in Int /\ Len(call.bytes) \in Nat
        /\ BlockSize - call.used <= Len(call.bytes)
    BY <1>6, BlockSets
  <2>2. call'.bytes \in Seq(Nat)
    <3>1. PICK a : a = BlockSize - call.used + 1
      OBVIOUS
    <3>2. PICK b : b = Len(call.bytes)
      OBVIOUS
    <3>3. a \in Nat /\ a >= 1 /\ b \in Int /\ b <= Len(call.bytes) /\ call.bytes \in Seq(Nat)
      BY <1>6, <2>1, <3>1, <3>2
    <3>4. SubSeq(call.bytes, a, b) \in Seq(Nat)
      BY <3>3, PartOfBytes, Zenon
    <3>5. QED
      BY <1>8, <3>1, <3>2, <3>4, Zenon
  <2>3. SubSeq(call.bytes, 1, BlockSize - call.used) \in Seq(Nat)
    BY <1>6, <2>1, PartOfBytes
  <2>4. QED
    BY <1>3, <2>2, <2>3
<1>10. Link(disk) \in [FileIds -> Blocks]
       /\ \A b \in FileIds : Link(disk)[b] = block_get_next(disk[b])
  BY <1>6, DiskLinks
<1>11. Cut(Link(disk), w) \in [FileIds -> Blocks] /\ Cut(Link(disk), w)[w] = 0
       /\ \A b \in FileIds \ {w} : Cut(Link(disk), w)[b] = Link(disk)[b]
  BY <1>6, <1>10, BlockSets DEF Cut
<1>12. h \in FileIds /\ own[h] = 0 /\ own[f] = f
  <2>1. PICK s : s = Cut(Link(disk), w)
    OBVIOUS
  <2>2. Layout(own, s, L, h) /\ L \in SUBSET FileIds
    BY <1>6, <2>1
  <2>3. h # 0 => h \in FileIds /\ own[h] = 0 /\ h \notin L
    BY <2>2, LayoutFacts, Zenon
  <2>4. own[f] = f
    BY <1>6, <2>2, FirstBlocks
  <2>5. QED
    BY <1>7, <2>3, <2>4
<1>13. f # 0 /\ h # w /\ h # f
  BY <1>6, <1>12, BlockSets
<1>14. PICK o : o = [own EXCEPT ![h] = f]
  OBVIOUS
<1>15. /\ o \in [FileIds -> Blocks] /\ o[h] = f
       /\ \A b \in FileIds \ {h} : o[b] = own[b]
  BY <1>6, <1>12, <1>14, BlockSets
<1>16. GoodBlock(v) /\ v[0] = h + BlockSize
       /\ (call.used >= 3 => Name(v) = Name(buffer) /\ NextFile(v) = NextFile(buffer))
  <2>1. h + BlockSize \in Nat /\ h + BlockSize >= 1 /\ h + BlockSize < BlockSize + NumBlocks
    BY <1>6, BlockSets
  <2>2. PICK n : n = h + BlockSize
    OBVIOUS
  <2>3. n \in Nat /\ n >= 1 /\ n < BlockSize + NumBlocks
        /\ Fills(buffer, call.used, src, n, v)
    BY <1>4, <2>1, <2>2 DEF Fills
  <2>4. IsFilled(buffer, call.used, n, v)
    BY <1>6, <1>9, <2>3, FilledBlock, Zenon
  <2>5. QED
    BY <2>2, <2>4 DEF IsFilled
<1>17. block_get_next(v) = h
  BY <1>6, <1>7, <1>16, BlockSets DEF block_get_next
<1>18. Wrote(disk, disk', w, v)
  BY <1>5, <1>6, WriteIsWrote, Zenon
<1>19. Link(disk') = [Link(disk) EXCEPT ![w] = h] /\ FreeHead(disk') = FreeHead(disk)
  <2>1. LinkIsSet(disk, disk', w, h)
    BY <1>6, <1>17, <1>18, WroteLink, Zenon
  <2>2. QED
    BY <2>1 DEF LinkIsSet
<1>20. Listing(disk', L) /\ DiskOK(disk', L)
  <2>1. w \in L => Name(v) = Name(disk[w]) /\ NextFile(v) = NextFile(disk[w])
                   /\ HeaderSize(Name(v)) <= v[0]
    <3> HAVE w \in L
    <3>1. Name(v) = Name(buffer) /\ NextFile(v) = NextFile(buffer)
          /\ HeaderSize(Name(buffer)) \in Nat /\ HeaderSize(Name(buffer)) <= call.used
      BY <1>6, <1>16
    <3>2. HeaderSize(Name(buffer)) <= h + BlockSize
      BY <1>6, <3>1, BlockSets
    <3>3. QED
      BY <1>6, <1>16, <3>1, <3>2
  <2>2. QED
    BY <1>6, <1>16, <1>18, <2>1, WrittenListing, Zenon
<1>21. Layout(o, Cut(Link(disk'), h), L, Link(disk)[h])
  <2>1. PICK s : s = Cut(Link(disk), w)
    OBVIOUS
  <2>2. Layout(own, s, L, h) /\ s \in [FileIds -> Blocks] /\ s[w] = 0 /\ L \in SUBSET FileIds
    BY <1>6, <1>11, <2>1
  <2>3. Layout([own EXCEPT ![h] = f], [[s EXCEPT ![w] = h] EXCEPT ![h] = 0], L, s[h])
    BY <1>6, <1>7, <2>2, LayoutGrow, Zenon
  <2>4. s[h] = Link(disk)[h]
    BY <1>11, <1>12, <1>13, <2>1
  <2>5. [[s EXCEPT ![w] = h] EXCEPT ![h] = 0] = Cut(Link(disk'), h)
    BY <1>10, <1>19, <2>1 DEF Cut
  <2>6. QED
    BY <1>14, <2>3, <2>4, <2>5, Zenon
<1>22. call'.newFree = Link(disk)[h] /\ Link(disk')[h] = Link(disk)[h] /\ Link(disk)[h] \in Blocks
  BY <1>8, <1>10, <1>12, <1>13, <1>19
<1>23. writer' \in [FileIds -> Blocks] /\ writer'[f] = h
       /\ \A g \in FileIds \ {f} : writer'[g] = writer[g]
  BY <1>1, <1>2, <1>6
<1>24. disk'[h] = disk[h]
  BY <1>6, <1>13, <1>18, BlockSets DEF Wrote
<1>25. AtWrite(L, o)'
  <2>1. Layout(o, Cut(Link(disk'), writer'[f]), L, call'.newFree)
    BY <1>21, <1>22, <1>23, Zenon
  <2>2. Link(disk')[writer'[f]] \in {0, call'.newFree} /\ call'.newFree \in Blocks
    BY <1>22, <1>23
  <2>3. call'.oldFree = FreeHead(disk') /\ (call'.oldFree # 0 => o[call'.oldFree] \in {0, call'.file})
    <3>1. FreeHead(disk) # 0 => FreeHead(disk) \in FileIds
      BY <1>6, DiskLinks, BlockSets
    <3>2. FreeHead(disk) # 0 => o[FreeHead(disk)] \in {0, f}
      BY <1>6, <1>15, <3>1
    <3>3. QED
      BY <1>6, <1>8, <1>19, <3>2
  <2>4. buffer' = disk'[writer'[f]]
    BY <1>1, <1>23, <1>24
  <2>5. call'.used \in 1 .. BlockSize
    BY <1>8, BlockSets
  <2>6. f \in L /\ writer'[f] # 0 /\ writer'[f] # f
    BY <1>6, <1>7, <1>13, <1>23
  <2>7. call'.used + Len(call'.bytes) > 1
    <3>1. PICK n : n = Len(call.bytes)
      OBVIOUS
    <3>2. PICK a : a = BlockSize - call.used
      OBVIOUS
    <3>3. a \in Nat /\ n \in Nat /\ n > a
      BY <1>6, <3>1, <3>2, BlockSets
    <3>4. call'.bytes = SubSeq(call.bytes, a + 1, n)
      BY <1>8, <3>1, <3>2
    <3>5. Len(SubSeq(call.bytes, a + 1, n)) = n - a
      BY <1>6, <3>1, <3>3
    <3>6. Len(call'.bytes) = n - a /\ call'.used = 1
      BY <1>8, <3>4, <3>5, Zenon
    <3>7. QED
      BY <3>3, <3>6
  <2>8. QED
    BY <1>8, <1>9, <1>20, <2>1, <2>2, <2>3, <2>4, <2>5, <2>6, <2>7 DEF AtWrite
<1>26. Writers(L, o)'
  <2> SUFFICES ASSUME NEW g \in FileIds, writer'[g] # 0
               PROVE  g \in L /\ o[writer'[g]] = g
                      /\ (g = f \/ Link(disk')[writer'[g]] = 0)
    BY <1>8, <1>23 DEF Writers
  <2>1. CASE g = f
    BY <1>6, <1>15, <1>23, <2>1
  <2>2. CASE g # f
    <3>1. writer[g] # 0 /\ g # call.file /\ writer'[g] = writer[g]
      BY <1>2, <1>23, <2>2
    <3>2. g \in L /\ writer[g] \in FileIds /\ own[writer[g]] = g /\ Link(disk)[writer[g]] = 0
      BY <3>1, OtherWriters
    <3>3. writer[g] # w /\ writer[g] # h
      BY <1>6, <1>12, <2>2, <3>2, BlockSets
    <3>4. QED
      BY <1>10, <1>15, <1>19, <3>1, <3>2, <3>3
  <2>3. QED
    BY <2>1, <2>2
<1>27. BlockSizes(disk', o)
  <2>1. disk[h][0] > 1
    <3>1. disk[h][0] >= BlockSize /\ disk[h][0] \in Nat
      BY <1>6, <1>12, BlockSets DEF BlockSizes, DiskOK
    <3>2. QED
      BY <3>1, BlockSets
  <2>2. BlockSizes(disk, o)
    BY <1>6, <1>12, <1>13, <1>15, <2>1 DEF BlockSizes
  <2>3. o[w] = f /\ v[0] > 1
    BY <1>6, <1>12, <1>13, <1>15, <1>16, BlockSets
  <2>4. QED
    BY <1>6, <1>13, <1>18, <2>2, <2>3, SizesWrote
<1>28. QED
  BY <1>6, <1>8, <1>15, <1>20, <1>25, <1>26, <1>27, WritesOn

LEMMA WriteStepKeeps ==
  ASSUME NEW L, NEW own, BlockInvariantOf(L, own), WriteStep
  PROVE  BlockInvariant'
<1>1. pc = "write"
  BY DEF WriteStep
<1>2. CASE Len(call.bytes) <= BlockSize - call.used
           /\ WriteBlock(writer[call.file],
                [CopyTo(buffer, call.used, call.bytes) EXCEPT ![0] = call.used + Len(call.bytes)])
           /\ Goto("commit", call) /\ writer' = writer
  BY <1>1, <1>2, LastWriteKeeps, Zenon
<1>3. CASE /\ call.newFree = 0
           /\ Goto("commit", [call EXCEPT !.status = OUT_OF_MEMORY])
           /\ disk' = disk /\ writer' = writer
  BY <1>1, <1>3, FullWriteKeeps, Zenon
<1>4. CASE /\ call.newFree # 0 /\ Len(call.bytes) > BlockSize - call.used
           /\ disk' = [disk EXCEPT ![writer[call.file]] = FillBlock(call.newFree)]
           /\ buffer' = disk[call.newFree]
           /\ writer' = [writer EXCEPT ![call.file] = call.newFree]
           /\ Goto("write", [call EXCEPT !.newFree = block_get_next(disk[call.newFree]),
                               !.bytes = SubSeq(@, BlockSize - call.used + 1, Len(call.bytes)),
                               !.used = 1])
  BY <1>1, <1>4, NextWriteKeeps, Zenon
<1>5. QED
  BY <1>2, <1>3, <1>4, Zenon DEF WriteStep

-----------------------------------------------------------------------------
(***************************************************************************)
(* The first free block is changed.                                        *)
(***************************************************************************)
SetsHead(d, e, h) == e = [d EXCEPT ![SUPER_BLOCK] = block_set_next(d[SUPER_BLOCK], h)]

HeadIsSet(d, e, h, L) ==
  /\ DiskOK(e, L) /\ Listing(e, L) /\ Link(e) = Link(d) /\ FreeHead(e) = h
  /\ \A f \in FileIds : e[f] = d[f]

LEMMA WroteHead ==
  ASSUME NEW d, NEW L, DiskOK(d, L), L \in SUBSET FileIds, Listing(d, L), NEW h \in Blocks,
         NEW e, SetsHead(d, e, h)
  PROVE  HeadIsSet(d, e, h, L)
<1> DEFINE v == block_set_next(d[SUPER_BLOCK], h)
<1>1. GoodBlock(d[SUPER_BLOCK]) /\ SUPER_BLOCK \in Blocks
  BY GoodBlocks, BlockSets
<1>2. GoodBlock(v) /\ block_get_next(v) = h /\ \A i \in Offsets \ {0} : v[i] = d[SUPER_BLOCK][i]
  BY <1>1, SetNext
<1>3. e = [d EXCEPT ![SUPER_BLOCK] = v]
  BY DEF SetsHead
<1> HIDE DEF v
<1>4. Wrote(d, e, SUPER_BLOCK, v)
  BY <1>1, <1>3, WriteIsWrote, Zenon
<1>5. /\ Link(e) = Link(d) /\ \A f \in FileIds : e[f] = d[f]
      /\ FreeHead(e) = block_get_next(v) /\ FirstFile(e) = NextFile(v)
  BY <1>4, WroteSuper
<1>6. FirstFile(e) = FirstFile(d)
  BY <1>2, <1>5, BlockSets DEF FirstFile, NextFile
<1>7. Listing(e, L)
  <2>1. \A f \in L : Name(e[f]) = Name(d[f]) /\ NextFile(e[f]) = NextFile(d[f])
    BY <1>5
  <2>2. Listing(d, L)
    OBVIOUS
  <2>3. QED
    BY <1>6, <2>1, <2>2, ListingFrame
<1>8. DiskOK(e, L)
  <2>1. \A f \in L : IF f = SUPER_BLOCK THEN HeaderSize(Name(v)) <= v[0] ELSE f \in L
    BY BlockSets
  <2>2. QED
    BY <1>2, <1>4, <2>1, WroteOK, Zenon
<1>9. QED
  BY <1>2, <1>5, <1>7, <1>8 DEF HeadIsSet

\* The blocks that are not written yet are the free ones.
LEMMA WriteCommitIs ==
  ASSUME NEW L, NEW own, BlockInvariantOf(L, own), WriteCommit
  PROVE  /\ Whole(disk', L, own) /\ DiskOK(disk', L)
         /\ \A g \in FileIds : disk'[g] = disk[g]
         /\ FreeHead(disk') = call.newFree
<1>1. AtCommit(L, own) /\ L \in SUBSET FileIds /\ DiskOK(disk, L)
  BY DEF WriteCommit, BlockInvariantOf
<1>2. PICK h : h = call.newFree
  OBVIOUS
<1>3. Listing(disk, L) /\ Layout(own, Link(disk), L, h) /\ h \in Blocks
      /\ call.oldFree = FreeHead(disk)
  BY <1>1, <1>2 DEF AtCommit
<1>4. CASE h = FreeHead(disk) /\ disk' = disk
  <2>1. Whole(disk', L, own)
    BY <1>3, <1>4 DEF Whole
  <2>2. QED
    BY <1>1, <1>2, <1>4, <2>1
<1>5. CASE SetsHead(disk, disk', h)
  <2>1. HeadIsSet(disk, disk', h, L)
    BY <1>1, <1>3, <1>5, WroteHead, Zenon
  <2>2. /\ DiskOK(disk', L) /\ Listing(disk', L) /\ Link(disk') = Link(disk)
        /\ FreeHead(disk') = h /\ \A f \in FileIds : disk'[f] = disk[f]
    BY <2>1 DEF HeadIsSet
  <2>3. Whole(disk', L, own)
    BY <1>3, <2>2 DEF Whole
  <2>4. QED
    BY <1>2, <2>2, <2>3
<1>6. QED
  BY <1>2, <1>3, <1>4, <1>5 DEF WriteCommit, WriteBlock, SetsHead

LEMMA WriteCommitKeeps ==
  ASSUME NEW L, NEW own, BlockInvariantOf(L, own), WriteCommit
  PROVE  BlockInvariant'
<1>1. pc = "commit" /\ writer' = writer /\ Done(call.status, call)
  BY DEF WriteCommit, Streams
<1>2. DOMAIN call = Fields /\ L \in SUBSET FileIds /\ own \in [FileIds -> Blocks]
  BY <1>1 DEF BlockInvariantOf
<1>3. WritersRest(disk, writer, L, own)
  BY <1>1, RestingWriters
<1>4. Whole(disk', L, own) /\ DiskOK(disk', L) /\ \A g \in FileIds : disk'[g] = disk[g]
  BY WriteCommitIs
<1>5. WritersRest(disk', writer', L, own)
  <2>1. \A g \in FileIds : Link(disk')[g] = Link(disk)[g] /\ disk'[g][0] = disk[g][0]
    BY <1>4 DEF Link
  <2>2. QED
    BY <1>1, <1>3, <2>1, SizesFrame DEF WritersRest
<1>6. pc' = "done" /\ DOMAIN call' = Fields
  BY <1>1, <1>2, DoneCall
<1>7. QED
  BY <1>2, <1>4, <1>5, <1>6, Rests

-----------------------------------------------------------------------------
(***************************************************************************)
(* The blocks of a file become free.                                       *)
(***************************************************************************)
\* A block of a file, or a free one, is linked to another one.
SetsLink(d, e, b, x) == e = [d EXCEPT ![b] = block_set_next(d[b], x)]

LinkedTo(d, e, b, x, L) ==
  /\ DiskOK(e, L) /\ Listing(e, L) /\ LinkIsSet(d, e, b, x)
  /\ e[b][0] = x + BlockSize /\ \A f \in FileIds \ {b} : e[f] = d[f]
  /\ \A f \in FileIds : NextFile(e[f]) = NextFile(d[f])

LEMMA WroteNext ==
  ASSUME NEW d, NEW L, DiskOK(d, L), L \in SUBSET FileIds, Listing(d, L), NEW b \in FileIds,
         NEW x \in Blocks, NEW e, SetsLink(d, e, b, x)
  PROVE  LinkedTo(d, e, b, x, L)
<1> DEFINE v == block_set_next(d[b], x)
<1>1. GoodBlock(d[b]) /\ b \in Blocks
  BY GoodBlocks, BlockSets
<1>2. GoodBlock(v) /\ block_get_next(v) = x /\ \A i \in Offsets \ {0} : v[i] = d[b][i]
  BY <1>1, SetNext
<1>2a. v[0] = x + BlockSize
  BY <1>1, BlockSets DEF block_set_next, GoodBlock
<1>3. e = [d EXCEPT ![b] = v]
  BY DEF SetsLink
<1> HIDE DEF v
<1>4. Wrote(d, e, b, v)
  BY <1>1, <1>3, WriteIsWrote, Zenon
<1>5. Name(v) = Name(d[b]) /\ NextFile(v) = NextFile(d[b])
  BY <1>2, BlockSets DEF Name, NextFile
<1>6. b \in L => HeaderSize(Name(v)) <= v[0]
  <2> HAVE b \in L
  <2>1. Name(d[b]) \in Names
    BY ListingFacts
  <2>2. QED
    BY <1>2a, <1>5, <2>1, HeaderSizes, BlockSets
<1>7. Listing(e, L) /\ DiskOK(e, L)
  <2>1. b \in L => Name(v) = Name(d[b]) /\ NextFile(v) = NextFile(d[b]) /\ HeaderSize(Name(v)) <= v[0]
    BY <1>5, <1>6
  <2>2. QED
    BY <1>2, <1>4, <2>1, WrittenListing, Zenon
<1>8. LinkIsSet(d, e, b, x)
  BY <1>2, <1>4, WroteLink, Zenon
<1>9. \A f \in FileIds : NextFile(e[f]) = NextFile(d[f])
  BY <1>4, <1>5, BlockSets DEF Wrote
<1>10. e[b][0] = x + BlockSize /\ \A f \in FileIds \ {b} : e[f] = d[f]
  BY <1>2a, <1>4, BlockSets DEF Wrote
<1>11. QED
  BY <1>7, <1>8, <1>9, <1>10 DEF LinkedTo

\* What follows a block.
BlockFacts(own, s, L, h, b) ==
  /\ own[b] \in L \cup {0}
  /\ s[b] # 0 => /\ s[b] \in FileIds /\ own[s[b]] = own[b]
                 /\ s[b] # b /\ s[b] # own[b] /\ s[b] # h

LEMMA NextBlock ==
  ASSUME NEW own, NEW s, NEW L, NEW h, L \in SUBSET FileIds, Layout(own, s, L, h),
         NEW c \in FileIds
  PROVE  BlockFacts(own, s, L, h, c)
<1>1. /\ own[c] \in L \cup {0}
      /\ s[c] # 0 => /\ s[c] \in FileIds /\ own[s[c]] = own[c]
                     /\ s[c] # c /\ s[c] # own[c] /\ s[c] # h
  BY LayoutFacts
<1>2. QED
  BY <1>1 DEF BlockFacts

\* What holds while the blocks of a file become free.
LEMMA FreeFacts ==
  ASSUME NEW L, NEW own, BlockInvariantOf(L, own), pc = "free"
  PROVE  /\ L \in SUBSET FileIds /\ own \in [FileIds -> Blocks] /\ DOMAIN call = Fields
         /\ DiskOK(disk, L) /\ L = DOMAIN call.before /\ Listing(disk, L)
         /\ WritersRest(disk, writer, L, own)
         /\ Layout(own, Link(disk), L, FreeHead(disk))
         /\ Link(disk) \in [FileIds -> Blocks] /\ FreeHead(disk) \in Blocks
         /\ \A b \in FileIds : Link(disk)[b] = block_get_next(disk[b])
         /\ call.file \in L /\ call.file \in FileIds /\ call.file # 0 /\ writer[call.file] = 0
         /\ call.op \in {"open_write", "delete"} /\ call.oldFree = FreeHead(disk)
         /\ call.block \in FileIds /\ own[call.block] = call.file /\ buffer = disk[call.block]
         /\ call.op = "delete" =>
              /\ Follows(disk, L, call.previous, call.file)
              /\ call.next = NextFile(disk[call.file]) /\ call.newFirst = FirstFile(disk)
         /\ call.op # "delete" =>
              /\ call.newFree = Link(disk)[call.file] /\ call.newFree # 0
              /\ call.block # call.file
         /\ FreeHead(disk) # 0 => own[FreeHead(disk)] = 0
<1>1. /\ L \in SUBSET FileIds /\ own \in [FileIds -> Blocks] /\ DOMAIN call = Fields
      /\ DiskOK(disk, L) /\ L = DOMAIN call.before /\ AtFree(L, own)
  BY DEF BlockInvariantOf
<1>2. WritersRest(disk, writer, L, own)
  BY RestingWriters
<1>3. Link(disk) \in [FileIds -> Blocks] /\ FreeHead(disk) \in Blocks
      /\ \A b \in FileIds : Link(disk)[b] = block_get_next(disk[b])
  BY <1>1, DiskLinks
<1>4. Whole(disk, L, own)
  BY <1>1 DEF AtFree
<1>5. FreeHead(disk) # 0 => own[FreeHead(disk)] = 0
  BY <1>1, <1>4, FreeIsFree
<1>6. QED
  BY <1>1, <1>2, <1>3, <1>4, <1>5, BlockSets DEF AtFree, Closed, Whole, Own

\* The loop goes on with the next block.
LEMMA FreeNextKeeps ==
  ASSUME NEW L, NEW own, BlockInvariantOf(L, own), pc = "free", disk' = disk, writer' = writer,
         block_get_next(buffer) # 0, buffer' = disk[block_get_next(buffer)],
         Goto("free", [call EXCEPT !.block = block_get_next(buffer)])
  PROVE  BlockInvariant'
<1>1. PICK b : b = block_get_next(buffer)
  OBVIOUS
<1>2. /\ L \in SUBSET FileIds /\ own \in [FileIds -> Blocks] /\ DOMAIN call = Fields
      /\ DiskOK(disk, L) /\ L = DOMAIN call.before /\ Listing(disk, L)
      /\ WritersRest(disk, writer, L, own)
      /\ Layout(own, Link(disk), L, FreeHead(disk))
      /\ call.file \in L /\ writer[call.file] = 0
      /\ call.op \in {"open_write", "delete"} /\ call.oldFree = FreeHead(disk)
      /\ call.block \in FileIds /\ own[call.block] = call.file
      /\ Link(disk)[call.block] = b
      /\ (call.op = "delete" =>
            /\ Follows(disk, L, call.previous, call.file)
            /\ call.next = NextFile(disk[call.file]) /\ call.newFirst = FirstFile(disk))
      /\ (call.op # "delete" =>
            /\ call.newFree = Link(disk)[call.file] /\ call.newFree # 0)
  BY <1>1, FreeFacts
<1>3. /\ pc' = "free" /\ DOMAIN call' = Fields /\ call'.before = call.before
      /\ call'.op = call.op /\ call'.file = call.file /\ call'.block = b
      /\ call'.oldFree = call.oldFree /\ call'.newFree = call.newFree
      /\ call'.previous = call.previous /\ call'.next = call.next
      /\ call'.newFirst = call.newFirst /\ b # 0 /\ buffer' = disk[b]
  BY <1>1, <1>2 DEF Goto, Fields
<1>4. b \in FileIds /\ own[b] = call.file /\ b # call.file
  <2>1. PICK h : h = FreeHead(disk)
    OBVIOUS
  <2>2. Layout(own, Link(disk), L, h) /\ L \in SUBSET FileIds
    BY <1>2, <2>1
  <2>3. PICK c : c = call.block
    OBVIOUS
  <2>4. PICK k : k = Link(disk)
    OBVIOUS
  <2>5. c \in FileIds /\ Layout(own, k, L, h)
    BY <1>2, <2>2, <2>3, <2>4
  <2>6. BlockFacts(own, k, L, h, c)
    BY <2>2, <2>5, NextBlock, Zenon
  <2>7. k[c] = b /\ own[c] = call.file
    BY <1>2, <2>3, <2>4
  <2>8. QED
    BY <1>3, <2>6, <2>7 DEF BlockFacts
<1>5. AtFree(L, own)'
  BY <1>2, <1>3, <1>4 DEF AtFree, Closed, Whole, Own, Follows
<1>6. QED
  BY <1>2, <1>3, <1>5, GoesOn

\* The free blocks are put after the last block of the file.
LEMMA FreeLastKeeps ==
  ASSUME NEW L, NEW own, BlockInvariantOf(L, own), pc = "free", writer' = writer,
         block_get_next(buffer) = 0,
         WriteBlock(call.block, block_set_next(buffer, call.oldFree)),
         Goto(IF call.op = "delete" THEN "unlink" ELSE "freed", call)
  PROVE  BlockInvariant'
<1>0. PICK f : f = call.file
  OBVIOUS
<1>1. PICK z : z = call.block
  OBVIOUS
<1>2. PICK h : h = FreeHead(disk)
  OBVIOUS
<1>3. PICK s : s = Link(disk)
  OBVIOUS
<1>4. /\ L \in SUBSET FileIds /\ own \in [FileIds -> Blocks] /\ DOMAIN call = Fields
      /\ DiskOK(disk, L) /\ L = DOMAIN call.before /\ Listing(disk, L)
      /\ WritersRest(disk, writer, L, own)
      /\ Layout(own, s, L, h) /\ s \in [FileIds -> Blocks] /\ h \in Blocks
      /\ f \in L /\ f \in FileIds /\ f # 0 /\ writer[f] = 0
      /\ call.op \in {"open_write", "delete"} /\ call.oldFree = h
      /\ z \in FileIds /\ own[z] = f /\ buffer = disk[z] /\ s[z] = 0
      /\ (call.op = "delete" =>
            /\ Follows(disk, L, call.previous, f)
            /\ call.next = NextFile(disk[f]) /\ call.newFirst = FirstFile(disk))
      /\ (call.op # "delete" => call.newFree = s[f] /\ call.newFree # 0 /\ z # f)
      /\ (h # 0 => own[h] = 0)
  BY <1>0, <1>1, <1>2, <1>3, FreeFacts
<1>5. SetsLink(disk, disk', z, h) /\ call' = call
  BY <1>1, <1>4 DEF WriteBlock, SetsLink, Goto
<1>6. LinkedTo(disk, disk', z, h, L)
  BY <1>4, <1>5, WroteNext, Zenon
<1>7. /\ DiskOK(disk', L) /\ Listing(disk', L) /\ Link(disk') = [s EXCEPT ![z] = h]
      /\ FreeHead(disk') = h /\ FirstFile(disk') = FirstFile(disk)
      /\ \A g \in FileIds : NextFile(disk'[g]) = NextFile(disk[g])
  BY <1>2, <1>3, <1>6 DEF LinkedTo, LinkIsSet
<1>7a. /\ \A b \in FileIds : own[b] = f => disk'[b][0] >= BlockSize
       /\ \A b \in FileIds : own[b] # f => disk'[b] = disk[b]
  <2>1. disk'[z][0] = h + BlockSize /\ \A b \in FileIds \ {z} : disk'[b] = disk[b]
    BY <1>6 DEF LinkedTo
  <2>2. ASSUME NEW b \in FileIds, own[b] = f, b # z
        PROVE  disk[b][0] > BlockSize
    <3>1. Links(s, f, Own(own, f)) /\ b \in Own(own, f) /\ z \in Own(own, f) /\ 0 \notin Own(own, f)
      BY <1>4, <2>2, BlockSets DEF Layout, Own
    <3>2. s[b] # 0
      BY <1>4, <2>2, <3>1, LastIsOne
    <3>3. GoodBlock(disk[b]) /\ block_get_next(disk[b]) # 0
      BY <1>3, <1>4, <3>2, BlockSets, DiskLinks, GoodBlocks
    <3>4. disk[b][0] \in Nat
      BY <3>3, BlockSets DEF GoodBlock
    <3>5. QED
      BY <3>3, <3>4, NextOfBlock, BlockSets
  <2>3. ASSUME NEW b \in FileIds, own[b] = f
        PROVE  disk'[b][0] >= BlockSize
    <3>1. CASE b = z
      BY <1>4, <2>1, <3>1, BlockSets
    <3>2. CASE b # z
      <4>1. disk[b][0] > BlockSize /\ disk[b][0] \in Nat
        BY <1>4, <2>2, <2>3, <3>2, BlockSets DEF DiskOK
      <4>2. QED
        BY <2>1, <3>2, <4>1, BlockSets
    <3>3. QED
      BY <3>1, <3>2
  <2>4. \A b \in FileIds : own[b] # f => disk'[b] = disk[b]
    BY <1>4, <2>1
  <2>5. QED
    BY <2>3, <2>4
<1>8. LinksKept(disk, disk', z)
  BY <1>3, <1>4, <1>7 DEF LinksKept
<1>9. FilesKept(writer, L, L)
  BY DEF FilesKept
<1>10. CASE call.op = "delete"
  <2>1. PICK o : o = [b \in FileIds |-> IF own[b] = f THEN 0 ELSE own[b]]
    OBVIOUS
  <2>2. Layout(o, Link(disk'), L \ {f}, f)
    <3>1. Layout([b \in FileIds |-> IF own[b] = f THEN 0 ELSE own[b]],
                 [s EXCEPT ![z] = h], L \ {f}, f)
      BY <1>4, LayoutDelete, Zenon
    <3>2. QED
      BY <1>7, <2>1, <3>1, Zenon
  <2>3. o \in [FileIds -> Blocks] /\ \A b \in FileIds : own[b] # f => o[b] = own[b]
    BY <1>4, <2>1, BlockSets
  <2>4. h # 0 => o[h] = 0
    BY <1>4, <2>3, BlockSets
  <2>5. BlocksKept(writer, L, own, o, z)
    BY <1>4, <2>3 DEF BlocksKept
  <2>6. WritersRest(disk', writer, L, o)
    <3>1. BlockSizes(disk', o)
      BY <1>4, <1>7a, <2>1 DEF BlockSizes, WritersRest
    <3>2. QED
      BY <1>4, <1>8, <1>9, <2>5, <3>1, WritersMove, Zenon
  <2>7. Follows(disk', L, call.previous, f)
    BY <1>4, <1>7, <1>10 DEF Follows
  <2>8. AtUnlink(L, o)'
    BY <1>0, <1>4, <1>5, <1>7, <1>10, <2>2, <2>4, <2>7 DEF AtUnlink, Closed
  <2>9. pc' = "unlink"
    BY <1>10 DEF Goto
  <2>10. QED
    BY <1>4, <1>5, <1>7, <2>3, <2>6, <2>8, <2>9, GoesOn
<1>11. CASE call.op = "open_write"
  <2>1. PICK o : o = [b \in FileIds |-> IF own[b] = f /\ b # f THEN 0 ELSE own[b]]
    OBVIOUS
  <2>2. call.newFree = s[f] /\ call.newFree # 0 /\ z # f
    BY <1>4, <1>11
  <2>3. Layout(o, Cut(Link(disk'), f), L, call.newFree)
    <3>1. Layout([b \in FileIds |-> IF own[b] = f /\ b # f THEN 0 ELSE own[b]],
                 [[s EXCEPT ![z] = h] EXCEPT ![f] = 0], L, s[f])
      BY <1>4, <2>2, LayoutClear, Zenon
    <3>2. Cut(Link(disk'), f) = [[s EXCEPT ![z] = h] EXCEPT ![f] = 0]
      BY <1>7 DEF Cut
    <3>3. QED
      BY <2>1, <2>2, <3>1, <3>2, Zenon
  <2>4. o \in [FileIds -> Blocks] /\ \A b \in FileIds : own[b] # f => o[b] = own[b]
    BY <1>4, <2>1, BlockSets
  <2>5. h # 0 => o[h] = 0
    BY <1>4, <2>4, BlockSets
  <2>6. BlocksKept(writer, L, own, o, z)
    BY <1>4, <2>4 DEF BlocksKept
  <2>7. WritersRest(disk', writer, L, o)
    <3>1. BlockSizes(disk', o)
      BY <1>4, <1>7a, <2>1 DEF BlockSizes, WritersRest
    <3>2. QED
      BY <1>4, <1>8, <1>9, <2>6, <3>1, WritersMove, Zenon
  <2>8. call.newFree \in FileIds /\ Link(disk')[f] = call.newFree
    BY <1>4, <1>7, <2>2, BlockSets
  <2>9. AtFreed(L, o)'
    BY <1>0, <1>4, <1>5, <1>7, <2>3, <2>5, <2>8 DEF AtFreed, Closed
  <2>10. pc' = "freed"
    BY <1>11 DEF Goto
  <2>11. QED
    BY <1>4, <1>5, <1>7, <2>4, <2>7, <2>9, <2>10, GoesOn
<1>12. QED
  BY <1>4, <1>10, <1>11

LEMMA FreeStepKeeps ==
  ASSUME NEW L, NEW own, BlockInvariantOf(L, own), FreeStep
  PROVE  BlockInvariant'
<1>1. pc = "free" /\ writer' = writer
  BY DEF FreeStep, Streams
<1>2. CASE /\ block_get_next(buffer) # 0 /\ disk' = disk
           /\ buffer' = disk[block_get_next(buffer)]
           /\ Goto("free", [call EXCEPT !.block = block_get_next(buffer)])
  BY <1>1, <1>2, FreeNextKeeps, Zenon
<1>3. CASE /\ block_get_next(buffer) = 0
           /\ WriteBlock(call.block, block_set_next(buffer, call.oldFree))
           /\ Goto(IF call.op = "delete" THEN "unlink" ELSE "freed", call)
  BY <1>1, <1>3, FreeLastKeeps, Zenon
<1>4. QED
  BY <1>2, <1>3 DEF FreeStep, ReadBlock

-----------------------------------------------------------------------------
(***************************************************************************)
(* Clearing a file.                                                        *)
(***************************************************************************)
\* What holds when a file that no stream uses was found.
LEMMA FoundFacts ==
  ASSUME NEW L, NEW own, BlockInvariantOf(L, own), pc = "found", call.file # 0
  PROVE  /\ L \in SUBSET FileIds /\ own \in [FileIds -> Blocks] /\ DOMAIN call = Fields
         /\ DiskOK(disk, L) /\ L = DOMAIN call.before /\ Whole(disk, L, own)
         /\ Listing(disk, L) /\ Layout(own, Link(disk), L, FreeHead(disk))
         /\ WritersRest(disk, writer, L, own)
         /\ call.file \in L /\ call.file \in FileIds /\ own[call.file] = call.file
         /\ Link(disk) \in [FileIds -> Blocks]
         /\ Link(disk)[call.file] = block_get_next(disk[call.file])
         /\ call.op = "delete" => Follows(disk, L, call.previous, call.file)
<1>1. /\ L \in SUBSET FileIds /\ own \in [FileIds -> Blocks] /\ DOMAIN call = Fields
      /\ DiskOK(disk, L) /\ L = DOMAIN call.before /\ AtFound(L, own)
  BY DEF BlockInvariantOf
<1>2. WritersRest(disk, writer, L, own)
  BY RestingWriters
<1>3. Whole(disk, L, own) /\ call.file \in L /\ call.file \in FileIds
      /\ (call.op = "delete" => Follows(disk, L, call.previous, call.file))
  BY <1>1 DEF AtFound
<1>4. Link(disk) \in [FileIds -> Blocks]
      /\ Link(disk)[call.file] = block_get_next(disk[call.file])
  BY <1>1, <1>3, DiskLinks
<1>5. Listing(disk, L) /\ Layout(own, Link(disk), L, FreeHead(disk))
  BY <1>3 DEF Whole
<1>6. own[call.file] = call.file
  <2>1. PICK h : h = FreeHead(disk)
    OBVIOUS
  <2>2. Layout(own, Link(disk), L, h)
    BY <1>5, <2>1
  <2>3. QED
    BY <1>1, <1>3, <2>2, FirstBlocks
<1>7. QED
  BY <1>1, <1>2, <1>3, <1>4, <1>5, <1>6

LEMMA ClearStartKeeps ==
  ASSUME NEW L, NEW own, BlockInvariantOf(L, own), ClearStart
  PROVE  BlockInvariant'
<1>0. PICK f : f = call.file
  OBVIOUS
<1>1. PICK b : b = block_get_next(disk[f])
  OBVIOUS
<1>2. /\ pc = "found" /\ call.op = "open_write" /\ f # 0 /\ writer[f] = 0
      /\ writer' = writer
      /\ \/ b # 0 /\ FreeStart(b, [call EXCEPT !.newFree = b])
         \/ b = 0 /\ disk' = disk /\ Goto("clear", call)
  BY <1>0, <1>1 DEF ClearStart, Streams, CanWrite, ReadBlock
<1>3. /\ L \in SUBSET FileIds /\ own \in [FileIds -> Blocks] /\ DOMAIN call = Fields
      /\ DiskOK(disk, L) /\ L = DOMAIN call.before /\ Whole(disk, L, own)
      /\ Listing(disk, L) /\ Layout(own, Link(disk), L, FreeHead(disk))
      /\ WritersRest(disk, writer, L, own)
      /\ f \in L /\ f \in FileIds /\ own[f] = f
      /\ Link(disk) \in [FileIds -> Blocks] /\ Link(disk)[f] = b
  BY <1>0, <1>1, <1>2, FoundFacts
<1>4. CASE b # 0 /\ FreeStart(b, [call EXCEPT !.newFree = b])
  <2>1. /\ pc' = "free" /\ disk' = disk /\ buffer' = disk[b]
        /\ DOMAIN call' = Fields /\ call'.before = call.before
        /\ call'.op = "open_write" /\ call'.file = f /\ call'.block = b
        /\ call'.newFree = b /\ call'.oldFree = FreeHead(disk)
    BY <1>0, <1>2, <1>3, <1>4 DEF FreeStart, Goto, ReadBlock, Fields, FreeHead
  <2>2. b \in FileIds /\ own[b] = f /\ b # f
    <3>1. PICK h : h = FreeHead(disk)
      OBVIOUS
    <3>2. Layout(own, Link(disk), L, h) /\ L \in SUBSET FileIds
      BY <1>3, <3>1
    <3>3. BlockFacts(own, Link(disk), L, h, f)
      BY <1>3, <3>2, NextBlock, Zenon
    <3>4. QED
      BY <1>3, <1>4, <3>3 DEF BlockFacts
  <2>3. AtFree(L, own)'
    BY <1>2, <1>3, <1>4, <2>1, <2>2 DEF AtFree, Closed, Own
  <2>4. QED
    BY <1>2, <1>3, <2>1, <2>3, GoesOn
<1>5. CASE b = 0 /\ disk' = disk /\ Goto("clear", call)
  <2>1. pc' = "clear" /\ call' = call
    BY <1>5 DEF Goto
  <2>2. Cut(Link(disk), f) = Link(disk)
    BY <1>3, <1>5, CutLast
  <2>3. Layout(own, Cut(Link(disk), f), L, FreeHead(disk))
    BY <1>3, <2>2, Zenon
  <2>4. AtClear(L, own)'
    BY <1>0, <1>2, <1>3, <1>5, <2>1, <2>3 DEF AtClear, Closed
  <2>5. QED
    BY <1>2, <1>3, <1>5, <2>1, <2>4, GoesOn
<1>6. QED
  BY <1>2, <1>4, <1>5

LEMMA ClearFreedKeeps ==
  ASSUME NEW L, NEW own, BlockInvariantOf(L, own), ClearFreed
  PROVE  BlockInvariant'
<1>0. PICK h : h = call.newFree
  OBVIOUS
<1>1. pc = "freed" /\ writer' = writer /\ SetsHead(disk, disk', h)
      /\ pc' = "clear" /\ call' = call
  BY <1>0 DEF ClearFreed, Streams, WriteBlock, SetsHead, Goto
<1>2. AtFreed(L, own) /\ DOMAIN call = Fields /\ L \in SUBSET FileIds
      /\ own \in [FileIds -> Blocks] /\ DiskOK(disk, L) /\ L = DOMAIN call.before
  BY <1>1 DEF BlockInvariantOf
<1>3. WritersRest(disk, writer, L, own)
  BY <1>1, RestingWriters
<1>4. /\ Listing(disk, L) /\ Closed(L) /\ h \in FileIds /\ h \in Blocks
      /\ Layout(own, Cut(Link(disk), call.file), L, h) /\ Link(disk)[call.file] = h
  BY <1>0, <1>2, BlockSets DEF AtFreed
<1>5. HeadIsSet(disk, disk', h, L)
  BY <1>1, <1>2, <1>4, WroteHead, Zenon
<1>6. DiskOK(disk', L) /\ Listing(disk', L) /\ Link(disk') = Link(disk) /\ FreeHead(disk') = h
      /\ \A f \in FileIds : disk'[f] = disk[f]
  BY <1>5 DEF HeadIsSet
<1>7. AtClear(L, own)'
  BY <1>1, <1>4, <1>6 DEF AtClear, Closed
<1>8. WritersRest(disk', writer', L, own)
  BY <1>1, <1>3, <1>6, SizesFrame DEF WritersRest
<1>9. QED
  BY <1>1, <1>2, <1>6, <1>7, <1>8, GoesOn

\* The file has one block, with a header only.
LEMMA ClearSizeIs ==
  ASSUME NEW L, NEW own, BlockInvariantOf(L, own), ClearSize
  PROVE  /\ Whole(disk', L, own) /\ DiskOK(disk', L)
         /\ call.file \in L /\ call.file \in FileIds
         /\ Wrote(disk, disk', call.file, disk'[call.file])
         /\ \A i \in Offsets \ {0} : disk'[call.file][i] = disk[call.file][i]
         /\ disk'[call.file][0] = HeaderSize(Name(disk'[call.file]))
         /\ Name(disk'[call.file]) = Name(disk[call.file])
         /\ Link(disk') = Cut(Link(disk), call.file)
<1>0. PICK f : f = call.file
  OBVIOUS
<1>1. PICK n : n = HeaderSize(Name(disk[f]))
  OBVIOUS
<1>2. PICK v : v = [disk[f] EXCEPT ![0] = n]
  OBVIOUS
<1>3. pc = "clear" /\ writer' = [writer EXCEPT ![f] = f]
      /\ disk' = [disk EXCEPT ![f] = v] /\ Done(OK, call)
  BY <1>0, <1>1, <1>2 DEF ClearSize, WriteBlock
<1>4. AtClear(L, own) /\ DOMAIN call = Fields /\ L \in SUBSET FileIds
      /\ own \in [FileIds -> Blocks] /\ DiskOK(disk, L)
  BY <1>3 DEF BlockInvariantOf
<1>6. /\ Listing(disk, L) /\ f \in L /\ f \in FileIds /\ f \in Blocks
      /\ Layout(own, Cut(Link(disk), f), L, FreeHead(disk))
  BY <1>0, <1>4, BlockSets DEF AtClear, Closed
<1>7. Name(disk[f]) \in Names /\ n \in Nat /\ n >= 3 /\ n <= BlockSize
      /\ n >= 1 /\ n < BlockSize + NumBlocks
  <2>1. Name(disk[f]) \in Names
    BY <1>4, <1>6, ListingFacts
  <2>2. n \in Nat /\ n >= 3 /\ n <= BlockSize
    BY <1>1, <2>1, HeaderSizes
  <2>3. QED
    BY <2>1, <2>2, BlockSets
<1>8. GoodBlock(disk[f])
  BY <1>4, <1>6, GoodBlocks
<1>9. GoodBlock(v) /\ v[0] = n /\ \A i \in Offsets \ {0} : v[i] = disk[f][i]
  <2>1. disk[f] \in [Offsets -> Nat]
    BY <1>8 DEF GoodBlock
  <2>2. PICK u : u = disk[f]
    OBVIOUS
  <2>3. GoodBlock([u EXCEPT ![0] = n]) /\ [u EXCEPT ![0] = n][0] = n
        /\ \A i \in Offsets \ {0} : [u EXCEPT ![0] = n][i] = u[i]
    BY <1>7, <2>1, <2>2, SetSize
  <2>4. QED
    BY <1>2, <2>2, <2>3, Zenon
<1>10. Name(v) = Name(disk[f]) /\ NextFile(v) = NextFile(disk[f]) /\ block_get_next(v) = 0
  <2>1. block_get_next(v) = 0
    BY <1>7, <1>9, NextOfBlock
  <2>2. 1 \in Offsets \ {0} /\ 2 \in Offsets \ {0}
    BY BlockSets
  <2>3. QED
    BY <1>9, <2>1, <2>2 DEF Name, NextFile
<1>11. Wrote(disk, disk', f, v)
  BY <1>3, <1>4, <1>6, WriteIsWrote, Zenon
<1>12. Link(disk') = Cut(Link(disk), f) /\ FreeHead(disk') = FreeHead(disk)
  <2>1. LinkIsSet(disk, disk', f, 0)
    BY <1>6, <1>10, <1>11, WroteLink, Zenon
  <2>2. QED
    BY <2>1 DEF LinkIsSet, Cut
<1>13. Listing(disk', L) /\ DiskOK(disk', L)
  <2>1. f \in L => Name(v) = Name(disk[f]) /\ NextFile(v) = NextFile(disk[f])
                   /\ HeaderSize(Name(v)) <= v[0]
    BY <1>1, <1>7, <1>9, <1>10
  <2>2. QED
    BY <1>4, <1>6, <1>9, <1>11, <2>1, WrittenListing, Zenon
<1>14. Whole(disk', L, own)
  BY <1>6, <1>12, <1>13 DEF Whole
<1>15. disk'[f] = v
  BY <1>11 DEF Wrote
<1>16. QED
  BY <1>0, <1>1, <1>6, <1>9, <1>10, <1>11, <1>12, <1>13, <1>14, <1>15

LEMMA ClearSizeKeeps ==
  ASSUME NEW L, NEW own, BlockInvariantOf(L, own), ClearSize
  PROVE  BlockInvariant'
<1>0. PICK f, v : f = call.file /\ v = disk'[call.file]
  OBVIOUS
<1>1. pc = "clear" /\ writer' = [writer EXCEPT ![f] = f] /\ Done(OK, call)
  BY <1>0 DEF ClearSize
<1>2. DOMAIN call = Fields /\ L \in SUBSET FileIds /\ own \in [FileIds -> Blocks] /\ DiskOK(disk, L)
  BY <1>1 DEF BlockInvariantOf
<1>3. WritersRest(disk, writer, L, own)
  BY <1>1, RestingWriters
<1>4. /\ Whole(disk', L, own) /\ DiskOK(disk', L) /\ f \in L /\ f \in FileIds
      /\ Wrote(disk, disk', f, v) /\ v[0] = HeaderSize(Name(v)) /\ Link(disk') = Cut(Link(disk), f)
  BY <1>0, ClearSizeIs
<1>5. v[0] \in Nat /\ v[0] >= 3
  <2>1. Listing(disk', L)
    BY <1>4 DEF Whole
  <2>2. Name(v) \in Names
    BY <1>0, <1>2, <1>4, <2>1, ListingFacts
  <2>3. QED
    BY <1>4, <2>2, HeaderSizes
<1>6. own[f] = f
  <2>1. PICK s, h : s = Link(disk') /\ h = FreeHead(disk')
    OBVIOUS
  <2>2. Layout(own, s, L, h)
    BY <1>4, <2>1 DEF Whole
  <2>3. QED
    BY <1>2, <1>4, <2>2, FirstBlocks
<1>7. BlockSizes(disk', own)
  BY <1>3, <1>4, <1>5, <1>6, BlockSets, SizesWrote DEF WritersRest
<1>8. WritersRest(disk', writer', L, own)
  <2>1. Link(disk) \in [FileIds -> Blocks]
    BY <1>2, DiskLinks
  <2>2. writer' \in [FileIds -> Blocks] /\ writer'[f] = f
        /\ \A g \in FileIds \ {f} : writer'[g] = writer[g]
    BY <1>1, <1>3, <1>4, BlockSets DEF WritersRest
  <2>3. \A b \in FileIds : Link(disk)[b] = 0 \/ b = f => Link(disk')[b] = 0
    BY <1>4, <2>1 DEF Cut
  <2>4. QED
    BY <1>3, <1>4, <1>6, <1>7, <2>2, <2>3 DEF WritersRest
<1>9. pc' = "done" /\ DOMAIN call' = Fields
  BY <1>1, <1>2, DoneCall
<1>10. QED
  BY <1>2, <1>4, <1>8, <1>9, Rests

-----------------------------------------------------------------------------
(***************************************************************************)
(* Deleting a file.                                                        *)
(***************************************************************************)
LEMMA DeleteStartKeeps ==
  ASSUME NEW L, NEW own, BlockInvariantOf(L, own), DeleteStart
  PROVE  BlockInvariant'
<1>0. PICK f : f = call.file
  OBVIOUS
<1>1. PICK x : x = NextFile(disk[f])
  OBVIOUS
<1>2. PICK y : y = FirstFile(disk)
  OBVIOUS
<1>3. /\ pc = "found" /\ call.op = "delete" /\ f # 0 /\ writer[f] = 0
      /\ writer' = writer
      /\ FreeStart(f, [call EXCEPT !.next = x, !.newFirst = y])
  BY <1>0, <1>1, <1>2 DEF DeleteStart, Streams, CanWrite, FirstFile
<1>4. /\ L \in SUBSET FileIds /\ own \in [FileIds -> Blocks] /\ DOMAIN call = Fields
      /\ DiskOK(disk, L) /\ L = DOMAIN call.before /\ Whole(disk, L, own)
      /\ WritersRest(disk, writer, L, own)
      /\ f \in L /\ f \in FileIds /\ own[f] = f
      /\ Follows(disk, L, call.previous, f)
  BY <1>0, <1>3, FoundFacts
<1>5. /\ pc' = "free" /\ disk' = disk /\ buffer' = disk[f]
      /\ DOMAIN call' = Fields /\ call'.before = call.before
      /\ call'.op = "delete" /\ call'.file = f /\ call'.block = f
      /\ call'.oldFree = FreeHead(disk) /\ call'.previous = call.previous
      /\ call'.next = x /\ call'.newFirst = y
  BY <1>0, <1>3, <1>4 DEF FreeStart, Goto, ReadBlock, Fields, FreeHead
<1>6. AtFree(L, own)'
  BY <1>1, <1>2, <1>3, <1>4, <1>5 DEF AtFree, Closed, Own, Follows
<1>7. QED
  BY <1>3, <1>4, <1>5, <1>6, GoesOn

\* The file that is deleted is no longer in the list.
LEMMA DeletedListing ==
  ASSUME NEW d, NEW e, NEW L, L \in SUBSET FileIds, Listing(d, L), NEW f \in L,
         NEW p \in L \cup {0}, NEW x, NEW head,
         x = NextFile(d[f]),
         IF p = 0 THEN f = FirstFile(d) /\ head = x
         ELSE f = NextFile(d[p]) /\ NextFile(e[p]) = x /\ head = FirstFile(d),
         \A g \in L : Name(e[g]) = Name(d[g]), \A g \in L \ {p} : e[g] = d[g]
  PROVE  Directory(e, L \ {f}, head, NextOf(e, L \ {f}))
<1> DEFINE nf == NextOf(d, L)
           ng == NextOf(e, L \ {f})
<1>0. \A g \in L : g # 0
  BY BlockSets
<1>1. Directory(d, L, FirstFile(d), nf)
  BY DEF Listing
<1>2. nf[f] = x /\ \A g \in L : nf[g] = NextFile(d[g])
  BY DEF NextOf
<1>3. \A g \in L \ {f} : ng[g] = NextFile(e[g])
  BY DEF NextOf
<1>4. p # 0 => p # f
  <2>1. f \in FileIds /\ Name(d[f]) \in Nat
        /\ (NextFile(d[f]) # 0 => Name(d[f]) < Name(d[NextFile(d[f])]))
    BY ListingFacts
  <2>2. QED
    BY <1>0, <2>1
<1> HIDE DEF nf, ng
<1>5. Removed(nf, FirstFile(d), L, p, f, ng, head)
  BY <1>0, <1>2, <1>3, <1>4 DEF Removed
<1>6. \A g \in L \ {f} : Name(e[g]) = Name(d[g])
  OBVIOUS
<1>7. Directory(e, L \ {f}, head, ng)
  BY <1>1, <1>5, <1>6, DirectoryRemove, Zenon
<1>8. QED
  BY <1>7 DEF ng

LEMMA DeleteUnlinkKeeps ==
  ASSUME NEW L, NEW own, BlockInvariantOf(L, own), DeleteUnlink
  PROVE  BlockInvariant'
<1>0. PICK f : f = call.file
  OBVIOUS
<1>1. pc = "unlink" /\ writer' = writer
  BY DEF DeleteUnlink, Streams
<1>2. AtUnlink(L, own) /\ DOMAIN call = Fields /\ L \in SUBSET FileIds
      /\ own \in [FileIds -> Blocks] /\ L = DOMAIN call.before /\ DiskOK(disk, L)
  BY <1>1 DEF BlockInvariantOf
<1>3. WritersRest(disk, writer, L, own)
  BY <1>1, RestingWriters
<1>4. /\ Listing(disk, L) /\ f \in L /\ f \in FileIds /\ writer[f] = 0
      /\ Layout(own, Link(disk), L \ {f}, f)
      /\ (FreeHead(disk) # 0 => own[FreeHead(disk)] = 0)
      /\ call.previous \in L \cup {0}
      /\ f = (IF call.previous = 0 THEN FirstFile(disk) ELSE NextFile(disk[call.previous]))
      /\ call.next = NextFile(disk[f]) /\ call.newFirst = FirstFile(disk)
  BY <1>0, <1>2 DEF AtUnlink, Closed, Follows
<1>5. CASE /\ call.previous = 0 /\ disk' = disk
           /\ Goto("deleted", [call EXCEPT !.newFirst = call.next])
  <2>1. /\ pc' = "deleted" /\ DOMAIN call' = Fields /\ call'.before = call.before
        /\ call'.file = f /\ call'.previous = 0 /\ call'.newFirst = call.next
    BY <1>0, <1>2, <1>5 DEF Goto, Fields
  <2>2. Directory(disk, L \ {f}, call.next, NextOf(disk, L \ {f}))
    <3>1. 0 \in L \cup {0} /\ f = FirstFile(disk) /\ call.next = NextFile(disk[f])
      BY <1>4, <1>5
    <3>2. \A g \in L : Name(disk[g]) = Name(disk[g])
      OBVIOUS
    <3>3. QED
      BY <1>2, <1>4, <3>1, <3>2, DeletedListing
  <2>3. AtDeleted(L, own)'
    <3>1. Directory(disk', L \ {f}, call'.newFirst, NextOf(disk', L \ {f}))
      BY <1>5, <2>1, <2>2, Zenon
    <3>2. Listing(disk', L) /\ Layout(own, Link(disk'), L \ {f}, f)
          /\ (FreeHead(disk') # 0 => own[FreeHead(disk')] = 0) /\ f \in L /\ writer'[f] = 0
      BY <1>1, <1>4, <1>5
    <3>3. QED
      BY <2>1, <3>1, <3>2 DEF AtDeleted, Closed
  <2>4. QED
    BY <1>1, <1>2, <1>3, <1>5, <2>1, <2>3, GoesOn
<1>6. CASE /\ call.previous # 0
           /\ disk' = [disk EXCEPT ![call.previous] = [disk[call.previous] EXCEPT ![1] = call.next]]
           /\ Goto("deleted", call)
  <2>1. PICK p : p = call.previous
    OBVIOUS
  <2>2. PICK x : x = call.next
    OBVIOUS
  <2>3. pc' = "deleted" /\ call' = call /\ SetsFile(disk, disk', p, x)
    BY <1>6, <2>1, <2>2 DEF Goto, SetsFile
  <2>4. p \in L /\ p # 0 /\ p \in FileIds /\ f = NextFile(disk[p]) /\ x = NextFile(disk[f])
    BY <1>2, <1>4, <1>6, <2>1, <2>2
  <2>5. x \in Nat
    <3>1. NextFile(disk[f]) \in L \cup {0}
      BY <1>2, <1>4, ListingFacts
    <3>2. QED
      BY <1>2, <2>4, <3>1, BlockSets
  <2>6. FileIsSet(disk, disk', p, x, L)
    BY <1>2, <2>3, <2>4, <2>5, WroteFileIs, Zenon
  <2>7. /\ DiskOK(disk', L) /\ Link(disk') = Link(disk)
        /\ FreeHead(disk') = FreeHead(disk) /\ FirstFile(disk') = FirstFile(disk)
        /\ NextFile(disk'[p]) = x
        /\ \A g \in FileIds : Name(disk'[g]) = Name(disk[g]) /\ disk'[g][0] = disk[g][0]
        /\ \A g \in FileIds \ {p} : disk'[g] = disk[g]
    BY <2>6 DEF FileIsSet
  <2>8. Directory(disk', L \ {f}, FirstFile(disk), NextOf(disk', L \ {f}))
    <3>1. \A g \in L : Name(disk'[g]) = Name(disk[g])
      BY <1>2, <2>7
    <3>2. \A g \in L \ {p} : disk'[g] = disk[g]
      BY <1>2, <2>7
    <3>3. PICK head : head = FirstFile(disk)
      OBVIOUS
    <3>4. Directory(disk', L \ {f}, head, NextOf(disk', L \ {f}))
      BY <1>2, <1>4, <2>4, <2>7, <3>1, <3>2, <3>3, DeletedListing
    <3>5. QED
      BY <3>3, <3>4, Zenon
  <2>9. AtDeleted(L, own)'
    <3>1. Directory(disk', L \ {f}, call'.newFirst, NextOf(disk', L \ {f}))
      BY <1>4, <2>3, <2>8, Zenon
    <3>2. call'.file = f /\ call'.previous # 0 /\ call'.newFirst = FirstFile(disk')
      BY <1>0, <1>4, <1>6, <2>3, <2>7
    <3>3. QED
      BY <1>1, <1>4, <2>7, <3>1, <3>2 DEF AtDeleted, Closed
  <2>10. WritersRest(disk', writer', L, own)
    BY <1>1, <1>3, <2>7, SizesFrame DEF WritersRest
  <2>11. QED
    BY <1>2, <2>3, <2>7, <2>9, <2>10, GoesOn
<1>7. QED
  BY <1>5, <1>6 DEF DeleteUnlink, WriteBlock

\* The file is no longer in the list of files.
LEMMA DeletePublishIs ==
  ASSUME NEW L, NEW own, BlockInvariantOf(L, own), DeletePublish
  PROVE  /\ L \ {call.file} \in SUBSET FileIds /\ call.file \in L /\ writer[call.file] = 0
         /\ Whole(disk', L \ {call.file}, own) /\ DiskOK(disk', L \ {call.file})
         /\ \A g \in FileIds : disk'[g] = disk[g]
<1>0. PICK f : f = call.file
  OBVIOUS
<1>1. PICK first : first = call.newFirst
  OBVIOUS
<1> DEFINE u == block_set_next(disk[SUPER_BLOCK], f)
           v == [u EXCEPT ![1] = first]
           M == L \ {f}
<1>2. pc = "deleted" /\ writer' = writer /\ disk' = [disk EXCEPT ![SUPER_BLOCK] = v]
      /\ Done(OK, call)
  BY <1>0, <1>1 DEF DeletePublish, Streams, WriteBlock
<1>3. AtDeleted(L, own) /\ DOMAIN call = Fields /\ L \in SUBSET FileIds
      /\ own \in [FileIds -> Blocks] /\ DiskOK(disk, L)
  BY <1>2 DEF BlockInvariantOf
<1>5. /\ f \in L /\ f \in Blocks /\ writer[f] = 0 /\ Layout(own, Link(disk), M, f)
      /\ Directory(disk, M, first, NextOf(disk, M))
  BY <1>0, <1>1, <1>3, BlockSets DEF AtDeleted, Closed
<1>6. M \in SUBSET FileIds
  BY <1>3
<1>7. first \in Nat
  <2> HIDE DEF M
  <2>1. first \in M \cup {0}
    BY <1>5, <1>6, DirectoryFacts, Zenon
  <2>2. \A g \in M \cup {0} : g \in Nat
    BY <1>6, BlockSets
  <2>3. QED
    BY <2>1, <2>2, Zenon
<1>8. GoodBlock(disk[SUPER_BLOCK]) /\ SUPER_BLOCK \in Blocks
  BY <1>3, GoodBlocks, BlockSets
<1>9. GoodBlock(u) /\ block_get_next(u) = f
  BY <1>5, <1>8, SetNext
<1> HIDE DEF u
<1>10. GoodBlock(v) /\ v[1] = first /\ \A i \in Offsets \ {1} : v[i] = u[i]
  BY <1>7, <1>9, SetFile
<1> HIDE DEF v
<1>11. block_get_next(v) = f /\ NextFile(v) = first
  BY <1>9, <1>10, BlockSets DEF block_get_next, NextFile
<1>12. Wrote(disk, disk', SUPER_BLOCK, v)
  BY <1>2, <1>3, <1>8, WriteIsWrote, Zenon
<1>13. /\ Link(disk') = Link(disk) /\ NextOf(disk', M) = NextOf(disk, M)
       /\ \A g \in FileIds : disk'[g] = disk[g]
       /\ FreeHead(disk') = f /\ FirstFile(disk') = first
  BY <1>6, <1>11, <1>12, WroteSuper
<1>14. Listing(disk', M)
  <2>1. \A g \in M : Name(disk'[g]) = Name(disk[g]) /\ NextOf(disk', M)[g] = NextOf(disk, M)[g]
    BY <1>6, <1>13
  <2>2. Directory(disk', M, first, NextOf(disk', M))
    BY <1>5, <2>1, DirectoryFrame
  <2>3. QED
    BY <1>13, <2>2 DEF Listing
<1>15. Whole(disk', M, own)
  BY <1>5, <1>13, <1>14 DEF Whole
<1>17. DiskOK(disk', M)
  <2>1. \A g \in M : IF g = SUPER_BLOCK THEN HeaderSize(Name(v)) <= v[0] ELSE g \in L
    BY <1>6, BlockSets
  <2>2. QED
    BY <1>3, <1>6, <1>10, <1>12, <2>1, WroteOK, Zenon
<1>18. QED
  BY <1>0, <1>5, <1>6, <1>13, <1>15, <1>17

LEMMA DeletePublishKeeps ==
  ASSUME NEW L, NEW own, BlockInvariantOf(L, own), DeletePublish
  PROVE  BlockInvariant'
<1>0. PICK f, M : f = call.file /\ M = L \ {call.file}
  OBVIOUS
<1>1. pc = "deleted" /\ writer' = writer /\ Done(OK, call)
  BY DEF DeletePublish, Streams
<1>2. DOMAIN call = Fields /\ own \in [FileIds -> Blocks]
  BY <1>1 DEF BlockInvariantOf
<1>3. WritersRest(disk, writer, L, own)
  BY <1>1, RestingWriters
<1>4. /\ M \in SUBSET FileIds /\ f \in L /\ writer[f] = 0 /\ M = L \ {f}
      /\ Whole(disk', M, own) /\ DiskOK(disk', M) /\ \A g \in FileIds : disk'[g] = disk[g]
  BY <1>0, DeletePublishIs
<1>5. WritersRest(disk', writer', M, own)
  <2>1. BlockSizes(disk, own) /\ \A g \in FileIds : disk'[g][0] = disk[g][0]
    BY <1>3, <1>4 DEF WritersRest
  <2>2. BlockSizes(disk', own)
    BY <2>1, SizesFrame
  <2>3. \A g \in FileIds : Link(disk')[g] = Link(disk)[g]
    BY <1>4 DEF Link
  <2>4. QED
    BY <1>1, <1>3, <1>4, <2>2, <2>3 DEF WritersRest
<1>6. pc' = "done" /\ DOMAIN call' = Fields
  BY <1>1, <1>2, DoneCall
<1>7. QED
  BY <1>2, <1>4, <1>5, <1>6, Rests

-----------------------------------------------------------------------------
(***************************************************************************)
(* The invariant holds.                                                    *)
(***************************************************************************)
LEMMA NextNumber ==
  ASSUME NEW n \in Nat, n > 0, NEW b \in 0 .. n - 1
  PROVE  (b + 1) % n = IF b + 1 < n THEN b + 1 ELSE 0
<1>1. CASE b + 1 = n
  BY <1>1
<1>2. CASE b + 1 < n
  BY <1>2
<1>3. QED
  BY <1>1, <1>2

\* The free blocks of a new disk are in the order of their numbers.
LEMMA NumbersAreSorted ==
  ASSUME NEW s, \A b \in FileIds : s[b] = IF b + 1 < NumBlocks THEN b + 1 ELSE 0
  PROVE  Links(s, IF 1 < NumBlocks THEN 1 ELSE 0, FileIds)
<1> DEFINE r == [b \in FileIds |-> b]
<1>1. FileIds = 1 .. NumBlocks - 1 /\ NumBlocks \in Nat /\ NumBlocks > 0
  BY BlockSets DEF FileIds
<1>2. r \in [FileIds -> Int] /\ \A b \in FileIds : r[b] = b
  BY <1>1
<1> HIDE DEF r
<1>3. FirstOf(FileIds, r, IF 1 < NumBlocks THEN 1 ELSE 0)
  BY <1>1, <1>2 DEF FirstOf
<1>4. ASSUME NEW b \in FileIds
      PROVE  FirstOf(Beyond(FileIds, r, b), r, s[b])
  <2>1. Beyond(FileIds, r, b) = {c \in FileIds : c > b}
    BY <1>2 DEF Beyond
  <2>2. CASE b + 1 < NumBlocks
    BY <1>1, <1>2, <2>1, <2>2 DEF FirstOf
  <2>3. CASE ~ b + 1 < NumBlocks
    <3>1. {c \in FileIds : c > b} = {} /\ s[b] = 0
      BY <1>1, <2>3
    <3>2. QED
      BY <2>1, <3>1 DEF FirstOf
  <2>4. QED
    BY <2>2, <2>3
<1>5. Sorted(s, IF 1 < NumBlocks THEN 1 ELSE 0, FileIds, r)
  BY <1>2, <1>3, <1>4 DEF Sorted
<1>6. QED
  BY <1>2, <1>5 DEF Links

LEMMA InitInvariant == Init => BlockInvariant
<1> SUFFICES ASSUME Init
             PROVE  BlockInvariant
  OBVIOUS
<1> DEFINE own == [b \in FileIds |-> 0]
<1>1. pc = "idle" /\ disk = Formatted /\ call = NoCall /\ writer = [f \in FileIds |-> 0]
  BY DEF Init
<1>2. own \in [FileIds -> Blocks] /\ own \in [FileIds -> {} \cup {0}] /\ {} \in SUBSET FileIds
      /\ Own(own, 0) = FileIds
  BY BlockSets DEF Own
<1>3. disk \in [Blocks -> [Offsets -> Nat]]
      /\ \A b \in Blocks : /\ disk[b][0] = BlockSize + (IF b + 1 < NumBlocks THEN b + 1 ELSE 0)
                           /\ disk[b][1] = 0
  <2>1. \A b \in Blocks : (b + 1) % NumBlocks = IF b + 1 < NumBlocks THEN b + 1 ELSE 0
    BY NextNumber, BlockSets
  <2>2. \A b \in Blocks : BlockSize + ((b + 1) % NumBlocks) \in Nat
    BY <2>1, BlockSets
  <2>3. disk = [b \in Blocks |->
                  [i \in Offsets |-> IF i = 0 THEN BlockSize + ((b + 1) % NumBlocks) ELSE 0]]
    BY <1>1 DEF Formatted
  <2>4. disk \in [Blocks -> [Offsets -> Nat]]
    BY <2>2, <2>3
  <2>5. \A b \in Blocks : disk[b][0] = BlockSize + ((b + 1) % NumBlocks) /\ disk[b][1] = 0
    <3> TAKE b \in Blocks
    <3>1. disk[b] = [i \in Offsets |-> IF i = 0 THEN BlockSize + ((b + 1) % NumBlocks) ELSE 0]
      BY <2>3
    <3>2. QED
      BY <3>1, BlockSets
  <2>6. \A b \in Blocks : disk[b][0] = BlockSize + (IF b + 1 < NumBlocks THEN b + 1 ELSE 0)
    BY <2>1, <2>5
  <2>7. QED
    BY <2>4, <2>5, <2>6
<1>4. DiskOK(disk, {})
  <2>1. \A b \in Blocks : disk[b][0] >= 1 /\ disk[b][0] < BlockSize + NumBlocks
    <3> TAKE b \in Blocks
    <3>1. PICK x : x = disk[b][0]
      OBVIOUS
    <3>2. x = BlockSize + (IF b + 1 < NumBlocks THEN b + 1 ELSE 0)
      BY <1>3, <3>1
    <3>3. x >= 1 /\ x < BlockSize + NumBlocks
      BY <3>2, BlockSets
    <3>4. QED
      BY <3>1, <3>3
  <2>2. QED
    BY <1>3, <2>1 DEF DiskOK
<1>5. \A b \in Blocks : block_get_next(disk[b]) = IF b + 1 < NumBlocks THEN b + 1 ELSE 0
  BY <1>3, BlockSets DEF block_get_next
<1>6. Layout(own, Link(disk), {}, FreeHead(disk))
  <2>1. \A b \in FileIds : Link(disk)[b] = IF b + 1 < NumBlocks THEN b + 1 ELSE 0
    BY <1>5, BlockSets DEF Link
  <2>2. FreeHead(disk) = IF 1 < NumBlocks THEN 1 ELSE 0
    BY <1>5, BlockSets DEF FreeHead
  <2>3. Links(Link(disk), FreeHead(disk), FileIds)
    BY <2>1, <2>2, NumbersAreSorted
  <2>4. QED
    BY <1>2, <2>3 DEF Layout
<1>7. Listing(disk, {})
  <2>1. FirstFile(disk) = 0
    BY <1>3, BlockSets DEF FirstFile, NextFile
  <2>2. NameOf(disk, {}) \in [{} -> Names]
    BY DEF NameOf
  <2>3. Sorted(NextOf(disk, {}), 0, {}, NameOf(disk, {}))
    BY DEF Sorted, FirstOf
  <2>4. QED
    BY <2>1, <2>2, <2>3 DEF Listing, Directory
<1>8. Writers({}, own)
  BY <1>1, BlockSets DEF Writers
<1>9. Whole(disk, {}, own)
  BY <1>6, <1>7 DEF Whole
<1>9a. BlockSizes(disk, own)
  BY <1>3, BlockSets DEF BlockSizes
<1> HIDE DEF own
<1>10. BlockInvariantOf({}, own)
  BY <1>1, <1>2, <1>4, <1>8, <1>9, <1>9a, CallFields DEF BlockInvariantOf, Steps
<1>11. QED
  BY <1>2, <1>10 DEF BlockInvariant

LEMMA StepKeeps ==
  ASSUME BlockInvariant, Step
  PROVE  BlockInvariant'
<1>1. PICK L \in SUBSET FileIds, own \in [FileIds -> Blocks] : BlockInvariantOf(L, own)
  BY DEF BlockInvariant
<1>2. CASE FindStep
  BY <1>1, <1>2, FindStepKeeps, Zenon
<1>3. CASE FindFails
  BY <1>1, <1>3, FindFailsKeeps, Zenon
<1>4. CASE SizeStart \/ SizeStep \/ OpenRead \/ ReadStep
  BY <1>1, <1>4, QueryKeeps, Zenon
<1>5. CASE CreateStart
  BY <1>1, <1>5, CreateStartKeeps, Zenon
<1>6. CASE CreateScan
  BY <1>1, <1>6, CreateScanKeeps, Zenon
<1>7. CASE CreateLink
  BY <1>1, <1>7, CreateLinkKeeps, Zenon
<1>8. CASE CreateFill
  BY <1>1, <1>8, CreateFillKeeps, Zenon
<1>9. CASE CreatePublish
  BY <1>1, <1>9, CreatePublishKeeps, Zenon
<1>10. CASE WriteStep
  BY <1>1, <1>10, WriteStepKeeps, Zenon
<1>11. CASE WriteCommit
  BY <1>1, <1>11, WriteCommitKeeps, Zenon
<1>12. CASE FreeStep
  BY <1>1, <1>12, FreeStepKeeps, Zenon
<1>13. CASE ClearStart
  BY <1>1, <1>13, ClearStartKeeps, Zenon
<1>14. CASE ClearFreed
  BY <1>1, <1>14, ClearFreedKeeps, Zenon
<1>15. CASE ClearSize
  BY <1>1, <1>15, ClearSizeKeeps, Zenon
<1>16. CASE DeleteStart
  BY <1>1, <1>16, DeleteStartKeeps, Zenon
<1>17. CASE DeleteUnlink
  BY <1>1, <1>17, DeleteUnlinkKeeps, Zenon
<1>18. CASE DeletePublish
  BY <1>1, <1>18, DeletePublishKeeps, Zenon
<1>19. CASE Return
  BY <1>1, <1>19, BetweenKeeps, Zenon
<1>20. QED
  BY <1>2, <1>3, <1>4, <1>5, <1>6, <1>7, <1>8, <1>9, <1>10, <1>11, <1>12, <1>13, <1>14,
     <1>15, <1>16, <1>17, <1>18, <1>19 DEF Step

(***************************************************************************)
(* What the clients of the model ask, and the host programs too, which     *)
(* write and read other bytes and sizes.                                   *)
(***************************************************************************)
AnyClient ==
  \/ \E n \in Names : Find("stat", n) \/ Find("open_write", n) \/ Find("delete", n)
  \/ \E n \in Names : Create(n)
  \/ \E n \in Names : reader = NoReader /\ Find("open_read", n)
  \/ \E size \in Nat \ {0} : Read(size)
  \/ \E f \in FileIds, src \in Seq(Bytes) : Write(f, src)
  \/ \E f \in FileIds : CloseWriter(f)
  \/ CloseReader

AnyNext == Step \/ AnyClient

LEMMA NextIsAny == [Next]_vars => [AnyNext]_vars
<1>1. ReadSizes \subseteq Nat \ {0} /\ Writes \subseteq Seq(Bytes)
  BY BlockFSAssumption DEF BlockFSAssumption
<1>2. Client => AnyClient
  BY <1>1, Zenon DEF Client, AnyClient
<1>3. QED
  BY <1>2, Zenon DEF Next, AnyNext

LEMMA ClientKeeps ==
  ASSUME BlockInvariant, AnyClient
  PROVE  BlockInvariant'
<1>1. PICK L \in SUBSET FileIds, own \in [FileIds -> Blocks] : BlockInvariantOf(L, own)
  BY DEF BlockInvariant
<1>2. ASSUME NEW n \in Names, NEW op \in {"stat", "open_read", "open_write", "delete"},
             Find(op, n)
      PROVE  BlockInvariant'
  BY <1>1, <1>2, FindKeeps, Zenon
<1>3. ASSUME NEW n \in Names, Create(n)
      PROVE  BlockInvariant'
  BY <1>1, <1>3, CreateKeeps, Zenon
<1>4. ASSUME NEW size \in Nat \ {0}, Read(size)
      PROVE  BlockInvariant'
  BY <1>1, <1>4, ReadKeeps, Zenon
<1>5. ASSUME NEW f \in FileIds, NEW src \in Seq(Bytes), Write(f, src)
      PROVE  BlockInvariant'
  BY <1>1, <1>5, WriteKeeps, Zenon
<1>6. CASE (\E f \in FileIds : CloseWriter(f)) \/ CloseReader
  BY <1>1, <1>6, BetweenKeeps, Zenon
<1>7. QED
  BY <1>2, <1>3, <1>4, <1>5, <1>6 DEF AnyClient

LEMMA SameKeeps ==
  ASSUME BlockInvariant, UNCHANGED vars
  PROVE  BlockInvariant'
<1>1. PICK L \in SUBSET FileIds, own \in [FileIds -> Blocks] : BlockInvariantOf(L, own)
  BY DEF BlockInvariant
<1>2. disk' = disk /\ buffer' = buffer /\ pc' = pc /\ call' = call /\ writer' = writer
      /\ reader' = reader
  BY DEF vars
<1>3. BlockInvariantOf(L, own)'
  BY <1>1, <1>2 DEF BlockInvariantOf, DiskOK, BlockSizes, Writers, Whole, Listing, AtFind, AtFound, AtQuery,
     AtScan, AtLink, AtFill, AtPublish, AtWrite, AtCommit, AtFree, AtFreed, AtClear, AtUnlink,
     AtDeleted, Closed, NewBlock, Place, NewPlace, Follows
<1>4. QED
  BY <1>1, <1>3 DEF BlockInvariant

LEMMA AnyKeeps == BlockInvariant /\ [AnyNext]_vars => BlockInvariant'
BY StepKeeps, ClientKeeps, SameKeeps DEF AnyNext

(***************************************************************************)
(* The invariant holds at each step of each call, also between two writes  *)
(* to the disk.                                                            *)
(***************************************************************************)
THEOREM BlockInvariantHolds == Spec => []BlockInvariant
<1>1. BlockInvariant /\ [Next]_vars => BlockInvariant'
  BY AnyKeeps, NextIsAny
<1>2. QED
  BY InitInvariant, <1>1, PTL DEF Spec

LEMMA InvariantMeans == BlockInvariant => BlocksPartitioned /\ FilesInOrder
<1> SUFFICES ASSUME BlockInvariant
             PROVE  BlocksPartitioned /\ FilesInOrder
  OBVIOUS
<1>1. PICK L \in SUBSET FileIds, own \in [FileIds -> Blocks] : BlockInvariantOf(L, own)
  BY DEF BlockInvariant
<1>2. CASE Resting
  <2>1. Whole(disk, L, own)
    BY <1>1, <1>2 DEF BlockInvariantOf, Resting
  <2>2. QED
    BY <1>1, <1>2, <2>1, WholeDisk
<1>3. CASE ~ Resting
  BY <1>3 DEF BlocksPartitioned, FilesInOrder
<1>4. QED
  BY <1>2, <1>3

(***************************************************************************)
(* Between two calls each block is free or in exactly one file, once.      *)
(***************************************************************************)
THEOREM NoBlockIsLost == Spec => []BlocksPartitioned
<1>1. BlockInvariant => BlocksPartitioned
  BY InvariantMeans
<1>2. QED
  BY BlockInvariantHolds, <1>1, PTL

(***************************************************************************)
(* Between two calls the list of files has all the files, in the order of  *)
(* their names, as the kernel relies on.                                   *)
(***************************************************************************)
THEOREM FilesStayInOrder == Spec => []FilesInOrder
<1>1. BlockInvariant => FilesInOrder
  BY InvariantMeans
<1>2. QED
  BY BlockInvariantHolds, <1>1, PTL

-----------------------------------------------------------------------------
(***************************************************************************)
(* The data of a file.  g[0] .. g[m] are its blocks, in order.             *)
(***************************************************************************)
IsPath(d, f, g, m) ==
  /\ m \in Nat /\ g \in [0 .. m -> FileIds] /\ g[0] = f
  /\ \A k \in 1 .. m : g[k] = Link(d)[g[k - 1]]
  /\ Link(d)[g[m]] = 0

Number(n, i) == IF i <= FirstChunk[n] THEN 0 ELSE (i - FirstChunk[n] - 1) \div Chunk + 1

\* Where byte i of a file named n is in its block.
PlaceOf(n, i) == DataStart(n, Number(n, i)) + i - ChunkStart(n, Number(n, i)) - 1

DataLength(d, n, g, m) == ChunkStart(n, m) + d[g[m]][0] - DataStart(n, m)

DataOf(d, n, g, m) == [i \in 1 .. DataLength(d, n, g, m) |-> d[g[Number(n, i)]][PlaceOf(n, i)]]

LEMMA Chunks ==
  ASSUME NEW n \in Names, NEW k \in Nat
  PROVE  /\ Chunk \in Nat \ {0} /\ FirstChunk[n] \in Nat
         /\ DataStart(n, k) \in 1 .. BlockSize /\ ChunkStart(n, k) \in Nat
         /\ ChunkStart(n, k + 1) = ChunkStart(n, k) + BlockSize - DataStart(n, k)
         /\ k = 0 => DataStart(n, k) >= 3
<1>1. /\ Chunk = BlockSize - 1 /\ FirstChunk[n] = BlockSize - HeaderSize(n)
      /\ HeaderSize(n) \in Nat /\ HeaderSize(n) >= 3 /\ HeaderSize(n) <= BlockSize
      /\ BlockSize \in Nat /\ BlockSize > 2
  BY HeaderSizes, BlockSets DEF Chunk, FirstChunk
<1>2. CASE k = 0
  BY <1>1, <1>2 DEF DataStart, ChunkStart
<1>3. CASE k # 0
  <2> DEFINE j == k - 1
             c == Chunk
  <2>1. j \in Nat /\ c \in Nat /\ j * c \in Nat
    BY <1>1, <1>3
  <2>2. (j + 1) * c = j * c + c
    BY <2>1
  <2>3. ChunkStart(n, k) = FirstChunk[n] + j * c /\ ChunkStart(n, k + 1) = FirstChunk[n] + (j + 1) * c
    BY <1>3 DEF ChunkStart
  <2>4. DataStart(n, k) = 1 /\ c = BlockSize - 1
    BY <1>1, <1>3 DEF DataStart
  <2> HIDE DEF j, c
  <2>5. QED
    BY <1>1, <1>3, <2>1, <2>2, <2>3, <2>4 DEF c
<1>4. QED
  BY <1>2, <1>3

\* Block number k has the bytes that follow those of the blocks before it.
LEMMA NumberIs ==
  ASSUME NEW n \in Names, NEW k \in Nat, NEW i \in Nat,
         ChunkStart(n, k) < i, i <= ChunkStart(n, k + 1)
  PROVE  Number(n, i) = k
<1>1. FirstChunk[n] \in Nat /\ Chunk \in Nat \ {0}
  BY Chunks
<1>2. CASE k = 0
  BY <1>1, <1>2 DEF ChunkStart, Number
<1>3. CASE k # 0
  <2> DEFINE j == k - 1
             c == Chunk
             a == FirstChunk[n]
             x == i - a - 1 - j * c
  <2>1. j \in Nat /\ c \in Nat \ {0} /\ a \in Nat /\ j * c \in Nat /\ k = j + 1
    BY <1>1, <1>3
  <2>2. (j + 1) * c = j * c + c
    BY <2>1
  <2>3. ChunkStart(n, k) = a + j * c /\ ChunkStart(n, k + 1) = a + (j + 1) * c
    BY <1>3 DEF ChunkStart
  <2>4. Number(n, i) = IF i <= a THEN 0 ELSE (i - a - 1) \div c + 1
    BY DEF Number
  <2> HIDE DEF j, c, a
  <2>5. x \in 0 .. c - 1 /\ x + j * c = i - a - 1 /\ i > a
    BY <2>1, <2>2, <2>3
  <2> HIDE DEF x
  <2>6. (x + j * c) \div c = j
    BY <2>1, <2>5, DivModUnique
  <2>7. QED
    BY <2>1, <2>4, <2>5, <2>6
<1>4. QED
  BY <1>2, <1>3

LEMMA NumberBounds ==
  ASSUME NEW n \in Names, NEW i \in Nat \ {0}
  PROVE  /\ Number(n, i) \in Nat
         /\ ChunkStart(n, Number(n, i)) < i /\ i <= ChunkStart(n, Number(n, i) + 1)
<1>1. FirstChunk[n] \in Nat /\ Chunk \in Nat \ {0}
  BY Chunks
<1>2. CASE i <= FirstChunk[n]
  BY <1>1, <1>2 DEF ChunkStart, Number
<1>3. CASE i > FirstChunk[n]
  <2> DEFINE c == Chunk
             a == FirstChunk[n]
             y == i - a - 1
             q == y \div c
             x == y % c
  <2>1. c \in Nat \ {0} /\ a \in Nat /\ y \in Nat /\ i = a + 1 + y
    BY <1>1, <1>3
  <2>2. Number(n, i) = q + 1
    BY <1>1, <1>3 DEF Number
  <2> HIDE DEF y, a, c
  <2>3. q \in Nat /\ x \in 0 .. c - 1 /\ y = x + q * c
    BY <2>1, DivMod
  <2> HIDE DEF q, x
  <2>4. q * c \in Nat /\ (q + 1) * c = q * c + c
    BY <2>1, <2>3
  <2>5. ChunkStart(n, q + 1) = a + q * c /\ ChunkStart(n, (q + 1) + 1) = a + (q + 1) * c
    <3>1. PICK k : k = q + 1
      OBVIOUS
    <3>2. PICK j : j = (q + 1) + 1
      OBVIOUS
    <3>3. k # 0 /\ j # 0 /\ k - 1 = q /\ j - 1 = q + 1
      BY <2>3, <3>1, <3>2
    <3>4. ChunkStart(n, k) = FirstChunk[n] + (k - 1) * Chunk
          /\ ChunkStart(n, j) = FirstChunk[n] + (j - 1) * Chunk
      BY <3>3 DEF ChunkStart
    <3>5. ChunkStart(n, k) = a + q * c /\ ChunkStart(n, j) = a + (q + 1) * c
      BY <3>3, <3>4, Zenon DEF a, c
    <3>6. QED
      BY <3>1, <3>2, <3>5, Zenon
  <2>6. QED
    BY <2>1, <2>2, <2>3, <2>4, <2>5
<1>4. QED
  BY <1>1, <1>2, <1>3

LEMMA ChunksGrow ==
  ASSUME NEW n \in Names, NEW j \in Nat, NEW k \in Nat, j <= k
  PROVE  ChunkStart(n, j) <= ChunkStart(n, k)
<1>1. FirstChunk[n] \in Nat /\ Chunk \in Nat \ {0}
  BY Chunks
<1>2. CASE j = 0
  <2>1. ChunkStart(n, j) = 0 /\ ChunkStart(n, k) \in Nat
    BY <1>2, Chunks DEF ChunkStart
  <2>2. QED
    BY <2>1
<1>3. CASE j # 0
  <2>1. (j - 1) * Chunk <= (k - 1) * Chunk /\ (j - 1) * Chunk \in Nat /\ (k - 1) * Chunk \in Nat
    BY <1>1, <1>3, ProductMonotonic
  <2>2. ChunkStart(n, j) = FirstChunk[n] + (j - 1) * Chunk
        /\ ChunkStart(n, k) = FirstChunk[n] + (k - 1) * Chunk
    BY <1>3 DEF ChunkStart
  <2>3. QED
    BY <1>1, <2>1, <2>2
<1>4. QED
  BY <1>2, <1>3

\* Where a byte of the first m blocks, and some of the next one, is.
LEMMA BytePlace ==
  ASSUME NEW n \in Names, NEW m \in Nat, NEW u \in DataStart(n, m) .. BlockSize,
         NEW i \in Nat \ {0}, i <= ChunkStart(n, m) + u - DataStart(n, m)
  PROVE  /\ Number(n, i) \in 0 .. m
         /\ PlaceOf(n, i) \in DataStart(n, Number(n, i)) .. BlockSize - 1
         /\ Number(n, i) = m => PlaceOf(n, i) < u
<1> DEFINE k == Number(n, i)
<1>1. k \in Nat /\ ChunkStart(n, k) < i /\ i <= ChunkStart(n, k + 1)
  BY NumberBounds
<1>2. /\ DataStart(n, k) \in 1 .. BlockSize /\ ChunkStart(n, k) \in Nat
      /\ ChunkStart(n, k + 1) = ChunkStart(n, k) + BlockSize - DataStart(n, k)
      /\ DataStart(n, m) \in 1 .. BlockSize /\ ChunkStart(n, m) \in Nat
      /\ ChunkStart(n, m + 1) = ChunkStart(n, m) + BlockSize - DataStart(n, m)
  BY <1>1, Chunks
<1>3. PlaceOf(n, i) = DataStart(n, k) + i - ChunkStart(n, k) - 1
  BY DEF PlaceOf
<1> HIDE DEF k
<1>4. BlockSize \in Nat
  BY BlockSets
<1>5. k <= m
  <2>1. CASE k >= m + 1
    <3>1. ChunkStart(n, m + 1) <= ChunkStart(n, k)
      BY <1>1, <2>1, ChunksGrow
    <3>2. QED
      BY <1>1, <1>2, <1>4, <3>1
  <2>2. QED
    BY <1>1, <2>1
<1>6. PlaceOf(n, i) \in DataStart(n, k) .. BlockSize - 1
  BY <1>1, <1>2, <1>3, <1>4
<1>7. k = m => PlaceOf(n, i) < u
  BY <1>1, <1>2, <1>3, <1>4
<1>8. QED
  BY <1>1, <1>5, <1>6, <1>7 DEF k

LEMMA PathExists ==
  ASSUME NEW d, NEW f, NEW S \in SUBSET FileIds, Links(Link(d), f, S), f \in S
  PROVE  \E g, m : /\ IsPath(d, f, g, m) /\ m < NumBlocks
                   /\ \A k \in 0 .. m : g[k] \in S
                   /\ \A k \in 1 .. m : g[k] # f
<1> DEFINE c == Chain(d, f)
           s == Link(d)
<1>1. Members(c) = S /\ c[NumBlocks] = 0
  BY SameWalk DEF Ends
<1>2. /\ 0 \notin S /\ f # 0
      /\ \A b \in S : s[b] \in (S \cup {0}) \ {f, b}
  BY ListHead, BlockSets
<1>3. Valid(f) = f
  BY BlockSets DEF Valid
<1>4. IsWalk(c, f, ValidNext(d))
  BY <1>3, ChainIsWalk
<1>5. /\ c \in [0 .. NumBlocks -> Blocks] /\ c[0] = f
      /\ \A k \in 1 .. NumBlocks : c[k] = IF c[k - 1] = 0 THEN 0 ELSE ValidNext(d)[c[k - 1]]
  BY <1>4 DEF IsWalk
<1>6. \A b \in S : ValidNext(d)[b] = s[b]
  BY <1>2, BlockSets DEF Valid, ValidNext, Link
<1>7. \A k \in 0 .. NumBlocks : c[k] # 0 => c[k] \in S
  BY <1>1, <1>5 DEF Members
<1> HIDE DEF c, s
<1>8. NumBlocks \in Nat /\ NumBlocks > 0
  BY BlockSets
<1>9. PICK n \in {k \in 0 .. NumBlocks : c[k] = 0} : \A k \in {k \in 0 .. NumBlocks : c[k] = 0} : n <= k
  <2>1. NumBlocks \in {k \in 0 .. NumBlocks : c[k] = 0}
    BY <1>1, <1>8
  <2>2. {k \in 0 .. NumBlocks : c[k] = 0} \subseteq Nat
    BY <1>8
  <2>3. QED
    BY <2>1, <2>2, LeastNatural
<1>10. n \in 1 .. NumBlocks /\ c[n] = 0 /\ \A k \in 0 .. n - 1 : c[k] # 0 /\ k \in 0 .. NumBlocks
  BY <1>2, <1>5, <1>8, <1>9
<1>11. \A k \in 0 .. n - 1 : c[k] \in S
  BY <1>7, <1>10
<1>12. \A k \in 1 .. n : c[k] = s[c[k - 1]]
  <2> TAKE k \in 1 .. n
  <2>1. k \in 1 .. NumBlocks /\ k - 1 \in 0 .. n - 1
    BY <1>10
  <2>2. QED
    BY <1>5, <1>6, <1>10, <1>11, <2>1
<1> DEFINE m == n - 1
           g == [k \in 0 .. m |-> c[k]]
<1>13. m \in Nat /\ m < NumBlocks
  BY <1>8, <1>10
<1>14. \A k \in 0 .. m : g[k] = c[k] /\ g[k] \in S
  BY <1>11
<1>15. g \in [0 .. m -> FileIds] /\ g[0] = f
  BY <1>5, <1>13, <1>14
<1>16. \A k \in 1 .. m : g[k] = s[g[k - 1]] /\ g[k] # f
  <2> TAKE k \in 1 .. m
  <2>1. k - 1 \in 0 .. m /\ k \in 0 .. m /\ k \in 1 .. n
    BY <1>10, <1>13
  <2>2. g[k] = s[g[k - 1]]
    BY <1>12, <1>14, <2>1
  <2>3. QED
    BY <1>2, <1>14, <2>1, <2>2
<1>17. s[g[m]] = 0
  BY <1>10, <1>12, <1>13, <1>14
<1> HIDE DEF m, g
<1>18. IsPath(d, f, g, m)
  BY <1>13, <1>15, <1>16, <1>17 DEF IsPath, s
<1>19. QED
  BY <1>13, <1>14, <1>16, <1>18

\* How many bytes of the last block are used.
LEMMA PathSize ==
  ASSUME NEW d, NEW L, DiskOK(d, L), NEW f \in L, L \in SUBSET FileIds,
         NEW g, NEW m, IsPath(d, f, g, m), Name(d[f]) \in Names
  PROVE  d[g[m]][0] \in DataStart(Name(d[f]), m) .. BlockSize
<1>1. m \in Nat /\ g[m] \in FileIds /\ g[0] = f /\ Link(d)[g[m]] = 0 /\ g[m] \in Blocks
  BY BlockSets DEF IsPath
<1>2. GoodBlock(d[g[m]]) /\ Link(d)[g[m]] = block_get_next(d[g[m]])
  BY <1>1, GoodBlocks, DiskLinks
<1>3. d[g[m]][0] \in Nat /\ d[g[m]][0] >= 1 /\ d[g[m]][0] <= BlockSize
  <2>1. d[g[m]][0] \in Nat /\ d[g[m]][0] >= 1
    BY <1>2, BlockSets DEF GoodBlock
  <2>2. d[g[m]][0] <= BlockSize
    BY <1>1, <1>2, NextOfBlock
  <2>3. QED
    BY <2>1, <2>2
<1>4. CASE m = 0
  <2>1. HeaderSize(Name(d[f])) <= d[f][0]
    BY DEF DiskOK
  <2>2. HeaderSize(Name(d[f])) \in Nat
    BY HeaderSizes
  <2>3. QED
    BY <1>1, <1>3, <1>4, <2>1, <2>2, BlockSets DEF DataStart
<1>5. CASE m # 0
  BY <1>3, <1>5, BlockSets DEF DataStart
<1>6. QED
  BY <1>4, <1>5

\* The blocks of a path are those that the code goes through.
LEMMA PathIsChain ==
  ASSUME NEW d, NEW L, DiskOK(d, L), NEW f \in FileIds, NEW g, NEW m, IsPath(d, f, g, m),
         m < NumBlocks
  PROVE  /\ m \in 0 .. NumBlocks /\ DOMAIN Chain(d, f) = 0 .. NumBlocks
         /\ \A k \in 0 .. m : Chain(d, f)[k] = g[k]
         /\ \A k \in m + 1 .. NumBlocks : Chain(d, f)[k] = 0
<1> DEFINE c == Chain(d, f)
           s == Link(d)
<1>1. /\ m \in Nat /\ g \in [0 .. m -> FileIds] /\ g[0] = f
      /\ \A k \in 1 .. m : g[k] = s[g[k - 1]]
      /\ s[g[m]] = 0
  BY DEF IsPath
<1>2. s \in [FileIds -> Blocks] /\ NumBlocks \in Nat /\ 0 \notin FileIds
  BY DiskLinks, BlockSets
<1>3. \A b \in FileIds : ValidNext(d)[b] = s[b]
  BY <1>2, BlockSets DEF ValidNext, Valid, Link
<1>4. Valid(f) = f
  BY BlockSets DEF Valid
<1>5. /\ c \in [0 .. NumBlocks -> Blocks] /\ c[0] = f
      /\ \A k \in 1 .. NumBlocks : c[k] = IF c[k - 1] = 0 THEN 0 ELSE ValidNext(d)[c[k - 1]]
  BY <1>4, ChainIsWalk DEF IsWalk
<1> HIDE DEF c, s
<1>6. \A k \in 0 .. m : c[k] = g[k]
  <2> DEFINE T == {k \in 0 .. m : c[k] = g[k]}
  <2>1. 0 \in T
    BY <1>1, <1>5
  <2>2. ASSUME NEW k \in 0 .. m - 1, k \in T
        PROVE  k + 1 \in T
    <3>1. k + 1 \in 1 .. m /\ k + 1 \in 1 .. NumBlocks /\ k \in 0 .. m /\ k + 1 \in 0 .. m
          /\ (k + 1) - 1 = k
      BY <1>1, <1>2
    <3>2. g[k + 1] = s[g[k]] /\ g[k] \in FileIds /\ c[k] = g[k]
      BY <1>1, <2>2, <3>1
    <3>3. c[k + 1] = IF c[k] = 0 THEN 0 ELSE ValidNext(d)[c[k]]
      BY <1>5, <3>1
    <3>4. QED
      BY <1>2, <1>3, <3>1, <3>2, <3>3
  <2>3. 0 \in Int /\ m \in Int
    BY <1>1
  <2> HIDE DEF T
  <2>4. \A k \in 0 .. m : k \in T
    BY <2>1, <2>2, <2>3, IntervalInduction, Zenon
  <2>5. QED
    BY <2>4 DEF T
<1>7. \A k \in m + 1 .. NumBlocks : c[k] = 0
  <2> DEFINE T == {k \in m + 1 .. NumBlocks : c[k] = 0}
  <2>1. m + 1 \in T
    <3>1. m + 1 \in 1 .. NumBlocks /\ m \in 0 .. m /\ (m + 1) - 1 = m /\ m + 1 \in m + 1 .. NumBlocks
      BY <1>1, <1>2
    <3>2. c[m + 1] = IF c[m] = 0 THEN 0 ELSE ValidNext(d)[c[m]]
      BY <1>5, <3>1
    <3>3. c[m] = g[m] /\ g[m] \in FileIds
      BY <1>1, <1>6, <3>1
    <3>4. QED
      BY <1>1, <1>3, <3>1, <3>2, <3>3
  <2>2. ASSUME NEW k \in m + 1 .. NumBlocks - 1, k \in T
        PROVE  k + 1 \in T
    <3>1. k + 1 \in 1 .. NumBlocks /\ (k + 1) - 1 = k /\ k + 1 \in m + 1 .. NumBlocks
      BY <1>1, <1>2
    <3>2. c[k + 1] = IF c[k] = 0 THEN 0 ELSE ValidNext(d)[c[k]]
      BY <1>5, <3>1
    <3>3. QED
      BY <2>2, <3>1, <3>2
  <2>3. m + 1 \in Int /\ NumBlocks \in Int
    BY <1>1, <1>2
  <2> HIDE DEF T
  <2>4. \A k \in m + 1 .. NumBlocks : k \in T
    BY <2>1, <2>2, <2>3, IntervalInduction, Zenon
  <2>5. QED
    BY <2>4 DEF T
<1>8. QED
  BY <1>1, <1>2, <1>5, <1>6, <1>7 DEF c

\* The bytes of a file are those of its blocks.  So are those of what a loader takes
\* for a file, whatever its size.
LEMMA PathData ==
  ASSUME NEW d, NEW L, DiskOK(d, L), NEW f \in FileIds,
         NEW g, NEW m, IsPath(d, f, g, m), m < NumBlocks, Name(d[f]) \in Names
  PROVE  Data(d, f) = DataOf(d, Name(d[f]), g, m)
<1> DEFINE c == Chain(d, f)
           n == Name(d[f])
<1>1. /\ m \in Nat /\ g \in [0 .. m -> FileIds] /\ g[0] = f
      /\ NumBlocks \in Nat /\ 0 \notin FileIds
  BY BlockSets DEF IsPath
<1>2. /\ DOMAIN c = 0 .. NumBlocks
      /\ \A k \in 0 .. m : c[k] = g[k]
      /\ \A k \in m + 1 .. NumBlocks : c[k] = 0
  BY PathIsChain
<1> HIDE DEF c
<1>3. (CHOOSE k \in DOMAIN c : c[k] # 0 /\ (k = NumBlocks \/ c[k + 1] = 0)) = m
  <2>1. m \in DOMAIN c /\ c[m] # 0 /\ (m = NumBlocks \/ c[m + 1] = 0)
    <3>1. m \in 0 .. m /\ m + 1 \in m + 1 .. NumBlocks
      BY <1>1, <1>2
    <3>2. QED
      BY <1>1, <1>2, <3>1
  <2>2. ASSUME NEW k \in DOMAIN c, c[k] # 0, k = NumBlocks \/ c[k + 1] = 0
        PROVE  k = m
    <3>1. k \in 0 .. NumBlocks
      BY <1>2
    <3>2. k \in 0 .. m
      BY <1>1, <1>2, <2>2, <3>1
    <3>3. CASE k < m
      <4>1. k + 1 \in 0 .. m
        BY <1>1, <3>2, <3>3
      <4>2. c[k + 1] # 0 /\ k # NumBlocks
        BY <1>1, <1>2, <3>3, <4>1
      <4>3. QED
        BY <2>2, <4>2
    <3>4. QED
      BY <1>1, <3>2, <3>3
  <2>3. QED
    BY <2>1, <2>2
<1>4. PICK u : u = d[g[m]][0]
  OBVIOUS
<1>5. u \in 1 .. BlockSize /\ c[m] = g[m]
  <2>1. g[m] \in FileIds /\ g[m] \in Blocks /\ m \in 0 .. m /\ Link(d)[g[m]] = 0
    BY <1>1, BlockSets DEF IsPath
  <2>2. GoodBlock(d[g[m]]) /\ block_get_next(d[g[m]]) = 0
    BY <2>1, GoodBlocks, DiskLinks
  <2>3. d[g[m]][0] \in Nat /\ d[g[m]][0] >= 1
    BY <2>2, BlockSets DEF GoodBlock
  <2>4. d[g[m]][0] <= BlockSize
    BY <2>2, NextOfBlock
  <2>5. QED
    BY <1>2, <1>4, <2>1, <2>3, <2>4, BlockSets
<1>6. DataLength(d, n, g, m) = ChunkStart(n, m) + u - DataStart(n, m)
  BY <1>4 DEF DataLength
<1>7. Data(d, f) = [i \in 1 .. ChunkStart(n, m) + u - DataStart(n, m) |->
                      d[c[Number(n, i)]][PlaceOf(n, i)]]
  BY <1>3, <1>4, <1>5, Zenon DEF Data, c, block_size, Number, PlaceOf
<1>8. \A i \in 1 .. ChunkStart(n, m) + u - DataStart(n, m) : c[Number(n, i)] = g[Number(n, i)]
  <2> TAKE i \in 1 .. ChunkStart(n, m) + u - DataStart(n, m)
  <2>1. i \in Nat \ {0} /\ i <= ChunkStart(n, m) + u - DataStart(n, m)
    OBVIOUS
  <2> HIDE DEF n
  <2>2. n \in Names
    BY DEF n
  <2>3. u \in DataStart(n, m) .. BlockSize
    <3>1. m = 0 => ChunkStart(n, m) = 0
      BY DEF ChunkStart
    <3>2. m # 0 => DataStart(n, m) = 1
      BY DEF DataStart
    <3>3. DataStart(n, m) \in Nat
      <4>1. m \in Nat
        BY <1>1
      <4>2. DataStart(n, m) \in 1 .. BlockSize
        BY <2>2, <4>1, Chunks
      <4>3. QED
        BY <4>2
    <3>4. BlockSize \in Nat /\ u \in Nat /\ 1 <= u /\ u <= BlockSize
      BY <1>5, BlockSets
    <3>5. CASE m = 0
      <4>1. i \in Nat /\ i >= 1 /\ i <= 0 + u - DataStart(n, m)
        BY <2>1, <3>1, <3>5
      <4>2. QED
        BY <3>3, <3>4, <4>1
    <3>6. CASE m # 0
      BY <3>2, <3>4, <3>6
    <3>7. QED
      BY <3>5, <3>6
  <2>4. Number(n, i) \in 0 .. m
    BY <1>1, <2>1, <2>2, <2>3, BytePlace
  <2>5. QED
    BY <1>2, <2>4
<1>9. QED
  BY <1>6, <1>7, <1>8 DEF DataOf

-----------------------------------------------------------------------------
(***************************************************************************)
(* A file that is not written.                                             *)
(***************************************************************************)
\* The blocks S of file f are the same, but for the next file of its header.
Untouched(d, e, f, S) ==
  /\ \A b \in S \ {f} : e[b] = d[b]
  /\ \A i \in Offsets \ {1} : e[f][i] = d[f][i]

LEMMA DataFrame ==
  ASSUME NEW d, NEW e, NEW L, L \in SUBSET FileIds, DiskOK(d, L), DiskOK(e, L), NEW f \in L,
         NEW S \in SUBSET FileIds, Links(Link(d), f, S), f \in S, Name(d[f]) \in Names,
         Untouched(d, e, f, S)
  PROVE  Data(e, f) = Data(d, f) /\ Name(e[f]) = Name(d[f])
<1>1. PICK g, m : /\ IsPath(d, f, g, m) /\ m < NumBlocks
                  /\ \A k \in 0 .. m : g[k] \in S
                  /\ \A k \in 1 .. m : g[k] # f
  BY PathExists
<1>2. /\ m \in Nat /\ g \in [0 .. m -> FileIds] /\ g[0] = f
      /\ \A k \in 1 .. m : g[k] = Link(d)[g[k - 1]]
      /\ Link(d)[g[m]] = 0
  BY <1>1 DEF IsPath
<1>3. \A b \in S : \A i \in Offsets : (b # f \/ i # 1) => e[b][i] = d[b][i]
  BY DEF Untouched
<1>4. 0 \in Offsets /\ 2 \in Offsets /\ f \in Blocks
  BY BlockSets
<1>5. Name(e[f]) = Name(d[f])
  BY <1>3, <1>4 DEF Name
<1>6. \A b \in S : Link(e)[b] = Link(d)[b]
  <2> TAKE b \in S
  <2>1. e[b][0] = d[b][0]
    BY <1>3, <1>4
  <2>2. QED
    BY <2>1 DEF Link, block_get_next
<1>7. IsPath(e, f, g, m)
  <2>1. \A k \in 1 .. m : g[k] = Link(e)[g[k - 1]]
    <3> TAKE k \in 1 .. m
    <3>1. k - 1 \in 0 .. m
      BY <1>2
    <3>2. QED
      BY <1>1, <1>2, <1>6, <3>1
  <2>2. Link(e)[g[m]] = 0
    BY <1>1, <1>2, <1>6
  <2>3. QED
    BY <1>2, <2>1, <2>2 DEF IsPath
<1>8. PICK n : n = Name(d[f])
  OBVIOUS
<1>9. n \in Names
  BY <1>8
<1>10. Data(d, f) = DataOf(d, n, g, m)
  BY <1>1, <1>8, PathData
<1>11. Data(e, f) = DataOf(e, n, g, m)
  BY <1>1, <1>5, <1>7, <1>8, PathData
<1>12. PICK u : u = d[g[m]][0]
  OBVIOUS
<1>13. e[g[m]][0] = u /\ u \in DataStart(n, m) .. BlockSize
  BY <1>1, <1>2, <1>3, <1>4, <1>8, <1>12, PathSize
<1>14. PICK l : l = ChunkStart(n, m) + u - DataStart(n, m)
  OBVIOUS
<1>15. DataLength(d, n, g, m) = l /\ DataLength(e, n, g, m) = l
  BY <1>12, <1>13, <1>14 DEF DataLength
<1>16. \A i \in 1 .. l : e[g[Number(n, i)]][PlaceOf(n, i)] = d[g[Number(n, i)]][PlaceOf(n, i)]
  <2> TAKE i \in 1 .. l
  <2>1. i \in Nat \ {0} /\ i <= ChunkStart(n, m) + u - DataStart(n, m)
    BY <1>14
  <2>2. /\ Number(n, i) \in 0 .. m
        /\ PlaceOf(n, i) \in DataStart(n, Number(n, i)) .. BlockSize - 1
    BY <1>2, <1>9, <1>13, <2>1, BytePlace
  <2>3. PICK k : k = Number(n, i)
    OBVIOUS
  <2>4. k \in Nat /\ k \in 0 .. m /\ DataStart(n, k) \in 1 .. BlockSize /\ (k = 0 => DataStart(n, k) >= 3)
    <3>1. k \in 0 .. m
      BY <2>2, <2>3
    <3>2. k \in Nat
      BY <1>2, <3>1
    <3>3. DataStart(n, k) \in 1 .. BlockSize /\ DataStart(n, 0) >= 3
      BY <1>9, <3>2, Chunks
    <3>4. QED
      BY <3>1, <3>2, <3>3
  <2>5. PlaceOf(n, i) \in Offsets /\ (k = 0 => PlaceOf(n, i) # 1)
    BY <2>2, <2>3, <2>4, BlockSets
  <2>6. g[k] \in S /\ (k # 0 => g[k] # f)
    BY <1>1, <1>2, <2>4
  <2>7. e[g[k]][PlaceOf(n, i)] = d[g[k]][PlaceOf(n, i)]
    BY <1>3, <2>5, <2>6
  <2>8. QED
    BY <2>3, <2>7
<1>17. DataOf(e, n, g, m) = DataOf(d, n, g, m)
  BY <1>15, <1>16 DEF DataOf
<1>18. QED
  BY <1>5, <1>10, <1>11, <1>17

-----------------------------------------------------------------------------
(***************************************************************************)
(* The files that a call is not about.                                     *)
(***************************************************************************)
Others(L) == L \ {call.file}

\* Each one has its blocks, and those that seem to be free are not of one.
Apart(L, own) ==
  /\ \A f \in Others(L) : Links(Link(disk), f, Own(own, f)) /\ own[f] = f
  /\ \E F \in SUBSET FileIds :
       /\ FreeHead(disk) \in F \cup {0}
       /\ \A b \in F : Link(disk)[b] \in F \cup {0} /\ own[b] \notin Others(L)

LEMMA LayoutApart ==
  ASSUME NEW own, NEW s, NEW M, M \in SUBSET FileIds, NEW h, Layout(own, s, M, h),
         NEW L, Others(L) \subseteq M, \A b \in FileIds : own[b] # call.file => Link(disk)[b] = s[b]
  PROVE  \A f \in Others(L) : Links(Link(disk), f, Own(own, f)) /\ own[f] = f
<1> SUFFICES ASSUME NEW f \in Others(L)
             PROVE  Links(Link(disk), f, Own(own, f)) /\ own[f] = f
  OBVIOUS
<1>1. f \in M /\ f # call.file
  BY DEF Others
<1>2. Links(s, f, Own(own, f))
  BY <1>1 DEF Layout
<1>3. \A b \in Own(own, f) : Link(disk)[b] = s[b]
  BY <1>1 DEF Own
<1>4. Links(Link(disk), f, Own(own, f))
  BY <1>2, <1>3, ListFrame
<1>5. own[f] = f
  BY <1>1, FirstBlocks
<1>6. QED
  BY <1>4, <1>5

LEMMA FreeApart ==
  ASSUME NEW own, NEW s, NEW M, M \in SUBSET FileIds, NEW h, Layout(own, s, M, h),
         NEW L, L \in SUBSET FileIds, Others(L) \subseteq M, call.file \in FileIds \cup {0},
         \A b \in FileIds : \/ Link(disk)[b] = s[b]
                            \/ own[b] = call.file /\ Link(disk)[b] \in {0, h},
         FreeHead(disk) # 0 => FreeHead(disk) \in FileIds /\ own[FreeHead(disk)] \in {0, call.file}
  PROVE  \E F \in SUBSET FileIds :
           /\ FreeHead(disk) \in F \cup {0}
           /\ \A b \in F : Link(disk)[b] \in F \cup {0} /\ own[b] \notin Others(L)
<1> DEFINE F == {b \in FileIds : own[b] \in {0, call.file}}
<1>1. F \in SUBSET FileIds /\ FreeHead(disk) \in F \cup {0}
  OBVIOUS
<1>2. h # 0 => h \in FileIds /\ own[h] = 0
  <2>1. h # 0 => h \in FileIds /\ own[h] = 0 /\ h \notin M
    BY LayoutFacts
  <2>2. QED
    BY <2>1
<1>3. ASSUME NEW b \in F
      PROVE  Link(disk)[b] \in F \cup {0} /\ own[b] \notin Others(L)
  <2>1. b \in FileIds /\ own[b] \in {0, call.file}
    OBVIOUS
  <2>2. BlockFacts(own, s, M, h, b)
    BY <2>1, NextBlock
  <2>3. s[b] # 0 => s[b] \in FileIds /\ own[s[b]] = own[b]
    BY <2>2 DEF BlockFacts
  <2>4. Link(disk)[b] \in F \cup {0}
    BY <1>2, <2>1, <2>3
  <2>5. own[b] \notin Others(L)
    BY <2>1, BlockSets DEF Others
  <2>6. QED
    BY <2>4, <2>5
<1> HIDE DEF F
<1>4. QED
  BY <1>1, <1>3

\* The file of the call is 0, or a file.
LEMMA CallFile ==
  ASSUME NEW L, NEW own, BlockInvariantOf(L, own), ~ Resting
  PROVE  pc \in {"size", "read"} \/ call.file \in FileIds \cup {0}
<1>1. L \in SUBSET FileIds
  BY DEF BlockInvariantOf
<1>2. QED
  BY <1>1 DEF BlockInvariantOf, Steps, Resting, AtFind, AtFound, AtScan, AtLink, AtFill, AtPublish,
     AtWrite, AtCommit, AtFree, AtFreed, AtClear, AtUnlink, AtDeleted, Closed

LEMMA WholeApart ==
  ASSUME NEW own, NEW L, L \in SUBSET FileIds, Layout(own, Link(disk), L, FreeHead(disk))
  PROVE  Apart(L, own)
<1>1. \A f \in Others(L) : Links(Link(disk), f, Own(own, f)) /\ own[f] = f
  <2> TAKE f \in Others(L)
  <2>1. f \in L
    BY DEF Others
  <2>2. own[f] = f
    BY <2>1, FirstBlocks
  <2>3. QED
    BY <2>1, <2>2 DEF Layout
<1> DEFINE F == Own(own, 0)
<1>2. F \in SUBSET FileIds /\ FreeHead(disk) \in F \cup {0}
  <2>1. FreeHead(disk) # 0 => FreeHead(disk) \in FileIds /\ own[FreeHead(disk)] = 0
    BY LayoutFacts
  <2>2. QED
    BY <2>1 DEF Own
<1>3. \A b \in F : Link(disk)[b] \in F \cup {0} /\ own[b] \notin Others(L)
  <2> TAKE b \in F
  <2>1. b \in FileIds /\ own[b] = 0
    BY DEF Own
  <2>2. BlockFacts(own, Link(disk), L, FreeHead(disk), b)
    BY <2>1, NextBlock
  <2>3. Link(disk)[b] \in F \cup {0}
    BY <2>1, <2>2 DEF BlockFacts, Own
  <2>4. own[b] \notin Others(L)
    BY <2>1, BlockSets DEF Others
  <2>5. QED
    BY <2>3, <2>4
<1> HIDE DEF F
<1>4. QED
  BY <1>1, <1>2, <1>3 DEF Apart

LEMMA PublishApart ==
  ASSUME NEW own, NEW L, L \in SUBSET FileIds, AtPublish(L, own)
  PROVE  Apart(L, own)
<1> DEFINE b == call.newFile
           M == L \cup {b}
<1>1. /\ Layout(own, Link(disk), M, call.newFree) /\ b \in FileIds /\ b = FreeHead(disk)
      /\ b \notin L /\ own[b] = b /\ Link(disk)[b] = 0 /\ M \in SUBSET FileIds
  BY DEF AtPublish, NewBlock
<1>2. \A f \in Others(L) : Links(Link(disk), f, Own(own, f)) /\ own[f] = f
  <2> TAKE f \in Others(L)
  <2>1. f \in M
    BY DEF Others
  <2>2. own[f] = f
    BY <1>1, <2>1, FirstBlocks
  <2>3. QED
    BY <1>1, <2>1, <2>2 DEF Layout
<1>3. \E F \in SUBSET FileIds :
        /\ FreeHead(disk) \in F \cup {0}
        /\ \A c \in F : Link(disk)[c] \in F \cup {0} /\ own[c] \notin Others(L)
  <2>1. {b} \in SUBSET FileIds /\ FreeHead(disk) \in {b} \cup {0}
    BY <1>1
  <2>2. \A c \in {b} : Link(disk)[c] \in {b} \cup {0} /\ own[c] \notin Others(L)
    BY <1>1 DEF Others
  <2>3. QED
    BY <2>1, <2>2
<1>4. QED
  BY <1>2, <1>3 DEF Apart

\* The step is one of a write, a clear or a delete.
LEMMA ChangeApart ==
  ASSUME NEW L, NEW own, BlockInvariantOf(L, own), call.file \in FileIds,
         NEW s, NEW M, M \in SUBSET FileIds, NEW h, Layout(own, s, M, h), Others(L) \subseteq M,
         \A b \in FileIds : \/ Link(disk)[b] = s[b]
                            \/ own[b] = call.file /\ Link(disk)[b] \in {0, h},
         FreeHead(disk) # 0 => FreeHead(disk) \in FileIds /\ own[FreeHead(disk)] \in {0, call.file}
  PROVE  Apart(L, own)
<1>1. L \in SUBSET FileIds
  BY DEF BlockInvariantOf
<1>2. \A b \in FileIds : own[b] # call.file => Link(disk)[b] = s[b]
  OBVIOUS
<1>3. \A f \in Others(L) : Links(Link(disk), f, Own(own, f)) /\ own[f] = f
  BY <1>2, LayoutApart
<1>4. call.file \in FileIds \cup {0}
  OBVIOUS
<1>5. \E F \in SUBSET FileIds :
        /\ FreeHead(disk) \in F \cup {0}
        /\ \A b \in F : Link(disk)[b] \in F \cup {0} /\ own[b] \notin Others(L)
  BY <1>1, <1>4, FreeApart
<1>6. QED
  BY <1>3, <1>5 DEF Apart

LEMMA OthersApart ==
  ASSUME NEW L, NEW own, BlockInvariantOf(L, own), ~ Resting
  PROVE  Apart(L, own)
<1>1. /\ L \in SUBSET FileIds /\ own \in [FileIds -> Blocks] /\ DiskOK(disk, L) /\ pc \in Steps
      /\ pc \notin {"idle", "done"} /\ Writers(L, own)
  BY DEF BlockInvariantOf, Resting
<1>2. /\ Link(disk) \in [FileIds -> Blocks] /\ FreeHead(disk) \in Blocks
      /\ DOMAIN Link(disk) = FileIds
      /\ FreeHead(disk) # 0 => FreeHead(disk) \in FileIds
  BY <1>1, DiskLinks, BlockSets DEF Link
<1>3. Others(L) \subseteq L /\ Others(L) \subseteq L \ {call.file}
  BY DEF Others
<1>4. CASE pc \in {"find", "found", "size", "read", "scan", "link", "fill", "free"}
  <2>1. Layout(own, Link(disk), L, FreeHead(disk))
    BY <1>4 DEF BlockInvariantOf, AtFind, AtFound, AtQuery, AtScan, AtLink, AtFill, AtFree, Whole
  <2>2. QED
    BY <1>1, <2>1, WholeApart
<1>5. CASE pc = "publish"
  BY <1>1, <1>5, PublishApart DEF BlockInvariantOf
<1>6. CASE pc = "write"
  <2>1. AtWrite(L, own)
    BY <1>6 DEF BlockInvariantOf
  <2>2. PICK w, h : w = writer[call.file] /\ h = call.newFree
    OBVIOUS
  <2>3. /\ call.file \in L /\ call.file \in FileIds /\ w # 0
        /\ Layout(own, Cut(Link(disk), w), L, h) /\ Link(disk)[w] \in {0, h}
        /\ FreeHead(disk) # 0 => own[FreeHead(disk)] \in {0, call.file}
    BY <1>1, <2>1, <2>2 DEF AtWrite
  <2>4. w \in FileIds /\ own[w] = call.file
    BY <1>1, <2>2, <2>3, BlockSets DEF Writers
  <2>5. \A b \in FileIds : \/ Link(disk)[b] = Cut(Link(disk), w)[b]
                           \/ own[b] = call.file /\ Link(disk)[b] \in {0, h}
    BY <1>2, <2>3, <2>4 DEF Cut
  <2>6. QED
    BY <1>1, <1>2, <1>3, <2>3, <2>5, ChangeApart
<1>7. CASE pc = "commit"
  <2>1. AtCommit(L, own)
    BY <1>7 DEF BlockInvariantOf
  <2>2. PICK h : h = call.newFree
    OBVIOUS
  <2>3. /\ call.file \in FileIds /\ Layout(own, Link(disk), L, h)
        /\ FreeHead(disk) # 0 => own[FreeHead(disk)] \in {0, call.file}
    BY <1>1, <2>1, <2>2 DEF AtCommit
  <2>4. QED
    BY <1>1, <1>2, <1>3, <2>3, ChangeApart
<1>8. CASE pc \in {"freed", "clear"}
  <2>1. PICK h : h = IF pc = "freed" THEN call.newFree ELSE FreeHead(disk)
    OBVIOUS
  <2>2. /\ call.file \in L /\ call.file \in FileIds
        /\ Layout(own, Cut(Link(disk), call.file), L, h)
        /\ Link(disk)[call.file] \in {0, h}
    BY <1>1, <1>8, <2>1 DEF BlockInvariantOf, AtFreed, AtClear, Closed
  <2>3. FreeHead(disk) # 0 => own[FreeHead(disk)] = 0
    <3>1. pc = "freed" => (FreeHead(disk) # 0 => own[FreeHead(disk)] = 0)
      BY DEF BlockInvariantOf, AtFreed
    <3>2. h # 0 => own[h] = 0
      BY <1>1, <2>2, LayoutFacts
    <3>3. QED
      BY <1>8, <2>1, <3>1, <3>2
  <2>4. own[call.file] = call.file
    BY <1>1, <2>2, FirstBlocks
  <2>5. \A b \in FileIds : \/ Link(disk)[b] = Cut(Link(disk), call.file)[b]
                           \/ own[b] = call.file /\ Link(disk)[b] \in {0, h}
    BY <1>2, <2>2, <2>4 DEF Cut
  <2>6. QED
    BY <1>1, <1>2, <1>3, <2>2, <2>3, <2>5, ChangeApart
<1>9. CASE pc \in {"unlink", "deleted"}
  <2>1. /\ call.file \in L /\ call.file \in FileIds
        /\ Layout(own, Link(disk), L \ {call.file}, call.file)
        /\ FreeHead(disk) # 0 => own[FreeHead(disk)] = 0
    BY <1>1, <1>9 DEF BlockInvariantOf, AtUnlink, AtDeleted, Closed
  <2>2. L \ {call.file} \in SUBSET FileIds
    BY <1>1
  <2>3. QED
    BY <1>1, <1>2, <1>3, <2>1, <2>2, ChangeApart
<1>10. QED
  BY <1>1, <1>4, <1>5, <1>6, <1>7, <1>8, <1>9 DEF Steps

\* They have their names, and are in the list of files but at one point.
LEMMA OthersListed ==
  ASSUME NEW L, NEW own, BlockInvariantOf(L, own), ~ Resting
  PROVE  /\ \A f \in Others(L) : Name(disk[f]) \in Names
         /\ ~ HalfLinked => Others(L) \subseteq Listed(disk)
<1>1. /\ L \in SUBSET FileIds /\ pc \in Steps /\ pc \notin {"idle", "done"}
  BY DEF BlockInvariantOf, Resting
<1>2. Others(L) \subseteq L /\ Others(L) \subseteq L \ {call.file}
  BY DEF Others
<1>3. CASE Listing(disk, L)
  BY <1>1, <1>2, <1>3, ListingFacts, ListedAre
<1>4. CASE pc = "fill" /\ call.previous # 0
  <2>1. PICK nf : nf = [NextOf(disk, L) EXCEPT ![call.previous] = call.next]
    OBVIOUS
  <2>1a. Directory(disk, L, FirstFile(disk), nf)
    BY <1>4, <2>1 DEF BlockInvariantOf, AtFill
  <2>2. \A f \in L : Name(disk[f]) \in Names
    BY <1>1, <2>1a, DirectoryFacts
  <2>3. QED
    BY <1>2, <1>4, <2>2 DEF HalfLinked
<1>5. CASE pc = "publish" /\ call.previous # 0
  <2>1. PICK M : M = L \cup {call.newFile}
    OBVIOUS
  <2>2. M \in SUBSET FileIds /\ Listing(disk, M)
    BY <1>1, <1>5, <2>1 DEF BlockInvariantOf, AtPublish, NewBlock, Listing
  <2>3. (\A f \in M : Name(disk[f]) \in Names) /\ Listed(disk) = M
    BY <2>2, ListingFacts, ListedAre
  <2>4. QED
    BY <1>2, <2>1, <2>3
<1>6. CASE pc = "deleted" /\ call.previous # 0
  <2>1. PICK M : M = L \ {call.file}
    OBVIOUS
  <2>2. M \in SUBSET FileIds /\ Listing(disk, M)
    BY <1>1, <1>6, <2>1 DEF BlockInvariantOf, AtDeleted, Listing
  <2>3. (\A f \in M : Name(disk[f]) \in Names) /\ Listed(disk) = M
    BY <2>2, ListingFacts, ListedAre
  <2>4. QED
    BY <1>2, <2>1, <2>3
<1>7. QED
  BY <1>1, <1>3, <1>4, <1>5, <1>6 DEF Steps, BlockInvariantOf, AtFind, AtFound, AtQuery, AtScan,
     AtLink, AtFill, AtPublish, AtWrite, AtCommit, AtFree, AtFreed, AtClear, AtUnlink, AtDeleted, Whole

-----------------------------------------------------------------------------
(***************************************************************************)
(* What a step changes on the disk e: the blocks that are free or of the   *)
(* file of the call, and the next file of a header.                        *)
(***************************************************************************)
Changes(e, own) ==
  \A b \in FileIds : \/ e[b] = disk[b]
                     \/ own[b] \in {0, call.file}
                     \/ own[b] = b /\ \A i \in Offsets \ {1} : e[b][i] = disk[b][i]

LEMMA ChangesBlock ==
  ASSUME NEW L, NEW own, BlockInvariantOf(L, own), NEW e, NEW b \in Blocks, NEW v,
         e = [disk EXCEPT ![b] = v],
         \/ b = 0
         \/ own[b] \in {0, call.file}
         \/ own[b] = b /\ \A i \in Offsets \ {1} : v[i] = disk[b][i]
  PROVE  Changes(e, own)
<1>1. DiskOK(disk, L)
  BY DEF BlockInvariantOf
<1>2. Wrote(disk, e, b, v)
  BY <1>1, WriteIsWrote
<1>3. e[b] = v /\ \A c \in Blocks \ {b} : e[c] = disk[c]
  BY <1>2 DEF Wrote
<1>4. QED
  BY <1>3, BlockSets DEF Changes

\* The call goes on: with the same file, or with the one that it was looking for.
CallGoesOn ==
  /\ call'.before = call.before
  /\ call'.file = call.file \/ call.file = 0

LEMMA HeadFacts ==
  ASSUME NEW own, NEW s, NEW L, L \in SUBSET FileIds, NEW h, Layout(own, s, L, h), h # 0
  PROVE  h \in FileIds /\ own[h] = 0
<1>1. h # 0 => h \in FileIds /\ own[h] = 0 /\ h \notin L
  BY LayoutFacts, Zenon
<1>2. QED
  BY <1>1

LEMMA LinkFrame ==
  ASSUME NEW L, NEW own, BlockInvariantOf(L, own), CreateLink
  PROVE  CallGoesOn /\ Changes(disk', own)
<1>1. pc = "link" /\ DOMAIN call = Fields /\ L \in SUBSET FileIds /\ DiskOK(disk, L)
      /\ AtLink(L, own)
  BY DEF CreateLink, BlockInvariantOf
<1>2. CallGoesOn
  <2>1. call' = call \/ call' = [call EXCEPT !.newFirst = call.newFile]
    BY DEF CreateLink, Goto
  <2>2. QED
    BY <1>1, <2>1 DEF CallGoesOn, Fields
<1>3. CASE disk' = disk
  BY <1>2, <1>3 DEF Changes
<1>4. CASE /\ call.previous # 0
           /\ disk' = [disk EXCEPT ![call.previous] = [disk[call.previous] EXCEPT ![1] = call.newFile]]
  <2>1. PICK p : p = call.previous
    OBVIOUS
  <2>2. p \in L /\ p \in FileIds /\ p \in Blocks
    BY <1>1, <1>4, <2>1, BlockSets DEF AtLink, Place, Follows
  <2>3. own[p] = p
    BY <1>1, <2>2, FirstBlocks DEF AtLink, Whole
  <2>4. PICK v : v = [disk[p] EXCEPT ![1] = call.newFile]
    OBVIOUS
  <2>5. GoodBlock(disk[p])
    BY <1>1, <2>2, GoodBlocks
  <2>6. \A i \in Offsets \ {1} : v[i] = disk[p][i]
    BY <2>4, <2>5 DEF GoodBlock
  <2>7. disk' = [disk EXCEPT ![p] = v]
    BY <1>4, <2>1, <2>4
  <2>8. QED
    BY <1>2, <2>2, <2>3, <2>6, <2>7, ChangesBlock
<1>5. QED
  BY <1>2, <1>3, <1>4 DEF CreateLink, WriteBlock

LEMMA UnlinkFrame ==
  ASSUME NEW L, NEW own, BlockInvariantOf(L, own), DeleteUnlink
  PROVE  CallGoesOn /\ Changes(disk', own)
<1>1. pc = "unlink" /\ DOMAIN call = Fields /\ L \in SUBSET FileIds /\ DiskOK(disk, L)
      /\ AtUnlink(L, own)
  BY DEF DeleteUnlink, BlockInvariantOf
<1>2. CallGoesOn
  <2>1. call' = call \/ call' = [call EXCEPT !.newFirst = call.next]
    BY DEF DeleteUnlink, Goto
  <2>2. QED
    BY <1>1, <2>1 DEF CallGoesOn, Fields
<1>3. CASE disk' = disk
  BY <1>2, <1>3 DEF Changes
<1>4. CASE /\ call.previous # 0
           /\ disk' = [disk EXCEPT ![call.previous] = [disk[call.previous] EXCEPT ![1] = call.next]]
  <2>1. PICK p : p = call.previous
    OBVIOUS
  <2>2. p \in L /\ p \in FileIds /\ p \in Blocks
    BY <1>1, <1>4, <2>1, BlockSets DEF AtUnlink, Follows
  <2>3. p = call.file \/ own[p] = p
    <3>1. Layout(own, Link(disk), L \ {call.file}, call.file) /\ L \ {call.file} \in SUBSET FileIds
      BY <1>1 DEF AtUnlink
    <3>2. QED
      BY <2>2, <3>1, FirstBlocks
  <2>4. PICK v : v = [disk[p] EXCEPT ![1] = call.next]
    OBVIOUS
  <2>5. GoodBlock(disk[p])
    BY <1>1, <2>2, GoodBlocks
  <2>6. \A i \in Offsets \ {1} : v[i] = disk[p][i]
    BY <2>4, <2>5 DEF GoodBlock
  <2>7. disk' = [disk EXCEPT ![p] = v]
    BY <1>4, <2>1, <2>4
  <2>8. p = call.file => own[p] = 0
    <3>1. call.file \in FileIds /\ own[call.file] = 0
      <4>1. PICK h : h = call.file
        OBVIOUS
      <4>2. h # 0 /\ Layout(own, Link(disk), L \ {call.file}, h) /\ L \ {call.file} \in SUBSET FileIds
        BY <1>1, <4>1, BlockSets DEF AtUnlink, Closed
      <4>3. h \in FileIds /\ own[h] = 0
        BY <4>2, HeadFacts, Zenon
      <4>4. QED
        BY <4>1, <4>3
    <3>2. QED
      BY <3>1
  <2>9. \/ own[p] \in {0, call.file}
        \/ own[p] = p /\ \A i \in Offsets \ {1} : v[i] = disk[p][i]
    BY <2>3, <2>6, <2>8
  <2>10. QED
    BY <1>2, <2>2, <2>7, <2>9, ChangesBlock
<1>5. QED
  BY <1>2, <1>3, <1>4 DEF DeleteUnlink, WriteBlock

LEMMA FillFrame ==
  ASSUME NEW L, NEW own, BlockInvariantOf(L, own), CreateFill
  PROVE  CallGoesOn /\ Changes(disk', own)
<1>1. pc = "fill" /\ DOMAIN call = Fields /\ L \in SUBSET FileIds /\ AtFill(L, own)
  BY DEF CreateFill, BlockInvariantOf
<1>2. CallGoesOn
  BY <1>1 DEF CreateFill, Goto, CallGoesOn, Fields
<1>3. PICK b, v : b = call.newFile /\ v = FileHeader(disk[b], call.name, call.next)
  OBVIOUS
<1>4. disk' = [disk EXCEPT ![b] = v]
  BY <1>3 DEF CreateFill, WriteBlock
<1>5. b \in FileIds /\ b \in Blocks /\ b # 0 /\ Layout(own, Link(disk), L, b)
  BY <1>1, <1>3, BlockSets DEF AtFill, NewBlock
<1>6. own[b] = 0
  BY <1>1, <1>5, HeadFacts, Zenon
<1>7. QED
  BY <1>2, <1>4, <1>5, <1>6, ChangesBlock

LEMMA WriteFrame ==
  ASSUME NEW L, NEW own, BlockInvariantOf(L, own), WriteStep
  PROVE  CallGoesOn /\ Changes(disk', own)
<1>1. pc = "write" /\ DOMAIN call = Fields /\ L \in SUBSET FileIds /\ AtWrite(L, own)
      /\ Writers(L, own)
  BY DEF WriteStep, BlockInvariantOf
<1>2. CallGoesOn
  <2>1. \/ call' = call
        \/ call' = [call EXCEPT !.status = OUT_OF_MEMORY]
        \/ \E x, y : call' = [call EXCEPT !.newFree = x, !.bytes = y, !.used = 1]
    BY DEF WriteStep, Goto
  <2>2. CASE call' = call
    BY <2>2 DEF CallGoesOn
  <2>3. CASE call' = [call EXCEPT !.status = OUT_OF_MEMORY]
    BY <1>1, <2>3 DEF CallGoesOn, Fields
  <2>4. ASSUME NEW x, NEW y, call' = [call EXCEPT !.newFree = x, !.bytes = y, !.used = 1]
        PROVE  CallGoesOn
    BY <1>1, <2>4 DEF CallGoesOn, Fields
  <2>5. QED
    BY <2>1, <2>2, <2>3, <2>4
<1>3. PICK b : b = writer[call.file]
  OBVIOUS
<1>4. b \in Blocks /\ own[b] = call.file
  BY <1>1, <1>3, BlockSets DEF AtWrite, Writers
<1>5. disk' = disk \/ \E v : disk' = [disk EXCEPT ![b] = v]
  BY <1>3 DEF WriteStep, WriteBlock
<1>6. CASE disk' = disk
  BY <1>2, <1>6 DEF Changes
<1>7. ASSUME NEW v, disk' = [disk EXCEPT ![b] = v]
      PROVE  Changes(disk', own)
  BY <1>4, <1>7, ChangesBlock
<1>8. QED
  BY <1>2, <1>5, <1>6, <1>7

LEMMA FreeFrame ==
  ASSUME NEW L, NEW own, BlockInvariantOf(L, own), FreeStep
  PROVE  CallGoesOn /\ Changes(disk', own)
<1>1. pc = "free" /\ DOMAIN call = Fields
  BY DEF FreeStep, BlockInvariantOf
<1>2. CallGoesOn
  <2>1. call' = call \/ call' = [call EXCEPT !.block = block_get_next(buffer)]
    BY DEF FreeStep, Goto
  <2>2. QED
    BY <1>1, <2>1 DEF CallGoesOn, Fields
<1>3. PICK b : b = call.block
  OBVIOUS
<1>4. b \in Blocks /\ own[b] = call.file
  BY <1>1, <1>3, FreeFacts, BlockSets
<1>5. disk' = disk \/ \E v : disk' = [disk EXCEPT ![b] = v]
  BY <1>3 DEF FreeStep, WriteBlock, ReadBlock
<1>6. CASE disk' = disk
  BY <1>2, <1>6 DEF Changes
<1>7. ASSUME NEW v, disk' = [disk EXCEPT ![b] = v]
      PROVE  Changes(disk', own)
  BY <1>4, <1>7, ChangesBlock
<1>8. QED
  BY <1>2, <1>5, <1>6, <1>7

LEMMA FreedFrame ==
  ASSUME NEW L, NEW own, BlockInvariantOf(L, own), ClearFreed
  PROVE  CallGoesOn /\ Changes(disk', own)
<1>1. call' = call
  BY DEF ClearFreed, Goto
<1>2. PICK v : disk' = [disk EXCEPT ![SUPER_BLOCK] = v]
  BY DEF ClearFreed, WriteBlock
<1>3. SUPER_BLOCK \in Blocks /\ SUPER_BLOCK = 0
  BY BlockSets
<1>4. Changes(disk', own)
  BY <1>2, <1>3, ChangesBlock
<1>5. QED
  BY <1>1, <1>4 DEF CallGoesOn

LEMMA FreeStartCall ==
  ASSUME NEW c, DOMAIN c = Fields, NEW first, FreeStart(first, c)
  PROVE  call'.before = c.before /\ call'.file = c.file
  BY DEF FreeStart, Goto, Fields

\* The steps that do not write.
LEMMA LookFrame ==
  ASSUME NEW L, NEW own, BlockInvariantOf(L, own),
         \/ FindStep \/ SizeStart \/ SizeStep \/ ReadStep \/ CreateStart \/ CreateScan
         \/ ClearStart \/ DeleteStart,
         ~ Resting'
  PROVE  CallGoesOn /\ Changes(disk', own)
<1>1. DOMAIN call = Fields
  BY DEF BlockInvariantOf
<1>2. disk' = disk
  BY DEF FindStep, SizeStart, SizeStep, ReadStep, CreateStart, CreateScan, ClearStart, DeleteStart,
     FreeStart, ReadBlock
<1>3. Changes(disk', own)
  BY <1>2 DEF Changes
<1>4. CASE FindStep
  <2>1. pc = "find" /\ call.file = 0
    BY <1>4 DEF FindStep, BlockInvariantOf, AtFind
  <2>2. \/ call' = call
        \/ \E x : call' = [call EXCEPT !.file = x]
        \/ \E x, y : call' = [call EXCEPT !.next = x, !.previous = y]
    BY <1>4 DEF FindStep, Goto
  <2>3. CallGoesOn
    BY <1>1, <2>1, <2>2 DEF CallGoesOn, Fields
  <2>4. QED
    BY <1>3, <2>3
<1>5. CASE SizeStart \/ SizeStep
  <2>1. \/ \E x : call' = [call EXCEPT !.used = x]
        \/ \E x : call' = [call EXCEPT !.size = x, !.used = 1]
    BY <1>5 DEF SizeStart, SizeStep, Goto, Done, Resting
  <2>2. CallGoesOn
    BY <1>1, <2>1 DEF CallGoesOn, Fields
  <2>3. QED
    BY <1>3, <2>2
<1>6. CASE ReadStep
  <2>1. \E x, y : call' = [call EXCEPT !.bytes = x, !.size = y]
    BY <1>6 DEF ReadStep, Goto, Done, Resting
  <2>2. CallGoesOn
    BY <1>1, <2>1 DEF CallGoesOn, Fields
  <2>3. QED
    BY <1>3, <2>2
<1>7. CASE CreateStart \/ CreateScan
  <2>1. \/ call' = call
        \/ \E x, y : call' = [call EXCEPT !.previous = x, !.next = y]
        \/ \E x, y, z : call' = [call EXCEPT !.newFile = x, !.newFirst = y, !.next = z]
    <3>1. \/ call' = call
          \/ call' = [call EXCEPT !.previous = call.next, !.next = NextFile(disk[call.next])]
          \/ call' = [call EXCEPT !.newFile = FreeHead(disk), !.newFirst = FirstFile(disk),
                                  !.next = FirstFile(disk)]
      BY <1>7 DEF CreateStart, CreateScan, Goto, Done, Resting, FreeHead, FirstFile
    <3>2. QED
      BY <3>1
  <2>2. CallGoesOn
    BY <1>1, <2>1 DEF CallGoesOn, Fields
  <2>3. QED
    BY <1>3, <2>2
<1>8. CASE ClearStart
  <2>1. PICK c, x : c = [call EXCEPT !.newFree = x] /\ x = block_get_next(disk[call.file])
    OBVIOUS
  <2>2. DOMAIN c = Fields /\ c.before = call.before /\ c.file = call.file
    BY <1>1, <2>1 DEF Fields
  <2>3. call' = call \/ FreeStart(x, c)
    BY <1>8, <2>1 DEF ClearStart, Goto
  <2>4. CallGoesOn
    BY <2>2, <2>3, FreeStartCall DEF CallGoesOn
  <2>5. QED
    BY <1>3, <2>4
<1>9. CASE DeleteStart
  <2>1. PICK c, x, y : /\ c = [call EXCEPT !.next = x, !.newFirst = y]
                       /\ x = NextFile(disk[call.file]) /\ y = NextFile(disk[SUPER_BLOCK])
    OBVIOUS
  <2>2. DOMAIN c = Fields /\ c.before = call.before /\ c.file = call.file
    BY <1>1, <2>1 DEF Fields
  <2>3. FreeStart(call.file, c)
    BY <1>9, <2>1 DEF DeleteStart
  <2>4. CallGoesOn
    BY <2>2, <2>3, FreeStartCall DEF CallGoesOn
  <2>5. QED
    BY <1>3, <2>4
<1>10. QED
  BY <1>4, <1>5, <1>6, <1>7, <1>8, <1>9

LEMMA StepFrame ==
  ASSUME NEW L, NEW own, BlockInvariantOf(L, own), ~ Resting, Step, ~ Resting'
  PROVE  CallGoesOn /\ Changes(disk', own)
<1>1. ~ FindFails /\ ~ OpenRead /\ ~ CreatePublish /\ ~ WriteCommit /\ ~ ClearSize
      /\ ~ DeletePublish /\ ~ Return
  BY DEF FindFails, OpenRead, CreatePublish, WriteCommit, ClearSize, DeletePublish, Return, Done,
     Resting
<1>2. \/ FindStep \/ SizeStart \/ SizeStep \/ ReadStep \/ CreateStart \/ CreateScan
      \/ ClearStart \/ DeleteStart
      \/ CreateLink \/ CreateFill \/ WriteStep \/ FreeStep \/ ClearFreed \/ DeleteUnlink
  BY <1>1 DEF Step
<1>3. QED
  BY <1>2, LookFrame, LinkFrame, FillFrame, WriteFrame, FreeFrame, FreedFrame, UnlinkFrame, Zenon

-----------------------------------------------------------------------------
(***************************************************************************)
(* The other files have the name and the data that they had when the call  *)
(* began.                                                                  *)
(***************************************************************************)
OthersKept ==
  ~ Resting => \A f \in DOMAIN call.before \ {call.file} :
    Name(disk[f]) = call.before[f].name /\ Data(disk, f) = call.before[f].data

LEMMA ChangesFrame ==
  ASSUME NEW L, NEW own, L \in SUBSET FileIds, NEW e, Changes(e, own), NEW f \in Others(L), own[f] = f
  PROVE  Untouched(disk, e, f, Own(own, f))
<1>1. f \in FileIds /\ f # 0 /\ f # call.file
  BY BlockSets DEF Others
<1>2. \A b \in Own(own, f) \ {f} : e[b] = disk[b]
  BY <1>1 DEF Changes, Own
<1>3. \A i \in Offsets \ {1} : e[f][i] = disk[f][i]
  BY <1>1 DEF Changes
<1>4. QED
  BY <1>2, <1>3 DEF Untouched

LEMMA StepKeepsOthers ==
  ASSUME BlockInvariant, BlockInvariant', OthersKept, ~ Resting, Step, ~ Resting'
  PROVE  OthersKept'
<1>1. PICK L, own : BlockInvariantOf(L, own)
  BY DEF BlockInvariant
<1>2. PICK M, hold : BlockInvariantOf(M, hold)'
  BY DEF BlockInvariant
<1>3. L \in SUBSET FileIds /\ DiskOK(disk, L) /\ L = DOMAIN call.before
  BY <1>1 DEF BlockInvariantOf, Resting
<1>4. DiskOK(disk', M) /\ M = DOMAIN (call'.before)
  BY <1>2 DEF BlockInvariantOf, Resting
<1>5. CallGoesOn /\ Changes(disk', own)
  BY <1>1, StepFrame
<1>6. call'.before = call.before /\ M = L
  BY <1>3, <1>4, <1>5 DEF CallGoesOn
<1>7. ASSUME NEW f \in DOMAIN (call'.before) \ {call'.file}
      PROVE  Name(disk'[f]) = call'.before[f].name /\ Data(disk', f) = call'.before[f].data
  <2>1. f \in Others(L) /\ f \in L /\ f \in DOMAIN call.before \ {call.file}
    BY <1>3, <1>5, <1>6, <1>7, BlockSets DEF CallGoesOn, Others
  <2>2. PICK S : S = Own(own, f)
    OBVIOUS
  <2>3. Links(Link(disk), f, S) /\ own[f] = f
    BY <1>1, <2>1, <2>2, OthersApart DEF Apart
  <2>4. S \in SUBSET FileIds /\ f \in S
    BY <1>3, <2>1, <2>2, <2>3 DEF Own
  <2>5. Name(disk[f]) \in Names
    BY <1>1, <2>1, OthersListed
  <2>6. PICK e : e = disk'
    OBVIOUS
  <2>7. Untouched(disk, e, f, S)
    BY <1>3, <1>5, <2>1, <2>2, <2>3, <2>6, ChangesFrame
  <2>8. DiskOK(e, L)
    BY <1>4, <1>6, <2>6
  <2>9. Data(e, f) = Data(disk, f) /\ Name(e[f]) = Name(disk[f])
    BY <1>3, <2>1, <2>3, <2>4, <2>5, <2>7, <2>8, DataFrame
  <2>10. Name(disk[f]) = call.before[f].name /\ Data(disk, f) = call.before[f].data
    BY <2>1 DEF OthersKept
  <2>11. QED
    BY <1>6, <2>6, <2>9, <2>10
<1>8. QED
  BY <1>7 DEF OthersKept

\* A call begins.
LEMMA BeginIs ==
  ASSUME Resting, AnyNext, ~ Resting'
  PROVE  disk' = disk /\ call'.before = Files(disk)
<1>1. disk' = disk /\ \E c : DOMAIN c = Fields /\ Begin(c)
  <2>1. ~ Step
    BY DEF Resting, Step, FindStep, FindFails, SizeStart, SizeStep, OpenRead, ReadStep, CreateStart,
       CreateScan, CreateLink, CreateFill, CreatePublish, WriteStep, WriteCommit, FreeStep,
       ClearStart, ClearFreed, ClearSize, DeleteStart, DeleteUnlink, DeletePublish, Return
  <2>2. ASSUME NEW op, NEW n, Find(op, n)
        PROVE  disk' = disk /\ \E c : DOMAIN c = Fields /\ Begin(c)
    <3>1. PICK c : c = [NoCall EXCEPT !.op = op, !.name = n, !.next = NextFile(disk[SUPER_BLOCK])]
      OBVIOUS
    <3>2. DOMAIN c = Fields
      BY <3>1, CallFields
    <3>3. Begin(c) /\ disk' = disk
      BY <2>2, <3>1 DEF Find, ReadBlock
    <3>4. QED
      BY <3>2, <3>3
  <2>3. ASSUME NEW n, Create(n)
        PROVE  disk' = disk /\ \E c : DOMAIN c = Fields /\ Begin(c)
    <3>1. PICK c : c = [NoCall EXCEPT !.op = "create", !.name = n]
      OBVIOUS
    <3>2. DOMAIN c = Fields
      BY <3>1, CallFields
    <3>3. Begin(c) /\ disk' = disk
      BY <2>3, <3>1 DEF Create
    <3>4. QED
      BY <3>2, <3>3
  <2>4. ASSUME NEW size, Read(size)
        PROVE  disk' = disk /\ \E c : DOMAIN c = Fields /\ Begin(c)
    <3>1. PICK c : c = [NoCall EXCEPT !.op = "read", !.size = size]
      OBVIOUS
    <3>2. DOMAIN c = Fields
      BY <3>1, CallFields
    <3>3. Begin(c) /\ disk' = disk
      BY <2>4, <3>1 DEF Read
    <3>4. QED
      BY <3>2, <3>3
  <2>5. ASSUME NEW f, NEW src, Write(f, src)
        PROVE  disk' = disk /\ \E c : DOMAIN c = Fields /\ Begin(c)
    <3>1. PICK c, free, used :
            /\ c = [NoCall EXCEPT !.op = "write", !.file = f, !.bytes = src, !.written = src,
                                  !.oldFree = free, !.newFree = free, !.used = used]
            /\ free = block_get_next(disk[SUPER_BLOCK]) /\ used = block_size(disk[writer[f]])
      OBVIOUS
    <3>2. DOMAIN c = Fields
      BY <3>1, CallFields
    <3>3. Begin(c) /\ disk' = disk
      BY <2>5, <3>1 DEF Write, ReadBlock
    <3>4. QED
      BY <3>2, <3>3
  <2>6. ~ CloseReader /\ \A f \in FileIds : ~ CloseWriter(f)
    BY DEF CloseReader, CloseWriter, Resting
  <2>7. QED
    BY <2>1, <2>2, <2>3, <2>4, <2>5, <2>6 DEF AnyNext, AnyClient
<1>2. call'.before = Files(disk)
  <2>1. PICK c : DOMAIN c = Fields /\ Begin(c)
    BY <1>1
  <2>2. call' = [c EXCEPT !.before = Files(disk), !.from = reader]
    BY <2>1 DEF Begin
  <2>3. QED
    BY <2>1, <2>2 DEF Fields
<1>3. QED
  BY <1>1, <1>2

LEMMA BeginKeepsOthers ==
  ASSUME BlockInvariant, Resting, AnyNext, ~ Resting'
  PROVE  OthersKept'
<1>1. PICK L, own : BlockInvariantOf(L, own)
  BY DEF BlockInvariant
<1>2. L \in SUBSET FileIds /\ Whole(disk, L, own)
  BY <1>1 DEF BlockInvariantOf, Resting
<1>3. DOMAIN Files(disk) = L
      /\ \A f \in L : Files(disk)[f].name = Name(disk[f]) /\ Files(disk)[f].data = Data(disk, f)
  BY <1>2, FilesAre DEF Whole
<1>4. disk' = disk /\ call'.before = Files(disk)
  BY BeginIs
<1>5. \A f \in DOMAIN (call'.before) :
        Name(disk'[f]) = call'.before[f].name /\ Data(disk', f) = call'.before[f].data
  BY <1>3, <1>4
<1>6. QED
  BY <1>5 DEF OthersKept

LEMMA NextKeepsOthers ==
  ASSUME BlockInvariant, BlockInvariant', OthersKept, [AnyNext]_vars
  PROVE  OthersKept'
<1>1. CASE Resting'
  BY <1>1 DEF OthersKept
<1>2. CASE UNCHANGED vars
  BY <1>2 DEF vars, OthersKept, Resting
<1>3. CASE ~ Resting' /\ AnyNext
  <2>1. CASE Resting
    BY <1>3, <2>1, BeginKeepsOthers
  <2>2. CASE ~ Resting
    <3>1. Step
      BY <1>3, <2>2 DEF AnyNext, AnyClient, Resting, Find, Create, Read, Write, CloseWriter, CloseReader, Begin
    <3>2. QED
      BY <1>3, <2>2, <3>1, StepKeepsOthers
  <2>3. QED
    BY <2>1, <2>2
<1>4. QED
  BY <1>1, <1>2, <1>3

\* Their blocks are not free, even if the list of free blocks is halfway.
LEMMA OthersNotFree ==
  ASSUME NEW L, NEW own, BlockInvariantOf(L, own), ~ Resting, NEW f \in Others(L)
  PROVE  FileBlocks(disk, f) \cap FreeBlocks(disk) = {}
<1>1. L \in SUBSET FileIds /\ f \in L /\ f \in FileIds
  BY DEF BlockInvariantOf, Others
<1>2. Apart(L, own)
  BY OthersApart
<1>3. Links(Link(disk), f, Own(own, f)) /\ Own(own, f) \in SUBSET FileIds
  BY <1>2 DEF Apart, Own
<1>4. FileBlocks(disk, f) = Own(own, f)
  BY <1>1, <1>3, SameWalk DEF FileBlocks
<1>5. PICK F \in SUBSET FileIds :
        /\ FreeHead(disk) \in F \cup {0}
        /\ \A b \in F : Link(disk)[b] \in F \cup {0} /\ own[b] \notin Others(L)
  BY <1>2 DEF Apart
<1>6. PICK walk : walk = Chain(disk, FreeHead(disk))
  OBVIOUS
<1>7. IsWalk(walk, Valid(FreeHead(disk)), ValidNext(disk))
  BY <1>6, ChainIsWalk
<1>8. \A k \in 0 .. NumBlocks : walk[k] \in F \cup {0}
  <2> DEFINE T == {k \in 0 .. NumBlocks : walk[k] \in F \cup {0}}
  <2>1. 0 \in Int /\ NumBlocks \in Int /\ NumBlocks >= 0
    BY BlockSets
  <2>2. 0 \in T
    BY <1>5, <1>7, <2>1, BlockSets DEF IsWalk, Valid
  <2>3. \A k \in 0 .. NumBlocks - 1 : k \in T => k + 1 \in T
    <3> SUFFICES ASSUME NEW k \in 0 .. NumBlocks - 1, k \in T
                 PROVE  k + 1 \in T
      OBVIOUS
    <3>1. walk[k + 1] = IF walk[k] = 0 THEN 0 ELSE ValidNext(disk)[walk[k]]
      <4>1. k + 1 \in 1 .. NumBlocks /\ (k + 1) - 1 = k
        BY <2>1
      <4>2. walk[k + 1] = IF walk[(k + 1) - 1] = 0 THEN 0 ELSE ValidNext(disk)[walk[(k + 1) - 1]]
        BY <1>7, <4>1 DEF IsWalk
      <4>3. QED
        BY <4>1, <4>2
    <3>2. walk[k] # 0 => ValidNext(disk)[walk[k]] \in F \cup {0}
      <4> HAVE walk[k] # 0
      <4>1. walk[k] \in F /\ Link(disk)[walk[k]] \in F \cup {0}
        BY <1>5
      <4>2. QED
        BY <4>1 DEF ValidNext, Valid, Link
    <3>3. QED
      BY <2>1, <3>1, <3>2
  <2> HIDE DEF T
  <2>4. \A k \in 0 .. NumBlocks : k \in T
    BY <2>1, <2>2, <2>3, IntervalInduction
  <2>5. QED
    BY <2>4 DEF T
<1>9. FreeBlocks(disk) \subseteq F
  <2>1. DOMAIN walk = 0 .. NumBlocks
    BY <1>7 DEF IsWalk
  <2>2. FreeBlocks(disk) = Members(walk)
    BY <1>6 DEF FreeBlocks, FreeHead
  <2>3. QED
    BY <1>8, <2>1, <2>2 DEF Members
<1>10. QED
  BY <1>4, <1>5, <1>9 DEF Own

(***************************************************************************)
(* Whatever the point where the machine stops, the files that the call is  *)
(* not about are on the disk with their data, their blocks are not free,   *)
(* and they are in the list of files but for one point of a creation.      *)
(***************************************************************************)
THEOREM OtherFilesSurvive == Spec => []OthersSurvive
<1>1. Init => OthersKept
  BY DEF Init, OthersKept, Resting
<1>2. BlockInvariant /\ BlockInvariant' /\ OthersKept /\ [Next]_vars => OthersKept'
  BY NextKeepsOthers, NextIsAny
<1>3. BlockInvariant /\ OthersKept => OthersSurvive
  <2> SUFFICES ASSUME BlockInvariant, OthersKept, ~ Resting,
                      NEW f \in DOMAIN call.before \ {call.file}
               PROVE  /\ Name(disk[f]) = call.before[f].name
                      /\ Data(disk, f) = call.before[f].data
                      /\ FileBlocks(disk, f) \cap FreeBlocks(disk) = {}
                      /\ ~ HalfLinked => f \in Listed(disk)
    BY DEF OthersSurvive
  <2>1. PICK L, own : BlockInvariantOf(L, own)
    BY DEF BlockInvariant
  <2>2. f \in Others(L)
    BY <2>1 DEF BlockInvariantOf, Resting, Others
  <2>3. Name(disk[f]) = call.before[f].name /\ Data(disk, f) = call.before[f].data
    BY DEF OthersKept
  <2>4. FileBlocks(disk, f) \cap FreeBlocks(disk) = {}
    BY <2>1, <2>2, OthersNotFree
  <2>5. ~ HalfLinked => f \in Listed(disk)
    BY <2>1, <2>2, OthersListed
  <2>6. QED
    BY <2>3, <2>4, <2>5
<1>4. QED
  BY BlockInvariantHolds, <1>1, <1>2, <1>3, PTL DEF Spec

-----------------------------------------------------------------------------
(***************************************************************************)
(* The blocks of a file are distinct, hence they are fewer than the blocks *)
(* of the disk.                                                            *)
(***************************************************************************)
LEMMA PathOrder ==
  ASSUME NEW d, NEW f, NEW g, NEW m, IsPath(d, f, g, m),
         NEW i \in 0 .. m, NEW j \in 0 .. m, i < j, g[i] = g[j]
  PROVE  FALSE
<1>1. /\ m \in Nat /\ g \in [0 .. m -> FileIds]
      /\ \A k \in 1 .. m : g[k] = Link(d)[g[k - 1]]
      /\ Link(d)[g[m]] = 0
  BY DEF IsPath
<1> DEFINE T == {t \in 0 .. m - j : g[i + t] = g[j + t]}
<1>2. 0 \in T /\ 0 \in Int /\ m - j \in Int
  BY <1>1
<1>3. ASSUME NEW t \in 0 .. m - j - 1, t \in T
      PROVE  t + 1 \in T
  <2>1. i + t + 1 \in 1 .. m /\ j + t + 1 \in 1 .. m /\ t + 1 \in 0 .. m - j
        /\ i + t + 1 - 1 = i + t /\ j + t + 1 - 1 = j + t
        /\ i + (t + 1) = i + t + 1 /\ j + (t + 1) = j + t + 1
    BY <1>1
  <2>2. g[i + t + 1] = Link(d)[g[i + t]] /\ g[j + t + 1] = Link(d)[g[j + t]]
    BY <1>1, <2>1
  <2>3. g[i + t] = g[j + t]
    BY <1>3
  <2>4. QED
    BY <2>1, <2>2, <2>3
<1> HIDE DEF T
<1>4. \A t \in 0 .. m - j : t \in T
  BY <1>2, <1>3, IntervalInduction
<1>5. m - j \in 0 .. m - j /\ i + (m - j) \in 0 .. m - 1 /\ j + (m - j) = m
  BY <1>1
<1>6. g[i + (m - j)] = g[m]
  <2>1. m - j \in T
    BY <1>4, <1>5
  <2>2. g[i + (m - j)] = g[j + (m - j)]
    BY <2>1 DEF T
  <2>3. QED
    BY <1>5, <2>2
<1>7. PICK k : k = i + (m - j)
  OBVIOUS
<1>8. k + 1 \in 1 .. m /\ k + 1 - 1 = k /\ k + 1 \in 0 .. m /\ k \in 0 .. m
  BY <1>1, <1>5, <1>7
<1>9. g[k + 1] = Link(d)[g[k]] /\ g[k + 1] \in FileIds
  <2>1. PICK q : q = k + 1
    OBVIOUS
  <2>2. q \in 1 .. m /\ q \in 0 .. m /\ q - 1 = k
    BY <1>1, <1>8, <2>1
  <2>3. g[q] = Link(d)[g[q - 1]] /\ g[q] \in FileIds
    BY <1>1, <2>2
  <2>4. QED
    BY <2>1, <2>2, <2>3
<1>10. QED
  BY <1>1, <1>6, <1>7, <1>9, BlockSets

LEMMA PathInjective ==
  ASSUME NEW d, NEW f, NEW g, NEW m, IsPath(d, f, g, m)
  PROVE  \A i, j \in 0 .. m : g[i] = g[j] => i = j
<1> SUFFICES ASSUME NEW i \in 0 .. m, NEW j \in 0 .. m, g[i] = g[j], i # j
             PROVE  FALSE
  OBVIOUS
<1>1. m \in Nat
  BY DEF IsPath
<1>2. i < j \/ j < i
  BY <1>1
<1>3. QED
  BY <1>2, PathOrder

LEMMA PathShort ==
  ASSUME NEW d, NEW f, NEW g, NEW m, IsPath(d, f, g, m)
  PROVE  m + 1 < NumBlocks
<1>1. m \in Nat /\ g \in [0 .. m -> FileIds] /\ NumBlocks \in Nat /\ NumBlocks > 0
  BY BlockSets DEF IsPath
<1> SUFFICES ASSUME NumBlocks <= m + 1
             PROVE  FALSE
  BY <1>1
<1>2. FileIds = 1 .. NumBlocks - 1
  BY BlockSets DEF FileIds
<1>3. IsFiniteSet(0 .. m) /\ Cardinality(0 .. m) = m + 1
  BY <1>1, FS_Interval
<1>4. IsFiniteSet(FileIds) /\ Cardinality(FileIds) = NumBlocks - 1
  <2>1. NumBlocks - 1 \in Int /\ 1 \in Int
    BY <1>1
  <2>2. IsFiniteSet(1 .. NumBlocks - 1)
        /\ Cardinality(1 .. NumBlocks - 1) = IF 1 > NumBlocks - 1 THEN 0 ELSE NumBlocks - 1 - 1 + 1
    BY <2>1, FS_Interval
  <2>3. QED
    BY <1>1, <1>2, <2>2
<1>5. Cardinality(FileIds) < Cardinality(0 .. m)
  BY <1>1, <1>3, <1>4
<1>6. \A i, j \in 0 .. m : i # j => g[i] # g[j]
  BY PathInjective
<1>7. QED
  BY <1>1, <1>3, <1>4, <1>5, <1>6, NoInjection, Zenon

-----------------------------------------------------------------------------
(***************************************************************************)
(* How the data of a file changes when its last block does.                *)
(***************************************************************************)
\* Blocks g[0] .. g[m] of d have the data of a file named n.
HasData(d, n, g, m) ==
  /\ d \in [Blocks -> [Offsets -> Nat]] /\ g \in [0 .. m -> FileIds]
  /\ d[g[m]][0] \in DataStart(n, m) .. BlockSize

\* In e the file has the bytes src too.
HasMore(d, e, n, g, m, src) == DataOf(e, n, g, m) = DataOf(d, n, g, m) \o src

\* In e the last block has the bytes src too, after those it has in d.
Appended(d, e, g, m, src) ==
  LET u == d[g[m]][0] IN
  /\ u + Len(src) <= BlockSize
  /\ \A k \in 0 .. m - 1 : \A i \in Offsets \ {0} : e[g[k]][i] = d[g[k]][i]
  /\ \A i \in Offsets \ {0} :
       e[g[m]][i] = IF u <= i /\ i < u + Len(src) THEN src[i - u + 1] ELSE d[g[m]][i]
  /\ e[g[m]][0] = u + Len(src)

LEMMA DataIsSeq ==
  ASSUME NEW d, NEW g, NEW m \in Nat, NEW n \in Names, HasData(d, n, g, m)
  PROVE  DataOf(d, n, g, m) \in Seq(Nat) /\ Len(DataOf(d, n, g, m)) = DataLength(d, n, g, m)
<1>1. PICK u : u = d[g[m]][0]
  OBVIOUS
<1>2. PICK a, b : a = ChunkStart(n, m) /\ b = DataStart(n, m)
  OBVIOUS
<1>3. a \in Nat /\ b \in 1 .. BlockSize /\ BlockSize \in Nat
  BY <1>2, Chunks, BlockSets
<1>4. u \in b .. BlockSize
  BY <1>1, <1>2, Zenon DEF HasData
<1>5. PICK s : s = a + u - b
  OBVIOUS
<1>6. s \in Nat
  BY <1>3, <1>4, <1>5
<1>7. DataLength(d, n, g, m) = s
  BY <1>1, <1>2, <1>5, Zenon DEF DataLength
<1>8. DataOf(d, n, g, m) = [i \in 1 .. s |-> d[g[Number(n, i)]][PlaceOf(n, i)]]
  BY <1>7, Zenon DEF DataOf
<1>9. \A i \in 1 .. s : d[g[Number(n, i)]][PlaceOf(n, i)] \in Nat
  <2> TAKE i \in 1 .. s
  <2>1. i \in Nat \ {0} /\ i <= a + u - b
    BY <1>5, <1>6
  <2>2. i <= ChunkStart(n, m) + u - DataStart(n, m) /\ u \in DataStart(n, m) .. BlockSize
    BY <1>2, <1>4, <2>1, Zenon
  <2>3. /\ Number(n, i) \in 0 .. m
        /\ PlaceOf(n, i) \in DataStart(n, Number(n, i)) .. BlockSize - 1
    BY <2>1, <2>2, BytePlace
  <2>4. PICK k, p : k = Number(n, i) /\ p = PlaceOf(n, i)
    OBVIOUS
  <2>5. k \in Nat /\ k \in 0 .. m /\ DataStart(n, k) \in 1 .. BlockSize
    BY <2>3, <2>4, Chunks
  <2>6. p \in Offsets
    BY <2>3, <2>4, <2>5, BlockSets
  <2>7. g[k] \in Blocks
    BY <2>5, BlockSets DEF HasData
  <2>8. d[g[k]][p] \in Nat
    BY <2>6, <2>7 DEF HasData
  <2>9. QED
    BY <2>4, <2>8
<1>10. PICK x : x = DataOf(d, n, g, m)
  OBVIOUS
<1>11. x \in [1 .. s -> Nat]
  BY <1>8, <1>9, <1>10
<1>12. x \in Seq(Nat) /\ Len(x) = s
  BY <1>6, <1>11
<1>13. QED
  BY <1>7, <1>10, <1>12

LEMMA AppendData ==
  ASSUME NEW d, NEW e, NEW g, NEW m \in Nat, NEW n \in Names, NEW src \in Seq(Nat),
         HasData(d, n, g, m), Appended(d, e, g, m, src)
  PROVE  HasMore(d, e, n, g, m, src)
<1>1. PICK u : u = d[g[m]][0]
  OBVIOUS
<1>2. PICK l : l = Len(src)
  OBVIOUS
<1>3. PICK a : a = ChunkStart(n, m)
  OBVIOUS
<1>4. PICK b : b = DataStart(n, m)
  OBVIOUS
<1>5. /\ a \in Nat /\ b \in 1 .. BlockSize /\ ChunkStart(n, m + 1) = a + BlockSize - b
      /\ l \in Nat /\ u \in b .. BlockSize /\ u + l <= BlockSize /\ BlockSize \in Nat
  <2>1. a \in Nat /\ b \in 1 .. BlockSize /\ ChunkStart(n, m + 1) = a + BlockSize - b
    BY <1>3, <1>4, Chunks
  <2>2. l \in Nat
    BY <1>2
  <2>2a. u \in b .. BlockSize
    BY <1>1, <1>4, Zenon DEF HasData
  <2>2b. u + l <= BlockSize
    BY <1>1, <1>2, Zenon DEF Appended
  <2>3. QED
    BY <2>1, <2>2, <2>2a, <2>2b, BlockSets
<1>6. /\ \A k \in 0 .. m - 1 : \A i \in Offsets \ {0} : e[g[k]][i] = d[g[k]][i]
      /\ \A i \in Offsets \ {0} :
           e[g[m]][i] = IF u <= i /\ i < u + l THEN src[i - u + 1] ELSE d[g[m]][i]
      /\ e[g[m]][0] = u + l
  BY <1>1, <1>2 DEF Appended
<1>7. PICK s : s = a + u - b
  OBVIOUS
<1>8. s \in Nat /\ DataLength(d, n, g, m) = s /\ DataLength(e, n, g, m) = s + l
  <2>1. DataLength(d, n, g, m) = a + u - b
    BY <1>1, <1>3, <1>4, Zenon DEF DataLength
  <2>2. DataLength(e, n, g, m) = a + (u + l) - b
    BY <1>3, <1>4, <1>6, Zenon DEF DataLength
  <2>3. QED
    BY <1>5, <1>7, <2>1, <2>2
<1>9. PICK x, y : x = DataOf(d, n, g, m) /\ y = DataOf(e, n, g, m)
  OBVIOUS
<1>10. x = [i \in 1 .. s |-> d[g[Number(n, i)]][PlaceOf(n, i)]]
       /\ y = [i \in 1 .. s + l |-> e[g[Number(n, i)]][PlaceOf(n, i)]]
  BY <1>8, <1>9 DEF DataOf
<1>11. x \in Seq(Nat) /\ Len(x) = s
  BY <1>8, <1>9, DataIsSeq
<1>12. ASSUME NEW i \in 1 .. s
       PROVE  y[i] = x[i]
  <2>0. i \in Nat \ {0} /\ i <= a + u - b /\ i \in 1 .. s + l
    BY <1>5, <1>7, <1>8
  <2>1. i <= ChunkStart(n, m) + u - DataStart(n, m)
    BY <1>3, <1>4, <2>0, Zenon
  <2>2. /\ Number(n, i) \in 0 .. m
        /\ PlaceOf(n, i) \in DataStart(n, Number(n, i)) .. BlockSize - 1
        /\ Number(n, i) = m => PlaceOf(n, i) < u
    BY <1>4, <1>5, <2>0, <2>1, BytePlace
  <2>3. PICK k, p : k = Number(n, i) /\ p = PlaceOf(n, i)
    OBVIOUS
  <2>4. k \in Nat /\ DataStart(n, k) \in 1 .. BlockSize
    <3>1. k \in 0 .. m
      BY <2>2, <2>3, Zenon
    <3>2. k \in Nat
      BY <3>1
    <3>3. QED
      BY <3>2, Chunks
  <2>5. p \in Offsets \ {0}
    BY <2>2, <2>3, <2>4, BlockSets
  <2>6. e[g[k]][p] = d[g[k]][p]
    <3>1. CASE k = m
      <4>1. ~ (u <= p)
        BY <1>5, <2>2, <2>3, <2>4, <3>1
      <4>2. QED
        BY <1>6, <2>5, <3>1, <4>1
    <3>2. CASE k # m
      <4>1. k \in 0 .. m - 1
        BY <2>2, <2>3, <3>2
      <4>2. QED
        BY <1>6, <2>5, <4>1
    <3>3. QED
      BY <3>1, <3>2
  <2>7. QED
    BY <1>10, <2>0, <2>3, <2>6
<1>13. ASSUME NEW j \in 1 .. l
       PROVE  y[s + j] = src[j]
  <2>1. PICK i : i = s + j
    OBVIOUS
  <2>2. i \in Nat \ {0} /\ a < i /\ i <= a + BlockSize - b /\ i \in 1 .. s + l
    BY <1>5, <1>7, <1>8, <2>1
  <2>3. Number(n, i) = m
    BY <1>3, <1>5, <2>2, NumberIs
  <2>4. PlaceOf(n, i) = b + i - a - 1
    BY <1>3, <1>4, <2>3 DEF PlaceOf
  <2>5. PICK p : p = b + i - a - 1
    OBVIOUS
  <2>6. p = u + j - 1 /\ p \in Offsets \ {0} /\ u <= p /\ p < u + l /\ p - u + 1 = j
    BY <1>5, <1>7, <2>1, <2>2, <2>5, BlockSets
  <2>7. e[g[m]][p] = src[j]
    BY <1>6, <2>6
  <2>8. y[i] = e[g[Number(n, i)]][PlaceOf(n, i)]
    BY <1>10, <2>2
  <2>9. QED
    BY <2>1, <2>3, <2>4, <2>5, <2>7, <2>8
<1>14. y = x \o src
  <2>1. PICK z : z = x \o src
    OBVIOUS
  <2>2. /\ z \in Seq(Nat) /\ Len(z) = s + l
        /\ \A i \in 1 .. s + l : z[i] = IF i <= s THEN x[i] ELSE src[i - s]
    BY <1>2, <1>11, <2>1, ConcatProperties
  <2>3. ASSUME NEW i \in 1 .. s + l
        PROVE  y[i] = z[i]
    <3>1. CASE i <= s
      <4>1. i \in 1 .. s
        BY <1>8, <3>1
      <4>2. QED
        BY <1>12, <2>2, <3>1, <4>1
    <3>2. CASE ~ i <= s
      <4>1. i - s \in 1 .. l /\ s + (i - s) = i
        BY <1>5, <1>8, <3>2
      <4>2. y[s + (i - s)] = src[i - s]
        BY <1>13, <4>1
      <4>3. QED
        BY <2>2, <3>2, <4>1, <4>2
    <3>3. QED
      BY <3>1, <3>2
  <2>4. z = [i \in 1 .. s + l |-> z[i]]
    BY <2>2
  <2>5. y = [i \in 1 .. s + l |-> y[i]]
    BY <1>10
  <2>6. QED
    BY <2>1, <2>3, <2>4, <2>5
<1>15. QED
  BY <1>9, <1>14 DEF HasMore

\* Blocks h[0] .. h[m] of e have the bytes of g[0] .. g[m] of d.
SameCells(d, e, g, h, m) == \A k \in 0 .. m : \A i \in Offsets \ {0} : e[h[k]][i] = d[g[k]][i]

LEMMA SameBytes ==
  ASSUME NEW d, NEW e, NEW g, NEW h, NEW m \in Nat, NEW q, NEW n \in Names, HasData(d, n, g, m),
         DataLength(e, n, h, q) = DataLength(d, n, g, m), SameCells(d, e, g, h, m)
  PROVE  DataOf(e, n, h, q) = DataOf(d, n, g, m)
<1>1. PICK u : u = d[g[m]][0]
  OBVIOUS
<1>2. PICK a, b : a = ChunkStart(n, m) /\ b = DataStart(n, m)
  OBVIOUS
<1>3. a \in Nat /\ b \in 1 .. BlockSize /\ BlockSize \in Nat
  BY <1>2, Chunks, BlockSets
<1>4. u \in b .. BlockSize
  BY <1>1, <1>2, Zenon DEF HasData
<1>5. PICK s : s = a + u - b
  OBVIOUS
<1>6. s \in Nat
  BY <1>3, <1>4, <1>5
<1>7. DataLength(d, n, g, m) = s
  BY <1>1, <1>2, <1>5, Zenon DEF DataLength
<1>8. ASSUME NEW i \in 1 .. s
      PROVE  e[h[Number(n, i)]][PlaceOf(n, i)] = d[g[Number(n, i)]][PlaceOf(n, i)]
  <2>1. i \in Nat \ {0} /\ i <= a + u - b
    BY <1>5, <1>6
  <2>2. i <= ChunkStart(n, m) + u - DataStart(n, m) /\ u \in DataStart(n, m) .. BlockSize
    BY <1>2, <1>4, <2>1, Zenon
  <2>3. /\ Number(n, i) \in 0 .. m
        /\ PlaceOf(n, i) \in DataStart(n, Number(n, i)) .. BlockSize - 1
    BY <2>1, <2>2, BytePlace
  <2>4. PICK k, p : k = Number(n, i) /\ p = PlaceOf(n, i)
    OBVIOUS
  <2>5. k \in Nat /\ k \in 0 .. m /\ DataStart(n, k) \in 1 .. BlockSize
    BY <2>3, <2>4, Chunks
  <2>6. p \in Offsets \ {0}
    BY <2>3, <2>4, <2>5, BlockSets
  <2>7. QED
    BY <2>4, <2>5, <2>6 DEF SameCells
<1>9. DataOf(d, n, g, m) = [i \in 1 .. s |-> d[g[Number(n, i)]][PlaceOf(n, i)]]
  BY <1>7, Zenon DEF DataOf
<1>10. DataOf(e, n, h, q) = [i \in 1 .. s |-> e[h[Number(n, i)]][PlaceOf(n, i)]]
  BY <1>7, Zenon DEF DataOf
<1>11. QED
  BY <1>8, <1>9, <1>10, Zenon

\* A full block, that an empty one follows.
IsGrown(d, e, g, h, m) ==
  d[g[m]][0] = BlockSize /\ e[h[m + 1]][0] = 1 /\ SameCells(d, e, g, h, m)

LEMMA GrowData ==
  ASSUME NEW d, NEW e, NEW g, NEW h, NEW m \in Nat, NEW n \in Names, HasData(d, n, g, m),
         IsGrown(d, e, g, h, m)
  PROVE  DataOf(e, n, h, m + 1) = DataOf(d, n, g, m)
<1>1. PICK q : q = m + 1
  OBVIOUS
<1>2. PICK a, b, c : a = ChunkStart(n, m) /\ b = DataStart(n, m) /\ c = ChunkStart(n, q)
  OBVIOUS
<1>3. a \in Nat /\ b \in 1 .. BlockSize /\ BlockSize \in Nat /\ c = a + BlockSize - b
  BY <1>1, <1>2, Chunks, BlockSets
<1>4. DataStart(n, q) = 1 /\ e[h[q]][0] = 1
  BY <1>1 DEF DataStart, IsGrown
<1>5. DataLength(e, n, h, q) = c + 1 - 1
  BY <1>2, <1>4, Zenon DEF DataLength
<1>6. DataLength(d, n, g, m) = a + BlockSize - b
  BY <1>2, Zenon DEF DataLength, IsGrown
<1>7. c + 1 - 1 = a + BlockSize - b
  BY <1>3
<1>8. DataLength(e, n, h, q) = DataLength(d, n, g, m)
  BY <1>5, <1>6, <1>7, Zenon
<1>9. DataOf(e, n, h, q) = DataOf(d, n, g, m)
  BY <1>8, SameBytes DEF IsGrown
<1>10. QED
  BY <1>1, <1>9, Zenon

\* A file with only a header.
LEMMA NoData ==
  ASSUME NEW d, NEW g, NEW n \in Names, d[g[0]][0] = HeaderSize(n)
  PROVE  DataOf(d, n, g, 0) = << >>
<1>1. DataLength(d, n, g, 0) = 0
  <2>1. HeaderSize(n) \in Nat
    BY HeaderSizes
  <2>2. QED
    BY <2>1 DEF DataLength, ChunkStart, DataStart
<1>2. PICK x : x = DataOf(d, n, g, 0)
  OBVIOUS
<1>3. x = [i \in 1 .. 0 |-> d[g[Number(n, i)]][PlaceOf(n, i)]]
  BY <1>1, <1>2, Zenon DEF DataOf
<1>4. x \in [1 .. 0 -> Nat]
  BY <1>3
<1>5. x \in Seq(Nat) /\ Len(x) = 0
  BY <1>4
<1>6. x = << >>
  BY <1>5, EmptySeq
<1>7. QED
  BY <1>2, <1>6

-----------------------------------------------------------------------------
(***************************************************************************)
(* The blocks of a file when its last one is written.                      *)
(***************************************************************************)
LEMMA PathFrame ==
  ASSUME NEW d, NEW e, NEW f, NEW g, NEW m, IsPath(d, f, g, m),
         \A k \in 0 .. m : Link(e)[g[k]] = Link(d)[g[k]]
  PROVE  IsPath(e, f, g, m)
<1>1. /\ m \in Nat /\ g \in [0 .. m -> FileIds] /\ g[0] = f
      /\ \A k \in 1 .. m : g[k] = Link(d)[g[k - 1]]
      /\ Link(d)[g[m]] = 0
  BY DEF IsPath
<1>2. \A k \in 1 .. m : g[k] = Link(e)[g[k - 1]]
  <2> TAKE k \in 1 .. m
  <2>1. k - 1 \in 0 .. m
    BY <1>1
  <2>2. QED
    BY <1>1, <2>1
<1>3. Link(e)[g[m]] = 0
  BY <1>1
<1>4. QED
  BY <1>1, <1>2, <1>3 DEF IsPath

LEMMA PathLast ==
  ASSUME NEW d, NEW e, NEW f, NEW g, NEW m, IsPath(d, f, g, m),
         \A b \in FileIds : b # g[m] => e[b][0] = d[b][0],
         Link(e)[g[m]] = 0
  PROVE  IsPath(e, f, g, m)
<1>1. m \in Nat /\ g \in [0 .. m -> FileIds] /\ Link(d)[g[m]] = 0
  BY DEF IsPath
<1>2. \A k \in 0 .. m : Link(e)[g[k]] = Link(d)[g[k]]
  <2> TAKE k \in 0 .. m
  <2>1. CASE g[k] = g[m]
    BY <1>1, <2>1
  <2>2. CASE g[k] # g[m]
    <3>1. g[k] \in FileIds /\ e[g[k]][0] = d[g[k]][0]
      BY <1>1, <2>2
    <3>2. QED
      BY <3>1 DEF Link, block_get_next
  <2>3. QED
    BY <2>1, <2>2
<1>3. QED
  BY <1>2, PathFrame

\* The path that goes on to block x.
Longer(g, m, x) == [k \in 0 .. m + 1 |-> IF k = m + 1 THEN x ELSE g[k]]

PathGrows(d, e, g, m, x) ==
  /\ \A k \in 0 .. m : g[k] # x
  /\ \A b \in FileIds : b # g[m] /\ b # x => e[b][0] = d[b][0]
  /\ Link(e)[g[m]] = x /\ Link(e)[x] = 0

LEMMA PathGrow ==
  ASSUME NEW d, NEW e, NEW f, NEW g, NEW m, IsPath(d, f, g, m), NEW x \in FileIds,
         PathGrows(d, e, g, m, x)
  PROVE  IsPath(e, f, Longer(g, m, x), m + 1)
<1>1. /\ m \in Nat /\ g \in [0 .. m -> FileIds] /\ g[0] = f
      /\ \A k \in 1 .. m : g[k] = Link(d)[g[k - 1]]
  BY DEF IsPath
<1>1a. /\ \A k \in 0 .. m : g[k] # x
       /\ \A b \in FileIds : b # g[m] /\ b # x => e[b][0] = d[b][0]
       /\ Link(e)[g[m]] = x /\ Link(e)[x] = 0
  BY DEF PathGrows
<1>2. PICK h, q : h = Longer(g, m, x) /\ q = m + 1
  OBVIOUS
<1>3. q \in Nat /\ h[q] = x /\ \A k \in 0 .. m : h[k] = g[k] /\ k # q /\ k \in 0 .. q
  BY <1>1, <1>2 DEF Longer
<1>4. h \in [0 .. q -> FileIds] /\ h[0] = f
  BY <1>1, <1>2, <1>3 DEF Longer
<1>5. ASSUME NEW k \in 1 .. q
      PROVE  h[k] = Link(e)[h[k - 1]]
  <2>1. CASE k = q
    <3>1. k - 1 = m /\ m \in 0 .. m
      BY <1>1, <1>2, <2>1
    <3>2. QED
      BY <1>1a, <1>3, <2>1, <3>1
  <2>2. CASE k # q
    <3>1. k \in 1 .. m /\ k \in 0 .. m /\ k - 1 \in 0 .. m /\ k - 1 # m /\ m \in 0 .. m
      BY <1>1, <1>2, <2>2
    <3>2. h[k] = Link(d)[g[k - 1]] /\ h[k - 1] = g[k - 1]
      BY <1>1, <1>3, <3>1
    <3>3. g[k - 1] # g[m]
      BY <3>1, PathInjective
    <3>4. g[k - 1] \in FileIds /\ e[g[k - 1]][0] = d[g[k - 1]][0]
      BY <1>1, <1>1a, <3>1, <3>3
    <3>5. Link(e)[g[k - 1]] = Link(d)[g[k - 1]]
      BY <3>4 DEF Link, block_get_next
    <3>6. QED
      BY <3>2, <3>5
  <2>3. QED
    BY <2>1, <2>2
<1>6. Link(e)[h[q]] = 0
  BY <1>1a, <1>3
<1>7. IsPath(e, f, h, q)
  BY <1>3, <1>4, <1>5, <1>6 DEF IsPath
<1>8. QED
  BY <1>2, <1>3, <1>7

\* The blocks of a file are in the list of those of the file.
LEMMA PathOwn ==
  ASSUME NEW own, NEW s, NEW L, L \in SUBSET FileIds, NEW h, Layout(own, s, L, h), NEW f \in L,
         NEW d, s = Link(d), NEW g, NEW m, IsPath(d, f, g, m)
  PROVE  \A k \in 0 .. m : own[g[k]] = f
<1>1. /\ m \in Nat /\ g \in [0 .. m -> FileIds] /\ g[0] = f
      /\ \A k \in 1 .. m : g[k] = s[g[k - 1]]
  BY DEF IsPath
<1>2. own[f] = f
  BY FirstBlocks
<1> DEFINE T == {k \in 0 .. m : own[g[k]] = f}
<1>3. 0 \in T /\ 0 \in Int /\ m \in Int
  BY <1>1, <1>2
<1>4. ASSUME NEW k \in 0 .. m - 1, k \in T
      PROVE  k + 1 \in T
  <2>1. PICK q, b : q = k + 1 /\ b = g[k]
    OBVIOUS
  <2>2. q \in 1 .. m /\ q \in 0 .. m /\ q - 1 = k /\ k \in 0 .. m
    BY <1>1, <2>1
  <2>3. g[q] = s[b] /\ g[q] \in FileIds /\ b \in FileIds /\ own[b] = f
    BY <1>1, <1>4, <2>1, <2>2
  <2>4. BlockFacts(own, s, L, h, b)
    BY <2>3, NextBlock
  <2>5. own[g[q]] = f
    BY <2>3, <2>4, BlockSets DEF BlockFacts
  <2>6. QED
    BY <2>1, <2>2, <2>5
<1> HIDE DEF T
<1>5. \A k \in 0 .. m : k \in T
  BY <1>3, <1>4, IntervalInduction
<1>6. QED
  BY <1>5 DEF T

-----------------------------------------------------------------------------
(***************************************************************************)
(* Bytes are written in the last block of a file, from offset u, and its   *)
(* first cell is set.                                                      *)
(***************************************************************************)
SizedCells(d, e, w, u) ==
  /\ d \in [Blocks -> [Offsets -> Nat]] /\ e \in [Blocks -> [Offsets -> Nat]]
  /\ \A b \in Blocks \ {w} : e[b] = d[b]
  /\ \A i \in Offsets \ {0} : e[w][i] = d[w][i]
  /\ e[w][0] = u

Rewritten(d, e, w, u, src, x) ==
  /\ d \in [Blocks -> [Offsets -> Nat]] /\ e \in [Blocks -> [Offsets -> Nat]]
  /\ \A b \in Blocks \ {w} : e[b] = d[b]
  /\ \A i \in Offsets \ {0} :
       e[w][i] = IF u <= i /\ i < u + Len(src) THEN src[i - u + 1] ELSE d[w][i]
  /\ e[w][0] = x

Sized(d, w, u) == [d EXCEPT ![w] = [d[w] EXCEPT ![0] = u]]

LEMMA SizedIs ==
  ASSUME NEW d, d \in [Blocks -> [Offsets -> Nat]], NEW w \in Blocks, NEW u \in Nat
  PROVE  SizedCells(d, Sized(d, w, u), w, u)
<1>1. PICK v : v = [d[w] EXCEPT ![0] = u]
  OBVIOUS
<1>2. PICK e : e = Sized(d, w, u)
  OBVIOUS
<1>3. e = [d EXCEPT ![w] = v]
  BY <1>1, <1>2, Zenon DEF Sized
<1>4. d[w] \in [Offsets -> Nat] /\ 0 \in Offsets
  BY BlockSets
<1>5. v \in [Offsets -> Nat] /\ v[0] = u /\ \A i \in Offsets \ {0} : v[i] = d[w][i]
  BY <1>1, <1>4
<1>6. e \in [Blocks -> [Offsets -> Nat]] /\ e[w] = v /\ \A b \in Blocks \ {w} : e[b] = d[b]
  BY <1>3, <1>5
<1>7. SizedCells(d, e, w, u)
  BY <1>5, <1>6 DEF SizedCells
<1>8. QED
  BY <1>2, <1>7

LEMMA WriteCells ==
  ASSUME NEW d, d \in [Blocks -> [Offsets -> Nat]], NEW w \in Blocks, NEW u \in Nat,
         NEW src \in Seq(Nat), NEW x \in Nat,
         NEW e, e = [d EXCEPT ![w] = [CopyTo(d[w], u, src) EXCEPT ![0] = x]]
  PROVE  Rewritten(d, e, w, u, src, x)
<1>1. PICK c : c = CopyTo(d[w], u, src)
  OBVIOUS
<1>2. PICK v : v = [c EXCEPT ![0] = x]
  OBVIOUS
<1>3. d[w] \in [Offsets -> Nat] /\ 0 \in Offsets
  BY BlockSets
<1>4. c \in [Offsets -> Nat]
  BY <1>1, <1>3, CopyToBlock
<1>5. \A i \in Offsets :
        c[i] = IF u <= i /\ i < u + Len(src) THEN src[i - u + 1] ELSE d[w][i]
  BY <1>1 DEF CopyTo
<1>6. v \in [Offsets -> Nat] /\ v[0] = x /\ \A i \in Offsets \ {0} : v[i] = c[i]
  BY <1>2, <1>3, <1>4
<1>7. e = [d EXCEPT ![w] = v]
  BY <1>1, <1>2, Zenon
<1>8. e \in [Blocks -> [Offsets -> Nat]] /\ e[w] = v /\ \A b \in Blocks \ {w} : e[b] = d[b]
  BY <1>6, <1>7
<1>9. \A i \in Offsets \ {0} :
        e[w][i] = IF u <= i /\ i < u + Len(src) THEN src[i - u + 1] ELSE d[w][i]
  BY <1>5, <1>6, <1>8
<1>10. QED
  BY <1>6, <1>8, <1>9 DEF Rewritten

\* g[0] .. g[m] are the blocks of file f, named n, and block w is the last one.
EndsAt(d, f, g, m, w, n) == IsPath(d, f, g, m) /\ g[m] = w /\ HasData(d, n, g, m)

Fits(u, src, x) == x = u + Len(src) /\ x <= BlockSize

LEMMA LastBytes ==
  ASSUME NEW d, NEW e, NEW c, NEW w \in FileIds, NEW u \in Nat, NEW src \in Seq(Nat), NEW x,
         SizedCells(d, e, w, u), Rewritten(d, c, w, u, src, x), Fits(u, src, x),
         NEW f, NEW g, NEW m, NEW n \in Names, EndsAt(e, f, g, m, w, n)
  PROVE  EndsAt(c, f, g, m, w, n) /\ HasMore(e, c, n, g, m, src)
<1>1. /\ m \in Nat /\ g \in [0 .. m -> FileIds] /\ IsPath(e, f, g, m) /\ g[m] = w
      /\ HasData(e, n, g, m) /\ x = u + Len(src) /\ x <= BlockSize
  BY DEF IsPath, EndsAt, Fits
<1>2. /\ c \in [Blocks -> [Offsets -> Nat]] /\ e[w][0] = u /\ c[w][0] = x
      /\ \A b \in Blocks \ {w} : c[b] = e[b]
      /\ \A i \in Offsets \ {0} :
           c[w][i] = IF u <= i /\ i < u + Len(src) THEN src[i - u + 1] ELSE e[w][i]
  BY DEF SizedCells, Rewritten
<1>3. IsPath(c, f, g, m)
  <2>1. \A b \in FileIds : b # g[m] => c[b][0] = e[b][0]
    BY <1>1, <1>2, BlockSets
  <2>2. Link(c)[g[m]] = 0
    BY <1>1, <1>2 DEF Link, block_get_next
  <2>3. QED
    BY <1>1, <2>1, <2>2, PathLast
<1>4. HasData(c, n, g, m)
  <2>1. u \in DataStart(n, m) .. BlockSize
    BY <1>1, <1>2, Zenon DEF HasData
  <2>2. DataStart(n, m) \in 1 .. BlockSize /\ BlockSize \in Nat
    BY <1>1, Chunks, BlockSets
  <2>3. x \in DataStart(n, m) .. BlockSize
    BY <1>1, <2>1, <2>2
  <2>4. c[g[m]][0] \in DataStart(n, m) .. BlockSize
    BY <1>1, <1>2, <2>3
  <2>5. QED
    BY <1>1, <1>2, <2>4, Zenon DEF HasData
<1>5. Appended(e, c, g, m, src)
  <2>1. \A k \in 0 .. m - 1 : \A i \in Offsets \ {0} : c[g[k]][i] = e[g[k]][i]
    <3> TAKE k \in 0 .. m - 1
    <3>1. k \in 0 .. m /\ m \in 0 .. m /\ k # m
      BY <1>1
    <3>2. g[k] \in FileIds /\ g[k] # w
      BY <1>1, <3>1, PathInjective
    <3>3. QED
      BY <1>2, <3>2, BlockSets
  <2>2. QED
    BY <1>1, <1>2, <2>1 DEF Appended
<1>6. HasMore(e, c, n, g, m, src)
  <2>1. m \in Nat /\ HasData(e, n, g, m) /\ Appended(e, c, g, m, src)
    BY <1>1, <1>5
  <2>2. QED
    BY <2>1, AppendData, Zenon
<1>7. QED
  BY <1>1, <1>3, <1>4, <1>6 DEF EndsAt

\* Block w of c is linked to block h, which has no bytes.
Continues(t, c, w, h) ==
  /\ \A b \in Blocks \ {w, h} : c[b] = t[b]
  /\ \A b \in Blocks : \A i \in Offsets \ {0} : c[b][i] = t[b][i]
  /\ c[w][0] = h + BlockSize /\ c[h][0] = 1
  /\ t[w][0] = BlockSize

\* In c the file has block h too, and the same bytes.
SameData(t, c, n, g, m, h) == DataOf(c, n, Longer(g, m, h), m + 1) = DataOf(t, n, g, m)

LEMMA NextBlockBytes ==
  ASSUME NEW t, NEW c, NEW w \in FileIds, NEW h \in FileIds, Continues(t, c, w, h),
         NEW f, NEW g, NEW m, NEW n \in Names, EndsAt(t, f, g, m, w, n),
         \A k \in 0 .. m : g[k] # h, c \in [Blocks -> [Offsets -> Nat]]
  PROVE  EndsAt(c, f, Longer(g, m, h), m + 1, h, n) /\ SameData(t, c, n, g, m, h)
<1>1. /\ m \in Nat /\ g \in [0 .. m -> FileIds] /\ BlockSize \in Nat
      /\ IsPath(t, f, g, m) /\ g[m] = w /\ HasData(t, n, g, m)
  BY BlockSets DEF IsPath, EndsAt
<1>2. /\ \A b \in Blocks \ {w, h} : c[b] = t[b]
      /\ \A b \in Blocks : \A i \in Offsets \ {0} : c[b][i] = t[b][i]
      /\ c[w][0] = h + BlockSize /\ c[h][0] = 1 /\ t[w][0] = BlockSize
  BY DEF Continues
<1>3. PathGrows(t, c, g, m, h)
  <2>1. \A b \in FileIds : b # g[m] /\ b # h => c[b][0] = t[b][0]
    BY <1>1, <1>2, BlockSets
  <2>2. Link(c)[w] = h /\ Link(c)[h] = 0
    <3>1. Link(c)[w] = block_get_next(c[w]) /\ Link(c)[h] = block_get_next(c[h])
      BY DEF Link
    <3>2. PICK x, y : x = c[w] /\ y = c[h]
      OBVIOUS
    <3>3. h \in Nat /\ h > 0 /\ BlockSize > 2 /\ x[0] = h + BlockSize /\ y[0] = 1
      BY <1>2, <3>2, BlockSets
    <3>4. block_get_next(x) = h /\ block_get_next(y) = 0
      BY <1>1, <3>3 DEF block_get_next
    <3>5. QED
      BY <3>1, <3>2, <3>4
  <2>3. QED
    BY <1>1, <2>1, <2>2 DEF PathGrows
<1>4. /\ IsPath(c, f, Longer(g, m, h), m + 1)
      /\ Longer(g, m, h)[m + 1] = h /\ \A k \in 0 .. m : Longer(g, m, h)[k] = g[k]
  <2>1. IsPath(t, f, g, m) /\ PathGrows(t, c, g, m, h)
    BY <1>1, <1>3
  <2>2. IsPath(c, f, Longer(g, m, h), m + 1)
    BY <2>1, PathGrow, Zenon
  <2>3. Longer(g, m, h)[m + 1] = h /\ \A k \in 0 .. m : Longer(g, m, h)[k] = g[k]
    BY <1>1 DEF Longer
  <2>4. QED
    BY <2>2, <2>3
<1>5. PICK l : l = Longer(g, m, h)
  OBVIOUS
<1>6. SameCells(t, c, g, l, m)
  <2>1. \A k \in 0 .. m : l[k] = g[k] /\ g[k] \in Blocks
    BY <1>1, <1>4, <1>5, BlockSets
  <2>2. QED
    BY <1>2, <2>1 DEF SameCells
<1>7. IsGrown(t, c, g, l, m)
  BY <1>1, <1>2, <1>4, <1>5, <1>6 DEF IsGrown
<1>8. DataOf(c, n, l, m + 1) = DataOf(t, n, g, m)
  BY <1>1, <1>7, GrowData
<1>9. HasData(c, n, l, m + 1)
  <2>1. PICK q : q = m + 1
    OBVIOUS
  <2>2. q \in Nat /\ l \in [0 .. q -> FileIds] /\ l[q] = h /\ DataStart(n, q) = 1
    BY <1>1, <1>4, <1>5, <2>1 DEF IsPath, DataStart
  <2>3. c[l[q]][0] = 1 /\ 1 \in 1 .. BlockSize
    BY <1>2, <2>2, BlockSets
  <2>4. HasData(c, n, l, q)
    BY <2>2, <2>3 DEF HasData
  <2>5. QED
    BY <2>1, <2>4
<1>10. QED
  BY <1>4, <1>5, <1>8, <1>9 DEF EndsAt, SameData

\* The last block was full, of bytes of an old file.
LEMMA OldBytes ==
  ASSUME NEW d, NEW e, NEW w \in FileIds, SizedCells(d, e, w, 1), d[w][0] = BlockSize,
         NEW f, NEW g, NEW m, NEW n \in Names, EndsAt(e, f, g, m, w, n), m # 0,
         \A i \in Offsets \ {0} : d[w][i] \in Bytes
  PROVE  /\ EndsAt(d, f, g, m, w, n)
         /\ FS!FillsItsBlocks(n, Len(DataOf(e, n, g, m)))
         /\ \E junk \in [1 .. Chunk -> Bytes] : HasMore(e, d, n, g, m, junk)
<1>1. m \in Nat /\ m >= 1 /\ BlockSize \in Nat /\ BlockSize > 2 /\ Chunk = BlockSize - 1
      /\ Bytes \subseteq Nat /\ g[m] = w /\ HasData(e, n, g, m)
  BY BlockSets, BlockFSAssumption DEF IsPath, EndsAt, Chunk, BlockFSAssumption
<1>2. PICK junk : junk = [i \in 1 .. BlockSize - 1 |-> d[w][i]]
  OBVIOUS
<1>3. junk \in [1 .. Chunk -> Bytes]
  <2>1. \A i \in 1 .. BlockSize - 1 : i \in Offsets \ {0}
    BY <1>1, BlockSets
  <2>2. QED
    BY <1>1, <1>2, <2>1
<1>4. junk \in Seq(Nat) /\ Len(junk) = BlockSize - 1
  <2>1. junk \in [1 .. BlockSize - 1 -> Nat]
    BY <1>1, <1>3
  <2>2. QED
    BY <1>1, <2>1
<1>5. Rewritten(d, d, w, 1, junk, BlockSize)
  <2>1. \A i \in Offsets \ {0} :
          d[w][i] = IF 1 <= i /\ i < 1 + Len(junk) THEN junk[i - 1 + 1] ELSE d[w][i]
    <3> TAKE i \in Offsets \ {0}
    <3>1. i \in 1 .. BlockSize - 1 /\ i - 1 + 1 = i
      BY <1>1, BlockSets
    <3>2. junk[i] = d[w][i]
      BY <1>2, <3>1
    <3>3. QED
      BY <3>1, <3>2
  <2>2. QED
    BY <2>1 DEF Rewritten, SizedCells
<1>6. EndsAt(d, f, g, m, w, n) /\ HasMore(e, d, n, g, m, junk)
  <2>1. PICK x : x = BlockSize
    OBVIOUS
  <2>2. PICK u : u = 1
    OBVIOUS
  <2>3. Fits(u, junk, x) /\ Rewritten(d, d, w, u, junk, x) /\ SizedCells(d, e, w, u) /\ u \in Nat
        /\ junk \in Seq(Nat)
    BY <1>1, <1>4, <1>5, <2>1, <2>2 DEF Fits
  <2>4. QED
    BY <2>3, LastBytes, Zenon
<1>7. FS!FillsItsBlocks(n, Len(DataOf(e, n, g, m)))
  <2>1. PICK l : l = Len(DataOf(e, n, g, m))
    OBVIOUS
  <2>2. PICK k, a, c : k = m - 1 /\ a = FirstChunk[n] /\ c = Chunk
    OBVIOUS
  <2>3. k \in Nat /\ a \in Nat /\ c \in Nat /\ c >= 1
    BY <1>1, <2>2, Chunks
  <2>4. l = DataLength(e, n, g, m)
    BY <1>1, <2>1, DataIsSeq
  <2>5. e[g[m]][0] = 1 /\ DataStart(n, m) = 1 /\ ChunkStart(n, m) = a + k * c
    BY <1>1, <2>2 DEF SizedCells, DataStart, ChunkStart
  <2>6. k * c \in Nat /\ k * c >= k
    <3>1. PICK b : b = c - 1
      OBVIOUS
    <3>2. b \in Nat /\ c = b + 1
      BY <2>3, <3>1
    <3>3. k * (b + 1) = k * b + k /\ k * b \in Nat
      BY <2>3, <3>2
    <3>4. k * c = k * b + k
      BY <3>2, <3>3, Zenon
    <3>5. QED
      BY <2>3, <3>3, <3>4
  <2>7. l = a + k * c + 1 - 1
    BY <2>4, <2>5, Zenon DEF DataLength
  <2>8. PICK p : p = k * c
    OBVIOUS
  <2>9. k \in 0 .. l /\ l = a + p
    BY <2>3, <2>6, <2>7, <2>8
  <2>10. l = FirstChunk[n] + k * Chunk
    BY <2>2, <2>8, <2>9, Zenon
  <2>11. QED
    BY <2>1, <2>9, <2>10, Zenon DEF FS!FillsItsBlocks
<1>8. QED
  BY <1>3, <1>6, <1>7

-----------------------------------------------------------------------------
(***************************************************************************)
(* A write, of which k bytes are in the blocks of the file that are full.  *)
(* d is the disk, c the call, w the block that is written, and e the disk  *)
(* as it would be if the call stopped there.                               *)
(***************************************************************************)
\* The file has the first k bytes.
WrittenTo(e, c, w, g, m, k) ==
  /\ EndsAt(e, c.file, g, m, w, c.before[c.file].name)
  /\ DataOf(e, c.before[c.file].name, g, m) = c.before[c.file].data \o SubSeq(c.written, 1, k)

\* The bytes t are those of s but the first k.
Remains(s, k, t) == k \in 0 .. Len(s) /\ t = SubSeq(s, k + 1, Len(s))

WritesAt(d, c, w, e, g, m, k) ==
  /\ SizedCells(d, e, w, c.used)
  /\ WrittenTo(e, c, w, g, m, k)
  /\ Remains(c.written, k, c.bytes)
  /\ \/ k = 0 /\ c.used = d[w][0]
     \/ w # c.file /\ c.used = 1 /\ d[w][0] >= BlockSize

IsWriting(d, c, w) == \E e, g, m, k : WritesAt(d, c, w, e, g, m, k)

WriteTypes(d, c, w) ==
  /\ d \in [Blocks -> [Offsets -> Nat]] /\ w \in FileIds /\ c.used \in 1 .. BlockSize
  /\ c.written \in Seq(Nat)
  /\ c.before[c.file].name \in Names /\ c.before[c.file].data \in Seq(Nat)

LEMMA AllOf ==
  ASSUME NEW s \in Seq(Nat)
  PROVE  SubSeq(s, 1, Len(s)) = s
  OBVIOUS

LEMMA NoneOf ==
  ASSUME NEW s \in Seq(Nat), NEW x \in Seq(Nat)
  PROVE  x \o SubSeq(s, 1, 0) = x
  OBVIOUS

LEMMA AllAfter ==
  ASSUME NEW s \in Seq(Nat), NEW p \in 0 .. Len(s)
  PROVE  /\ SubSeq(s, p + 1, Len(s)) \in Seq(Nat) /\ Len(SubSeq(s, p + 1, Len(s))) = Len(s) - p
         /\ \A i \in 1 .. Len(s) - p : SubSeq(s, p + 1, Len(s))[i] = s[p + i]
<1>1. PICK a, l : a = p + 1 /\ l = Len(s)
  OBVIOUS
<1>2. PICK t : t = SubSeq(s, a, l)
  OBVIOUS
<1>3. l \in Nat /\ a \in 1 .. l + 1 /\ p = a - 1
  BY <1>1
<1>4. t \in Seq(Nat) /\ Len(t) = l - a + 1
  BY <1>1, <1>2, <1>3
<1>5. ASSUME NEW i \in 1 .. l - p
      PROVE  t[i] = s[p + i]
  <2>1. t[i] = s[a + i - 1]
    BY <1>1, <1>2, <1>3
  <2>2. a + i - 1 = p + i
    BY <1>3
  <2>3. QED
    BY <2>1, <2>2
<1>6. Len(t) = l - p
  BY <1>3, <1>4
<1>7. QED
  BY <1>1, <1>2, <1>4, <1>5, <1>6

\* The first j of the bytes that remain.
TakesMore(s, k, t, j) ==
  /\ t \in Seq(Nat) /\ Len(t) = Len(s) - k /\ SubSeq(t, 1, j) \in Seq(Nat)
  /\ Len(SubSeq(t, 1, j)) = j /\ SubSeq(s, 1, k) \in Seq(Nat)
  /\ SubSeq(s, 1, k) \o SubSeq(t, 1, j) = SubSeq(s, 1, k + j)
  /\ Remains(s, k + j, SubSeq(t, j + 1, Len(t)))

LEMMA TakeMore ==
  ASSUME NEW s \in Seq(Nat), NEW k, NEW t, Remains(s, k, t), NEW j \in 0 .. Len(t)
  PROVE  TakesMore(s, k, t, j)
<1>0. k \in 0 .. Len(s) /\ t = SubSeq(s, k + 1, Len(s))
  BY DEF Remains
<1>1. PICK l : l = Len(s)
  OBVIOUS
<1>2. l \in Nat /\ k \in 0 .. l /\ t = SubSeq(s, k + 1, l)
  BY <1>0, <1>1
<1>3. t \in Seq(Nat) /\ Len(t) = l - k /\ \A i \in 1 .. l - k : t[i] = s[k + i]
  BY <1>1, <1>2
<1>4. j \in 0 .. l - k /\ k + j \in 0 .. l
  BY <1>2, <1>3
<1>5. PICK a, b : a = SubSeq(s, 1, k) /\ b = SubSeq(t, 1, j)
  OBVIOUS
<1>6. a \in Seq(Nat) /\ Len(a) = k /\ \A i \in 1 .. k : a[i] = s[i]
  <2>1. a = SubSeq(s, 1, k) /\ s \in Seq(Nat) /\ k \in Nat /\ k <= Len(s)
    BY <1>1, <1>2, <1>5
  <2>2. QED
    BY <2>1
<1>7. b \in Seq(Nat) /\ Len(b) = j /\ \A i \in 1 .. j : b[i] = t[i]
  BY <1>3, <1>4, <1>5
<1>8. PICK c : c = SubSeq(s, 1, k + j)
  OBVIOUS
<1>9. c \in Seq(Nat) /\ Len(c) = k + j /\ \A i \in 1 .. k + j : c[i] = s[i]
  BY <1>1, <1>4, <1>8
<1>10. a \o b = c
  <2>1. PICK z : z = a \o b
    OBVIOUS
  <2>2. z \in Seq(Nat) /\ Len(z) = k + j
        /\ \A i \in 1 .. k + j : z[i] = IF i <= k THEN a[i] ELSE b[i - k]
    <3>1. a \in Seq(Nat) /\ b \in Seq(Nat) /\ Len(a) = k /\ Len(b) = j
      BY <1>6, <1>7
    <3>2. /\ Len(a \o b) = Len(a) + Len(b)
          /\ \A i \in 1 .. Len(a) + Len(b) :
               (a \o b)[i] = IF i <= Len(a) THEN a[i] ELSE b[i - Len(a)]
      BY <3>1, ConcatProperties
    <3>3. z \in Seq(Nat)
      BY <3>1, <2>1
    <3>4. QED
      BY <2>1, <3>1, <3>2, <3>3
  <2>3. ASSUME NEW i \in 1 .. k + j
        PROVE  z[i] = c[i]
    <3>1. CASE i <= k
      <4>1. i \in 1 .. k
        BY <1>2, <1>4, <3>1
      <4>2. QED
        BY <1>6, <1>9, <2>2, <3>1, <4>1
    <3>2. CASE ~ i <= k
      <4>1. i - k \in 1 .. j /\ i - k \in 1 .. l - k /\ k + (i - k) = i
        BY <1>2, <1>4, <3>2
      <4>2. b[i - k] = s[k + (i - k)]
        BY <1>3, <1>7, <4>1
      <4>3. QED
        BY <1>9, <2>2, <3>2, <4>1, <4>2
    <3>3. QED
      BY <3>1, <3>2
  <2>4. z = [i \in 1 .. k + j |-> z[i]] /\ c = [i \in 1 .. k + j |-> c[i]]
    BY <1>9, <2>2
  <2>5. QED
    BY <2>1, <2>3, <2>4
<1>11. SubSeq(t, j + 1, Len(t)) = SubSeq(s, k + j + 1, l)
  <2>1. PICK x, y : x = SubSeq(t, j + 1, l - k) /\ y = SubSeq(s, k + j + 1, l)
    OBVIOUS
  <2>2. PICK q : q = l - k - j
    OBVIOUS
  <2>3. q \in Nat /\ x \in Seq(Nat) /\ Len(x) = q /\ \A i \in 1 .. q : x[i] = t[j + i]
    BY <1>2, <1>3, <1>4, <2>1, <2>2
  <2>4. y \in Seq(Nat) /\ Len(y) = q /\ \A i \in 1 .. q : y[i] = s[k + j + i]
    <3>1. PICK p : p = k + j
      OBVIOUS
    <3>2. y = SubSeq(s, p + 1, l) /\ p \in 0 .. l /\ l = Len(s) /\ q = l - p
      BY <1>1, <1>2, <1>4, <2>1, <2>2, <3>1
    <3>3. y \in Seq(Nat) /\ Len(y) = q /\ \A i \in 1 .. q : y[i] = s[p + i]
      BY <3>2, AllAfter
    <3>4. QED
      BY <3>1, <3>3
  <2>5. ASSUME NEW i \in 1 .. q
        PROVE  x[i] = y[i]
    <3>1. j + i \in 1 .. l - k /\ k + (j + i) = k + j + i
      BY <1>2, <1>4, <2>2, <2>3
    <3>2. t[j + i] = s[k + (j + i)]
      BY <1>3, <3>1
    <3>3. QED
      BY <2>3, <2>4, <3>1, <3>2
  <2>6. x = [i \in 1 .. q |-> x[i]] /\ y = [i \in 1 .. q |-> y[i]]
    BY <2>3, <2>4
  <2>7. x = y
    BY <2>5, <2>6
  <2>8. QED
    BY <1>3, <2>1, <2>7
<1>12. QED
  BY <1>1, <1>3, <1>4, <1>5, <1>6, <1>7, <1>8, <1>10, <1>11 DEF TakesMore, Remains

LEMMA ThreeParts ==
  ASSUME NEW x \in Seq(Nat), NEW a \in Seq(Nat), NEW b \in Seq(Nat)
  PROVE  (x \o a) \o b = x \o (a \o b)
  BY ConcatAssociative

\* The first j of its bytes are in block w, the size of which becomes x.
Puts(d, t, c, w, j, x) ==
  /\ Rewritten(d, t, w, c.used, SubSeq(c.bytes, 1, j), x)
  /\ j \in 0 .. Len(c.bytes) /\ x = c.used + j /\ x <= BlockSize

LEMMA WriteMore ==
  ASSUME NEW d, NEW c, NEW w, WriteTypes(d, c, w), NEW e, NEW g, NEW m, NEW k,
         WritesAt(d, c, w, e, g, m, k), NEW j, NEW t, NEW x, Puts(d, t, c, w, j, x)
  PROVE  /\ WrittenTo(t, c, w, g, m, k + j)
         /\ TakesMore(c.written, k, c.bytes, j)
<1>1. PICK f, n, u : f = c.file /\ n = c.before[c.file].name /\ u = c.used
  OBVIOUS
<1>2. PICK b, s, D : b = c.bytes /\ s = c.written /\ D = c.before[c.file].data
  OBVIOUS
<1>3. /\ w \in FileIds /\ u \in Nat /\ u \in 1 .. BlockSize /\ s \in Seq(Nat) /\ n \in Names
      /\ D \in Seq(Nat)
  BY <1>1, <1>2, BlockSets DEF WriteTypes
<1>4. /\ SizedCells(d, e, w, u) /\ EndsAt(e, f, g, m, w, n) /\ Remains(s, k, b)
      /\ DataOf(e, n, g, m) = D \o SubSeq(s, 1, k)
  BY <1>1, <1>2, Zenon DEF WritesAt, WrittenTo
<1>5. PICK p, src : p = SubSeq(s, 1, k) /\ src = SubSeq(b, 1, j)
  OBVIOUS
<1>6. j \in 0 .. Len(b) /\ Rewritten(d, t, w, u, src, x) /\ x = u + j /\ x <= BlockSize
  BY <1>1, <1>2, <1>5 DEF Puts
<1>7. TakesMore(s, k, b, j)
  <2>1. s \in Seq(Nat) /\ Remains(s, k, b) /\ j \in 0 .. Len(b)
    BY <1>3, <1>4, <1>6
  <2>2. QED
    BY <2>1, TakeMore, Zenon
<1>8. src \in Seq(Nat) /\ Len(src) = j /\ p \in Seq(Nat) /\ p \o src = SubSeq(s, 1, k + j)
  BY <1>5, <1>7 DEF TakesMore
<1>9. EndsAt(t, f, g, m, w, n) /\ HasMore(e, t, n, g, m, src)
  <2>1. Fits(u, src, x)
    BY <1>6, <1>8 DEF Fits
  <2>2. /\ w \in FileIds /\ u \in Nat /\ src \in Seq(Nat) /\ n \in Names
        /\ SizedCells(d, e, w, u) /\ EndsAt(e, f, g, m, w, n) /\ Rewritten(d, t, w, u, src, x)
    BY <1>3, <1>4, <1>6, <1>8
  <2>3. QED
    BY <2>1, <2>2, LastBytes, Zenon
<1>10. PICK y, z, q : y = DataOf(e, n, g, m) /\ z = DataOf(t, n, g, m) /\ q = SubSeq(s, 1, k + j)
  OBVIOUS
<1>11. z = y \o src /\ y = D \o p /\ p \o src = q
  BY <1>4, <1>5, <1>8, <1>9, <1>10 DEF HasMore
<1>12. z = D \o q
  <2>1. D \in Seq(Nat) /\ p \in Seq(Nat) /\ src \in Seq(Nat)
    BY <1>3, <1>8
  <2>2. (D \o p) \o src = D \o (p \o src)
    BY <2>1, ThreeParts
  <2>3. QED
    BY <1>11, <2>2
<1>13. WrittenTo(t, c, w, g, m, k + j)
  BY <1>1, <1>2, <1>9, <1>10, <1>12 DEF WrittenTo
<1>14. QED
  BY <1>2, <1>7, <1>13

\* The disk has the file, with all the bytes that are written.
HasAll(d, c) ==
  \E g, m : /\ IsPath(d, c.file, g, m)
            /\ DataOf(d, c.before[c.file].name, g, m) = c.before[c.file].data \o c.written

\* The bytes that remain fit in the block.
LastWrite(d, t, c, w) ==
  /\ Len(c.bytes) <= BlockSize - c.used
  /\ t = [d EXCEPT ![w] = [CopyTo(d[w], c.used, c.bytes) EXCEPT ![0] = c.used + Len(c.bytes)]]

LEMMA LastWriteData ==
  ASSUME NEW d, NEW c, NEW w, WriteTypes(d, c, w), IsWriting(d, c, w),
         NEW t, LastWrite(d, t, c, w)
  PROVE  HasAll(t, c)
<1>1. PICK e, g, m, k : WritesAt(d, c, w, e, g, m, k)
  BY DEF IsWriting
<1>2. PICK s, b, u, j, x : /\ s = c.written /\ b = c.bytes /\ u = c.used /\ j = Len(c.bytes)
                           /\ x = c.used + Len(c.bytes)
  OBVIOUS
<1>3. s \in Seq(Nat) /\ Remains(s, k, b) /\ u \in 1 .. BlockSize /\ w \in FileIds
      /\ d \in [Blocks -> [Offsets -> Nat]]
  BY <1>1, <1>2 DEF WritesAt, WriteTypes
<1>4. b \in Seq(Nat) /\ k \in 0 .. Len(s) /\ Len(b) = Len(s) - k
  BY <1>3, AllAfter DEF Remains
<1>5. j = Len(b) /\ x = u + j /\ j <= BlockSize - u
      /\ t = [d EXCEPT ![w] = [CopyTo(d[w], u, b) EXCEPT ![0] = x]]
  BY <1>2 DEF LastWrite
<1>6. j \in Nat /\ x \in Nat /\ x <= BlockSize /\ u \in Nat /\ w \in Blocks
      /\ j \in 0 .. Len(b) /\ k + j = Len(s)
  BY <1>3, <1>4, <1>5, BlockSets
<1>7. Rewritten(d, t, w, u, b, x)
  BY <1>3, <1>4, <1>5, <1>6, WriteCells
<1>8. SubSeq(b, 1, j) = b
  BY <1>4, <1>5, AllOf
<1>9. Puts(d, t, c, w, j, x)
  BY <1>2, <1>5, <1>6, <1>7, <1>8 DEF Puts
<1>10. WrittenTo(t, c, w, g, m, k + j)
  BY <1>1, <1>9, WriteMore, Zenon
<1>11. SubSeq(s, 1, k + j) = s
  BY <1>3, <1>6, AllOf
<1>12. QED
  BY <1>2, <1>10, <1>11 DEF WrittenTo, EndsAt, HasAll

\* The bytes that remain do not fit in the block: it is full, and block h is
\* the next one.
NextWrite(d, t, c, cc, w, h) ==
  /\ Len(c.bytes) > BlockSize - c.used
  /\ t = [d EXCEPT ![w] = [CopyTo(d[w], c.used, SubSeq(c.bytes, 1, BlockSize - c.used))
                             EXCEPT ![0] = h + BlockSize]]
  /\ cc.file = c.file /\ cc.before = c.before /\ cc.written = c.written
  /\ cc.used = 1 /\ cc.bytes = SubSeq(c.bytes, BlockSize - c.used + 1, Len(c.bytes))

\* Block h is not one of the file.
OffPath(d, c, w, h) ==
  /\ h # w /\ h # c.file /\ d[h][0] >= BlockSize
  /\ \A e, g, m : SizedCells(d, e, w, c.used) /\ IsPath(e, c.file, g, m) =>
                    \A k \in 0 .. m : g[k] # h

LEMMA NextWriteData ==
  ASSUME NEW d, NEW c, NEW w, WriteTypes(d, c, w), IsWriting(d, c, w),
         NEW h \in FileIds, NEW t, NEW cc, NextWrite(d, t, c, cc, w, h), OffPath(d, c, w, h)
  PROVE  IsWriting(t, cc, h)
<1>1. PICK e, g, m, k : WritesAt(d, c, w, e, g, m, k)
  BY DEF IsWriting
<1>2. PICK s, b, u : s = c.written /\ b = c.bytes /\ u = c.used
  OBVIOUS
<1>3. PICK f, n : f = c.file /\ n = c.before[c.file].name
  OBVIOUS
<1>4. /\ s \in Seq(Nat) /\ Remains(s, k, b) /\ u \in 1 .. BlockSize /\ w \in FileIds
      /\ d \in [Blocks -> [Offsets -> Nat]] /\ n \in Names
      /\ SizedCells(d, e, w, u) /\ EndsAt(e, f, g, m, w, n)
  BY <1>1, <1>2, <1>3, Zenon DEF WritesAt, WriteTypes, WrittenTo
<1>5. b \in Seq(Nat) /\ k \in 0 .. Len(s) /\ Len(b) = Len(s) - k
  BY <1>4, AllAfter DEF Remains
<1>6. PICK j, x, z : j = BlockSize - u /\ x = BlockSize /\ z = h + BlockSize
  OBVIOUS
<1>7. PICK src : src = SubSeq(b, 1, j)
  OBVIOUS
<1>8. /\ Len(b) > j /\ cc.file = f /\ cc.before = c.before /\ cc.written = s
      /\ cc.used = 1 /\ cc.bytes = SubSeq(b, j + 1, Len(b))
      /\ t = [d EXCEPT ![w] = [CopyTo(d[w], u, src) EXCEPT ![0] = z]]
  BY <1>2, <1>3, <1>6, <1>7, Zenon DEF NextWrite
<1>9. /\ j \in 0 .. Len(b) /\ x = u + j /\ x \in Nat /\ x <= BlockSize /\ u \in Nat /\ w \in Blocks
      /\ z \in Nat /\ h \in Nat /\ h \in Blocks
  BY <1>4, <1>5, <1>6, <1>8, BlockSets
<1>10. src \in Seq(Nat)
  BY <1>5, <1>7, <1>9, PartOfBytes
<1>11. PICK y : y = [d EXCEPT ![w] = [CopyTo(d[w], u, src) EXCEPT ![0] = x]]
  OBVIOUS
<1>12. Rewritten(d, y, w, u, src, x) /\ Rewritten(d, t, w, u, src, z)
  BY <1>4, <1>8, <1>9, <1>10, <1>11, WriteCells
<1>13. Puts(d, y, c, w, j, x)
  BY <1>2, <1>7, <1>9, <1>12 DEF Puts
<1>14. WrittenTo(y, c, w, g, m, k + j) /\ TakesMore(c.written, k, c.bytes, j)
  BY <1>1, <1>13, WriteMore, Zenon
<1>15. PICK a : a = Sized(t, h, 1)
  OBVIOUS
<1>16. SizedCells(t, a, h, 1)
  <2>1. t \in [Blocks -> [Offsets -> Nat]] /\ 1 \in Nat
    BY <1>12 DEF Rewritten
  <2>2. QED
    BY <1>9, <1>15, <2>1, SizedIs
<1>17. h # w /\ h # f /\ d[h][0] >= BlockSize /\ \A i \in 0 .. m : g[i] # h
  <2>1. SizedCells(d, e, w, c.used) /\ IsPath(e, c.file, g, m)
    BY <1>2, <1>3, <1>4 DEF EndsAt
  <2>2. \A i \in 0 .. m : g[i] # h
    BY <2>1, Zenon DEF OffPath
  <2>3. QED
    BY <1>3, <2>2 DEF OffPath
<1>18. Continues(y, a, w, h)
  <2>1. /\ \A i \in Blocks \ {w} : t[i] = y[i]
        /\ \A i \in Offsets \ {0} : t[w][i] = y[w][i]
        /\ t[w][0] = z /\ y[w][0] = x
    BY <1>12 DEF Rewritten
  <2>2. /\ \A i \in Blocks \ {h} : a[i] = t[i]
        /\ \A i \in Offsets \ {0} : a[h][i] = t[h][i]
        /\ a[h][0] = 1
    BY <1>16 DEF SizedCells
  <2>3. \A i \in Blocks \ {w, h} : a[i] = y[i]
    BY <2>1, <2>2
  <2>4. ASSUME NEW q \in Blocks, NEW i \in Offsets \ {0}
        PROVE  a[q][i] = y[q][i]
    BY <2>1, <2>2
  <2>5. a[w] = t[w]
    BY <1>9, <1>17, <2>2
  <2>6. a[w][0] = h + BlockSize /\ a[h][0] = 1 /\ y[w][0] = BlockSize
    BY <1>6, <2>1, <2>2, <2>5
  <2>7. QED
    BY <2>3, <2>4, <2>6 DEF Continues
<1>19. EndsAt(a, f, Longer(g, m, h), m + 1, h, n) /\ SameData(y, a, n, g, m, h)
  <2>1. a \in [Blocks -> [Offsets -> Nat]]
    BY <1>16 DEF SizedCells
  <2>2. /\ w \in FileIds /\ n \in Names /\ EndsAt(y, f, g, m, w, n) /\ Continues(y, a, w, h)
        /\ \A i \in 0 .. m : g[i] # h
    BY <1>3, <1>4, <1>14, <1>17, <1>18 DEF WrittenTo
  <2>3. QED
    BY <2>1, <2>2, NextBlockBytes, Zenon
<1>20. WrittenTo(a, cc, h, Longer(g, m, h), m + 1, k + j)
  <2>1. DataOf(y, n, g, m) = c.before[c.file].data \o SubSeq(c.written, 1, k + j)
    BY <1>3, <1>14 DEF WrittenTo
  <2>2. cc.before[cc.file].name = n /\ cc.before[cc.file].data = c.before[c.file].data
        /\ cc.written = c.written /\ cc.file = f
    BY <1>2, <1>3, <1>8
  <2>3. QED
    BY <1>19, <2>1, <2>2 DEF WrittenTo, SameData
<1>21. Remains(cc.written, k + j, cc.bytes)
  BY <1>2, <1>8, <1>14 DEF TakesMore
<1>22. t[h][0] >= BlockSize
  <2>1. t[h] = d[h]
    BY <1>9, <1>12, <1>17 DEF Rewritten
  <2>2. QED
    BY <1>17, <2>1
<1>23. WritesAt(t, cc, h, a, Longer(g, m, h), m + 1, k + j)
  BY <1>8, <1>16, <1>17, <1>20, <1>21, <1>22 DEF WritesAt
<1>24. QED
  BY <1>23 DEF IsWriting

\* There is no block for the bytes that remain: the file has no more data, or
\* its blocks are full, the last one with bytes of an old file.
HasSomeOf(d, f, n, x, s) ==
  \E g, m :
    /\ IsPath(d, f, g, m)
    /\ \/ DataOf(d, n, g, m) = x
       \/ \E k \in 0 .. Len(s) - 1, junk \in [1 .. Chunk -> Bytes] :
            /\ FS!FillsItsBlocks(n, Len(x) + k)
            /\ DataOf(d, n, g, m) = x \o (SubSeq(s, 1, k) \o junk)

HasSome(d, c) == HasSomeOf(d, c.file, c.before[c.file].name, c.before[c.file].data, c.written)

LEMMA StopWriteData ==
  ASSUME NEW d, NEW c, NEW w, WriteTypes(d, c, w), IsWriting(d, c, w),
         Len(c.bytes) > BlockSize - c.used, d[w][0] <= BlockSize,
         \A i \in Offsets \ {0} : d[w][i] \in Bytes
  PROVE  HasSome(d, c) /\ Len(c.written) > 0
<1>1. PICK e, g, m, k : WritesAt(d, c, w, e, g, m, k)
  BY DEF IsWriting
<1>2. PICK s, b, u : s = c.written /\ b = c.bytes /\ u = c.used
  OBVIOUS
<1>3. PICK f, n, D : f = c.file /\ n = c.before[c.file].name /\ D = c.before[c.file].data
  OBVIOUS
<1>4. /\ s \in Seq(Nat) /\ Remains(s, k, b) /\ u \in 1 .. BlockSize /\ w \in FileIds
      /\ d \in [Blocks -> [Offsets -> Nat]] /\ n \in Names /\ D \in Seq(Nat)
      /\ SizedCells(d, e, w, u) /\ EndsAt(e, f, g, m, w, n)
      /\ DataOf(e, n, g, m) = D \o SubSeq(s, 1, k)
  BY <1>1, <1>2, <1>3, Zenon DEF WritesAt, WriteTypes, WrittenTo
<1>5. b \in Seq(Nat) /\ k \in 0 .. Len(s) /\ Len(b) = Len(s) - k
  BY <1>4, AllAfter DEF Remains
<1>6. k \in 0 .. Len(s) - 1 /\ Len(s) > 0
  <2>1. Len(b) > BlockSize - u
    BY <1>2
  <2>2. Len(b) > 0
    BY <1>4, <1>5, <2>1, BlockSets
  <2>3. QED
    BY <1>4, <1>5, <2>2
<1>7. CASE k = 0 /\ u = d[w][0]
  <2>1. e = d
    <3>1. /\ d \in [Blocks -> [Offsets -> Nat]] /\ e \in [Blocks -> [Offsets -> Nat]]
          /\ \A q \in Blocks \ {w} : e[q] = d[q]
          /\ \A i \in Offsets \ {0} : e[w][i] = d[w][i]
          /\ e[w][0] = d[w][0] /\ w \in Blocks
      BY <1>4, <1>7, BlockSets DEF SizedCells
    <3>2. \A i \in Offsets : e[w][i] = d[w][i]
      BY <3>1
    <3>3. PICK p, q : p = e[w] /\ q = d[w]
      OBVIOUS
    <3>4. p \in [Offsets -> Nat] /\ q \in [Offsets -> Nat] /\ \A i \in Offsets : p[i] = q[i]
      BY <3>1, <3>2, <3>3
    <3>5. p = q
      BY <3>4
    <3>6. \A i \in Blocks : e[i] = d[i]
      BY <3>1, <3>3, <3>5
    <3>7. QED
      BY <3>1, <3>6
  <2>2. D \o SubSeq(s, 1, 0) = D
    BY <1>4, NoneOf
  <2>3. IsPath(d, f, g, m) /\ DataOf(d, n, g, m) = D
    BY <1>4, <1>7, <2>1, <2>2 DEF EndsAt
  <2>4. QED
    BY <1>2, <1>3, <1>6, <2>3 DEF HasSome, HasSomeOf
<1>8. CASE w # f /\ u = 1 /\ d[w][0] >= BlockSize
  <2>1. m # 0
    BY <1>4, <1>8 DEF EndsAt, IsPath
  <2>2. d[w][0] = BlockSize
    <3>1. d[w][0] \in Nat /\ BlockSize \in Nat
      BY <1>4, BlockSets
    <3>2. QED
      BY <1>8, <3>1
  <2>3. /\ SizedCells(d, e, w, 1) /\ EndsAt(e, f, g, m, w, n) /\ n \in Names /\ w \in FileIds
        /\ \A i \in Offsets \ {0} : d[w][i] \in Bytes
    BY <1>4, <1>8
  <2>4. /\ EndsAt(d, f, g, m, w, n) /\ FS!FillsItsBlocks(n, Len(DataOf(e, n, g, m)))
        /\ \E junk \in [1 .. Chunk -> Bytes] : HasMore(e, d, n, g, m, junk)
    BY <2>1, <2>2, <2>3, OldBytes, Zenon
  <2>5. PICK junk \in [1 .. Chunk -> Bytes] : HasMore(e, d, n, g, m, junk)
    BY <2>4
  <2>6. PICK p : p = SubSeq(s, 1, k)
    OBVIOUS
  <2>7. p \in Seq(Nat) /\ Len(p) = k
    <3>1. p = SubSeq(s, 1, k) /\ s \in Seq(Nat) /\ k \in Nat /\ k <= Len(s)
      BY <1>4, <1>5, <2>6
    <3>2. QED
      BY <3>1
  <2>8. junk \in Seq(Nat)
    <3>1. Chunk \in Nat /\ Bytes \subseteq Nat
      BY BlockSets, BlockFSAssumption DEF Chunk, BlockFSAssumption
    <3>2. junk \in [1 .. Chunk -> Nat]
      BY <3>1
    <3>3. QED
      BY <3>1, <3>2
  <2>9. DataOf(d, n, g, m) = D \o (p \o junk)
    <3>1. (D \o p) \o junk = D \o (p \o junk)
      BY <1>4, <2>7, <2>8, ThreeParts
    <3>2. DataOf(d, n, g, m) = (D \o p) \o junk
      BY <1>4, <2>5, <2>6 DEF HasMore
    <3>3. QED
      BY <3>1, <3>2
  <2>10. Len(DataOf(e, n, g, m)) = Len(D) + k
    <3>1. Len(D \o p) = Len(D) + Len(p)
      BY <1>4, <2>7, ConcatProperties
    <3>2. QED
      BY <1>4, <2>6, <2>7, <3>1
  <2>11. FS!FillsItsBlocks(n, Len(D) + k)
    BY <2>4, <2>10
  <2>12. IsPath(d, f, g, m)
    BY <2>4 DEF EndsAt
  <2>13. QED
    BY <1>2, <1>3, <1>6, <2>6, <2>9, <2>11, <2>12 DEF HasSome, HasSomeOf
<1>9. QED
  BY <1>1, <1>2, <1>3, <1>7, <1>8 DEF WritesAt

-----------------------------------------------------------------------------
(***************************************************************************)
(* The files of a disk.                                                    *)
(***************************************************************************)
LEMMA PathIsData ==
  ASSUME NEW d, NEW L, L \in SUBSET FileIds, DiskOK(d, L), NEW f \in L, Name(d[f]) \in Names,
         NEW g, NEW m, IsPath(d, f, g, m)
  PROVE  /\ Data(d, f) = DataOf(d, Name(d[f]), g, m)
         /\ HasData(d, Name(d[f]), g, m)
<1>1. m + 1 < NumBlocks /\ m \in Nat /\ g \in [0 .. m -> FileIds]
  BY PathShort DEF IsPath
<1>2. m < NumBlocks
  BY <1>1, BlockSets
<1>3. d[g[m]][0] \in DataStart(Name(d[f]), m) .. BlockSize
  BY PathSize
<1>4. Data(d, f) = DataOf(d, Name(d[f]), g, m)
  BY <1>2, PathData
<1>5. QED
  BY <1>1, <1>3, <1>4 DEF DiskOK, HasData

LEMMA FileHasPath ==
  ASSUME NEW own, NEW s, NEW L, L \in SUBSET FileIds, NEW h, Layout(own, s, L, h),
         NEW d, s = Link(d), NEW f \in L
  PROVE  \E g, m : IsPath(d, f, g, m)
<1>1. Links(Link(d), f, Own(own, f)) /\ Own(own, f) \in SUBSET FileIds
  BY DEF Layout, Own
<1>2. f \in Own(own, f)
  <2>1. \A g \in L : own[g] = g
    BY LayoutFacts, Zenon
  <2>2. QED
    BY <2>1 DEF Own
<1>3. QED
  BY <1>1, <1>2, PathExists

\* The records of the files.
IsFiles(F) ==
  /\ F = [f \in DOMAIN F |-> [name |-> F[f].name, data |-> F[f].data]]
  /\ \A f \in DOMAIN F : F[f].name \in Names /\ F[f].data \in Seq(Nat)

LEMMA FilesIs ==
  ASSUME NEW d, NEW L, L \in SUBSET FileIds, DiskOK(d, L), Listing(d, L),
         NEW own, NEW h, Layout(own, Link(d), L, h)
  PROVE  IsFiles(Files(d))
<1>1. ASSUME NEW f \in L
      PROVE  Name(d[f]) \in Names /\ Data(d, f) \in Seq(Nat)
  <2>1. Name(d[f]) \in Names
    BY ListingFacts
  <2>2. PICK g, m : IsPath(d, f, g, m)
    BY FileHasPath
  <2>3. Data(d, f) = DataOf(d, Name(d[f]), g, m) /\ HasData(d, Name(d[f]), g, m)
    BY <2>1, <2>2, PathIsData, Zenon
  <2> m \in Nat
    BY <2>2 DEF IsPath
  <2>4. DataOf(d, Name(d[f]), g, m) \in Seq(Nat)
    BY <2>1, <2>3, DataIsSeq
  <2>5. QED
    BY <2>1, <2>3, <2>4
<1>2. /\ DOMAIN Files(d) = L
      /\ \A f \in L : Files(d)[f].name = Name(d[f]) /\ Files(d)[f].data = Data(d, f)
  BY FilesAre
<1>3. Files(d) = [f \in L |-> [name |-> Name(d[f]), data |-> Data(d, f)]]
  BY ListedAre DEF Files
<1>4. QED
  BY <1>1, <1>2, <1>3 DEF IsFiles

LEMMA NewData ==
  ASSUME NEW F, NEW G, IsFiles(F), IsFiles(G), DOMAIN G = DOMAIN F, NEW f \in DOMAIN F,
         \A g \in DOMAIN F \ {f} : G[g].name = F[g].name /\ G[g].data = F[g].data,
         G[f].name = F[f].name, NEW x, G[f].data = x
  PROVE  G = [F EXCEPT ![f].data = x]
<1>1. [F EXCEPT ![f].data = x] = [F EXCEPT ![f] = [F[f] EXCEPT !.data = x]]
  OBVIOUS
<1>2. F[f] = [name |-> F[f].name, data |-> F[f].data]
  BY DEF IsFiles
<1>3. [F[f] EXCEPT !.data = x] = [name |-> F[f].name, data |-> x]
  BY <1>2
<1>4. G[f] = [name |-> F[f].name, data |-> x]
  BY DEF IsFiles
<1>5. \A g \in DOMAIN F \ {f} : G[g] = F[g]
  BY DEF IsFiles
<1>6. G = [g \in DOMAIN F |-> G[g]] /\ F = [g \in DOMAIN F |-> F[g]]
  <2>1. G = [g \in DOMAIN G |-> [name |-> G[g].name, data |-> G[g].data]]
        /\ F = [g \in DOMAIN F |-> [name |-> F[g].name, data |-> F[g].data]]
    BY DEF IsFiles
  <2>2. QED
    BY <2>1
<1>7. G = [F EXCEPT ![f] = [name |-> F[f].name, data |-> x]]
  BY <1>4, <1>5, <1>6
<1>8. QED
  BY <1>1, <1>3, <1>7

-----------------------------------------------------------------------------
(***************************************************************************)
(* The cells of the disk are bytes, but for the sizes of the blocks.       *)
(***************************************************************************)
ByteBlock(v) == v \in [Offsets -> Nat] /\ \A i \in Offsets \ {0} : v[i] \in Bytes
ByteCells(d) == \A b \in Blocks : ByteBlock(d[b])

LEMMA ByteSets ==
  /\ Blocks \subseteq Bytes /\ FileIds \subseteq Bytes /\ 0 \in Bytes
  /\ Names \subseteq Bytes /\ Bytes \subseteq Nat
  BY BlockSets, BlockFSAssumption DEF BlockFSAssumption

LEMMA ByteSize ==
  ASSUME NEW v, ByteBlock(v), NEW x \in Nat
  PROVE  ByteBlock([v EXCEPT ![0] = x])
  BY DEF ByteBlock

LEMMA ByteFile ==
  ASSUME NEW v, ByteBlock(v), NEW x \in Bytes
  PROVE  ByteBlock([v EXCEPT ![1] = x])
  BY ByteSets DEF ByteBlock

LEMMA ByteCopy ==
  ASSUME NEW v, ByteBlock(v), NEW here \in Nat, NEW src \in Seq(Bytes)
  PROVE  ByteBlock(CopyTo(v, here, src))
<1>1. BlockSize \in Nat /\ Offsets = 0 .. BlockSize - 1 /\ Bytes \subseteq Nat
  BY BlockSets, ByteSets
<1>2. ASSUME NEW i \in Offsets
      PROVE  /\ CopyTo(v, here, src)[i] \in Nat
             /\ i # 0 => CopyTo(v, here, src)[i] \in Bytes
  <2>1. CopyTo(v, here, src)[i] = IF here <= i /\ i < here + Len(src) THEN src[i - here + 1] ELSE v[i]
    BY DEF CopyTo
  <2>2. CASE here <= i /\ i < here + Len(src)
    <3>1. Len(src) \in Nat /\ i - here + 1 \in 1 .. Len(src)
      BY <1>1, <2>2
    <3>2. src[i - here + 1] \in Bytes
      BY <3>1
    <3>3. QED
      BY <1>1, <2>1, <2>2, <3>2
  <2>3. CASE ~ (here <= i /\ i < here + Len(src))
    BY <2>1, <2>3 DEF ByteBlock
  <2>4. QED
    BY <2>2, <2>3
<1>3. CopyTo(v, here, src) = [i \in Offsets |-> CopyTo(v, here, src)[i]]
  BY DEF CopyTo
<1>4. QED
  BY <1>2, <1>3 DEF ByteBlock

LEMMA ByteNext ==
  ASSUME NEW v, ByteBlock(v), NEW next \in Nat
  PROVE  ByteBlock(block_set_next(v, next))
<1>1. next + BlockSize \in Nat
  BY BlockSets
<1>2. QED
  BY <1>1, ByteSize DEF block_set_next

LEMMA ByteHeader ==
  ASSUME NEW v, ByteBlock(v), NEW n \in Names, NEW next \in Bytes
  PROVE  ByteBlock(FileHeader(v, n, next))
<1>1. NameSize[n] \in Nat /\ HeaderSize(n) \in Nat /\ n \in Bytes
  BY HeaderSizes, ByteSets
<1>2. [i \in 1 .. NameSize[n] |-> n] \in Seq(Bytes)
  BY <1>1
<1>3. ByteBlock(CopyTo(v, 2, [i \in 1 .. NameSize[n] |-> n]))
  BY <1>2, ByteCopy
<1>4. ByteBlock([CopyTo(v, 2, [i \in 1 .. NameSize[n] |-> n]) EXCEPT ![0] = HeaderSize(n)])
  BY <1>1, <1>3, ByteSize
<1>5. ByteBlock([[CopyTo(v, 2, [i \in 1 .. NameSize[n] |-> n]) EXCEPT ![0] = HeaderSize(n)]
                   EXCEPT ![1] = next])
  BY <1>4, ByteFile
<1>6. QED
  BY <1>5 DEF FileHeader

LEMMA ByteWrite ==
  ASSUME NEW d, NEW e, ByteCells(d), d \in [Blocks -> [Offsets -> Nat]],
         NEW b, NEW v, ByteBlock(v), e = [d EXCEPT ![b] = v]
  PROVE  ByteCells(e)
  BY DEF ByteCells

LEMMA ByteDisk ==
  ASSUME NEW L, NEW own, BlockInvariantOf(L, own)
  PROVE  /\ disk \in [Blocks -> [Offsets -> Nat]]
         /\ \A b \in Blocks : block_get_next(disk[b]) \in Nat
         /\ L \in SUBSET FileIds /\ L \cup {0} \subseteq Bytes /\ L \cup {0} \subseteq Blocks
         /\ DiskOK(disk, L) /\ pc \in Steps
<1>1. DiskOK(disk, L) /\ L \in SUBSET FileIds /\ pc \in Steps
  BY DEF BlockInvariantOf
<1>2. disk \in [Blocks -> [Offsets -> Nat]]
  BY <1>1 DEF DiskOK
<1>3. \A b \in Blocks : block_get_next(disk[b]) \in Nat
  BY <1>1, GoodBlocks, NextOfBlock, BlockSets
<1>4. QED
  BY <1>1, <1>2, <1>3, ByteSets, BlockSets

LEMMA CreateBytes ==
  ASSUME NEW L, NEW own, BlockInvariantOf(L, own), ByteCells(disk),
         CreateLink \/ CreateFill \/ CreatePublish
  PROVE  ByteCells(disk')
<1>1. /\ disk \in [Blocks -> [Offsets -> Nat]] /\ L \in SUBSET FileIds
      /\ L \cup {0} \subseteq Bytes /\ L \cup {0} \subseteq Blocks
  BY ByteDisk
<1>2. CASE CreateLink
  <2>1. AtLink(L, own)
    BY <1>2 DEF CreateLink, BlockInvariantOf
  <2>2. call.previous \in L \cup {0} /\ call.newFile \in Bytes
    BY <2>1, ByteSets DEF AtLink, NewPlace, NewBlock
  <2>3. ByteBlock(disk[call.previous])
    BY <1>1, <2>2 DEF ByteCells
  <2>4. ByteBlock([disk[call.previous] EXCEPT ![1] = call.newFile])
    BY <2>2, <2>3, ByteFile
  <2>5. \/ disk' = [disk EXCEPT ![call.previous] = [disk[call.previous] EXCEPT ![1] = call.newFile]]
        \/ disk' = disk
    BY <1>2 DEF CreateLink, WriteBlock
  <2>6. QED
    BY <1>1, <2>4, <2>5, ByteWrite
<1>3. CASE CreateFill
  <2>1. AtFill(L, own)
    BY <1>3 DEF CreateFill, BlockInvariantOf
  <2>2. call.name \in Names /\ call.next \in Bytes /\ call.newFile \in Blocks
    BY <1>1, <2>1, BlockSets DEF AtFill, NewPlace, NewBlock
  <2>3. ByteBlock(disk[call.newFile])
    BY <2>2 DEF ByteCells
  <2>4. ByteBlock(FileHeader(disk[call.newFile], call.name, call.next))
    BY <2>2, <2>3, ByteHeader
  <2>5. disk' = [disk EXCEPT ![call.newFile] =
                   FileHeader(disk[call.newFile], call.name, call.next)]
    BY <1>3 DEF CreateFill, WriteBlock
  <2>6. QED
    BY <1>1, <2>4, <2>5, ByteWrite
<1>4. CASE CreatePublish
  <2>1. AtPublish(L, own)
    BY <1>4 DEF CreatePublish, BlockInvariantOf
  <2>2. call.newFile \in FileIds /\ call.newFree \in Nat
        /\ Directory(disk, L \cup {call.newFile}, call.newFirst, NextOf(disk, L \cup {call.newFile}))
    BY <2>1, BlockSets DEF AtPublish, NewBlock
  <2>3. call.newFirst \in Bytes
    <3>1. PICK M : M = L \cup {call.newFile}
      OBVIOUS
    <3>2. M \in SUBSET FileIds /\ Directory(disk, M, call.newFirst, NextOf(disk, M))
      BY <1>1, <2>2, <3>1
    <3>3. call.newFirst \in M \cup {0}
      BY <3>2, DirectoryFacts, Zenon
    <3>4. QED
      BY <3>2, <3>3, ByteSets
  <2>4. ByteBlock(disk[SUPER_BLOCK])
    BY BlockSets DEF ByteCells
  <2>5. ByteBlock([disk[SUPER_BLOCK] EXCEPT ![1] = call.newFirst])
    BY <2>3, <2>4, ByteFile
  <2>6. ByteBlock(block_set_next([disk[SUPER_BLOCK] EXCEPT ![1] = call.newFirst], call.newFree))
    BY <2>2, <2>5, ByteNext
  <2>7. disk' = [disk EXCEPT ![SUPER_BLOCK] =
                   block_set_next([disk[SUPER_BLOCK] EXCEPT ![1] = call.newFirst], call.newFree)]
    BY <1>4 DEF CreatePublish, WriteBlock
  <2>8. QED
    BY <1>1, <2>6, <2>7, ByteWrite
<1>5. QED
  BY <1>2, <1>3, <1>4

LEMMA WriteBytes ==
  ASSUME NEW L, NEW own, BlockInvariantOf(L, own), ByteCells(disk), WriteStep,
         call.bytes \in Seq(Bytes)
  PROVE  ByteCells(disk')
<1>0. PICK w : w = writer[call.file]
  OBVIOUS
<1>1. /\ disk \in [Blocks -> [Offsets -> Nat]] /\ pc = "write"
  BY ByteDisk DEF WriteStep
<1>2. /\ w \in Blocks /\ call.newFree \in Blocks /\ buffer = disk[w]
      /\ call.used \in 1 .. BlockSize
  BY <1>0, <1>1, WriteFacts
<1>3. call.used \in Nat /\ call.newFree \in Nat /\ BlockSize \in Nat /\ ByteBlock(buffer)
  BY <1>2, BlockSets DEF ByteCells
<1>4. CASE Len(call.bytes) <= BlockSize - call.used
  <2>1. ByteBlock(CopyTo(buffer, call.used, call.bytes))
    BY <1>3, ByteCopy
  <2>2. call.used + Len(call.bytes) \in Nat
    BY <1>3
  <2>3. ByteBlock([CopyTo(buffer, call.used, call.bytes) EXCEPT ![0] = call.used + Len(call.bytes)])
    BY <2>1, <2>2, ByteSize
  <2>4. disk' = [disk EXCEPT ![w] =
            [CopyTo(buffer, call.used, call.bytes) EXCEPT ![0] = call.used + Len(call.bytes)]]
    BY <1>0, <1>3, <1>4 DEF WriteStep, WriteBlock
  <2>5. QED
    BY <1>1, <2>3, <2>4, ByteWrite
<1>5. CASE ~ (Len(call.bytes) <= BlockSize - call.used)
  <2>1. SubSeq(call.bytes, 1, BlockSize - call.used) \in Seq(Bytes)
    <3>1. BlockSize - call.used \in Nat /\ Len(call.bytes) \in Nat
          /\ BlockSize - call.used <= Len(call.bytes)
      BY <1>2, <1>3, <1>5
    <3>2. PICK k : k = BlockSize - call.used
      OBVIOUS
    <3>3. k \in Nat /\ k <= Len(call.bytes)
      BY <3>1, <3>2
    <3>4. SubSeq(call.bytes, 1, k) \in Seq(Bytes)
      BY <3>3
    <3>5. QED
      BY <3>2, <3>4
  <2>2. ByteBlock(CopyTo(buffer, call.used, SubSeq(call.bytes, 1, BlockSize - call.used)))
    BY <1>3, <2>1, ByteCopy
  <2>3. call.newFree + BlockSize \in Nat
    BY <1>3
  <2>4. ByteBlock(FillBlock(call.newFree))
    BY <2>2, <2>3, ByteSize DEF FillBlock
  <2>5. disk' = disk \/ disk' = [disk EXCEPT ![w] = FillBlock(call.newFree)]
    BY <1>0, <1>5 DEF WriteStep
  <2>6. QED
    BY <1>1, <2>4, <2>5, ByteWrite
<1>6. QED
  BY <1>4, <1>5

LEMMA NextBytes ==
  ASSUME NEW L, NEW own, BlockInvariantOf(L, own), ByteCells(disk),
         WriteCommit \/ FreeStep \/ ClearFreed \/ ClearSize
  PROVE  ByteCells(disk')
<1>1. /\ disk \in [Blocks -> [Offsets -> Nat]] /\ L \in SUBSET FileIds
      /\ \A b \in Blocks : block_get_next(disk[b]) \in Nat
  BY ByteDisk
<1>2. CASE WriteCommit
  <2>1. call.newFree \in Nat
    <3>1. AtCommit(L, own)
      BY <1>2 DEF WriteCommit, BlockInvariantOf
    <3>2. QED
      BY <3>1, BlockSets DEF AtCommit
  <2>2. ByteBlock(block_set_next(disk[SUPER_BLOCK], call.newFree))
    BY <2>1, ByteNext, BlockSets DEF ByteCells
  <2>3. disk' = disk \/ disk' = [disk EXCEPT ![SUPER_BLOCK] = block_set_next(disk[SUPER_BLOCK], call.newFree)]
    BY <1>2 DEF WriteCommit, WriteBlock
  <2>4. QED
    BY <1>1, <2>2, <2>3, ByteWrite
<1>3. CASE FreeStep
  <2>1. call.block \in Blocks /\ call.oldFree \in Nat /\ buffer = disk[call.block]
    BY <1>3, FreeFacts, BlockSets DEF FreeStep
  <2>2. ByteBlock(block_set_next(buffer, call.oldFree))
    BY <2>1, ByteNext DEF ByteCells
  <2>3. disk' = disk \/ disk' = [disk EXCEPT ![call.block] = block_set_next(buffer, call.oldFree)]
    BY <1>3 DEF FreeStep, WriteBlock, ReadBlock
  <2>4. QED
    BY <1>1, <2>2, <2>3, ByteWrite
<1>4. CASE ClearFreed
  <2>1. call.newFree \in Nat
    <3>1. AtFreed(L, own)
      BY <1>4 DEF ClearFreed, BlockInvariantOf
    <3>2. QED
      BY <3>1, BlockSets DEF AtFreed
  <2>2. ByteBlock(block_set_next(disk[SUPER_BLOCK], call.newFree))
    BY <2>1, ByteNext, BlockSets DEF ByteCells
  <2>3. disk' = [disk EXCEPT ![SUPER_BLOCK] = block_set_next(disk[SUPER_BLOCK], call.newFree)]
    BY <1>4 DEF ClearFreed, WriteBlock
  <2>4. QED
    BY <1>1, <2>2, <2>3, ByteWrite
<1>5. CASE ClearSize
  <2>1. AtClear(L, own)
    BY <1>5 DEF ClearSize, BlockInvariantOf
  <2>2. call.file \in L /\ call.file \in Blocks /\ Name(disk[call.file]) \in Names
    <3>1. Listing(disk, L) /\ call.file \in L
      BY <2>1 DEF AtClear, Closed
    <3>2. QED
      BY <1>1, <3>1, ListingFacts, BlockSets
  <2>3. ByteBlock([disk[call.file] EXCEPT ![0] = HeaderSize(Name(disk[call.file]))])
    BY <2>2, HeaderSizes, ByteSize DEF ByteCells
  <2>4. disk' = [disk EXCEPT ![call.file] =
                   [disk[call.file] EXCEPT ![0] = HeaderSize(Name(disk[call.file]))]]
    BY <1>5 DEF ClearSize, WriteBlock
  <2>5. QED
    BY <1>1, <2>3, <2>4, ByteWrite
<1>6. QED
  BY <1>2, <1>3, <1>4, <1>5

LEMMA DeleteBytes ==
  ASSUME NEW L, NEW own, BlockInvariantOf(L, own), ByteCells(disk),
         DeleteUnlink \/ DeletePublish
  PROVE  ByteCells(disk')
<1>1. /\ disk \in [Blocks -> [Offsets -> Nat]] /\ L \in SUBSET FileIds
      /\ L \cup {0} \subseteq Bytes /\ L \cup {0} \subseteq Blocks
  BY ByteDisk
<1>2. CASE DeleteUnlink
  <2>1. AtUnlink(L, own)
    BY <1>2 DEF DeleteUnlink, BlockInvariantOf
  <2>2. call.previous \in L \cup {0} /\ call.file \in L /\ call.next = NextFile(disk[call.file])
        /\ Listing(disk, L)
    BY <2>1 DEF AtUnlink, Follows, Closed
  <2>3. call.next \in Bytes
    BY <1>1, <2>2, ListingFacts
  <2>4. ByteBlock([disk[call.previous] EXCEPT ![1] = call.next])
    BY <1>1, <2>2, <2>3, ByteFile DEF ByteCells
  <2>5. \/ disk' = [disk EXCEPT ![call.previous] = [disk[call.previous] EXCEPT ![1] = call.next]]
        \/ disk' = disk
    BY <1>2 DEF DeleteUnlink, WriteBlock
  <2>6. QED
    BY <1>1, <2>4, <2>5, ByteWrite
<1>3. CASE DeletePublish
  <2>1. AtDeleted(L, own)
    BY <1>3 DEF DeletePublish, BlockInvariantOf
  <2>2. call.file \in L
        /\ Directory(disk, L \ {call.file}, call.newFirst, NextOf(disk, L \ {call.file}))
    BY <2>1 DEF AtDeleted, Closed
  <2>3. call.newFirst \in Bytes
    <3>1. L \ {call.file} \in SUBSET FileIds
      BY <1>1
    <3>2. call.newFirst \in (L \ {call.file}) \cup {0}
      BY <2>2, <3>1, DirectoryFacts
    <3>3. QED
      BY <1>1, <3>2
  <2>4. ByteBlock(block_set_next(disk[SUPER_BLOCK], call.file))
    BY <1>1, <2>2, ByteNext, BlockSets DEF ByteCells
  <2>5. ByteBlock([block_set_next(disk[SUPER_BLOCK], call.file) EXCEPT ![1] = call.newFirst])
    BY <2>3, <2>4, ByteFile
  <2>6. disk' = [disk EXCEPT ![SUPER_BLOCK] =
                   [block_set_next(disk[SUPER_BLOCK], call.file) EXCEPT ![1] = call.newFirst]]
    BY <1>3 DEF DeletePublish, WriteBlock
  <2>7. QED
    BY <1>1, <2>5, <2>6, ByteWrite
<1>4. QED
  BY <1>2, <1>3

\* The other steps do not write.
LEMMA StepBytes ==
  ASSUME NEW L, NEW own, BlockInvariantOf(L, own), ByteCells(disk),
         pc = "write" => call.bytes \in Seq(Bytes), [AnyNext]_vars
  PROVE  ByteCells(disk')
<1>1. CASE Step
  <2>1. CASE CreateLink \/ CreateFill \/ CreatePublish
    BY <2>1, CreateBytes
  <2>2. CASE WriteStep
    <3>1. pc = "write"
      BY <2>2 DEF WriteStep
    <3>2. QED
      BY <2>2, <3>1, WriteBytes
  <2>3. CASE WriteCommit \/ FreeStep \/ ClearFreed \/ ClearSize
    BY <2>3, NextBytes
  <2>4. CASE DeleteUnlink \/ DeletePublish
    BY <2>4, DeleteBytes
  <2>5. CASE \/ FindStep \/ FindFails \/ SizeStart \/ SizeStep \/ OpenRead \/ ReadStep
             \/ CreateStart \/ CreateScan \/ ClearStart \/ DeleteStart \/ Return
    <3>1. disk' = disk
      BY <2>5 DEF FindStep, FindFails, SizeStart, SizeStep, OpenRead, ReadStep, CreateStart,
                  CreateScan, ClearStart, DeleteStart, Return, ReadBlock, FreeStart
    <3>2. QED
      BY <3>1
  <2>6. QED
    BY <1>1, <2>1, <2>2, <2>3, <2>4, <2>5 DEF Step
<1>2. CASE AnyClient
  <2>1. disk' = disk
    BY <1>2 DEF AnyClient, Find, Create, Read, Write, CloseWriter, CloseReader, ReadBlock
  <2>2. QED
    BY <2>1
<1>3. CASE UNCHANGED vars
  <2>1. disk' = disk
    BY <1>3 DEF vars
  <2>2. QED
    BY <2>1
<1>4. QED
  BY <1>1, <1>2, <1>3 DEF AnyNext

-----------------------------------------------------------------------------
(***************************************************************************)
(* What the refinement needs of a call: what it read is what the files     *)
(* were when it began, as long as it did not write; and the bytes of a     *)
(* write that are in the file.                                             *)
(***************************************************************************)
Looks == {"find", "found", "size", "read", "scan", "link"}

\* The steps where the name of the file of the call is the one it had.
Named == {"free", "freed", "clear", "write", "commit"}

WriteGoesOn ==
  /\ call.written \in Seq(Bytes) /\ call.bytes \in Seq(Bytes) /\ call.status = OK
  /\ IsWriting(disk, call, writer[call.file])

WriteEnds ==
  /\ call.written \in Seq(Bytes)
  /\ \/ call.status = OK /\ HasAll(disk, call)
     \/ /\ call.status = OUT_OF_MEMORY /\ call.newFree = 0
        /\ Len(call.written) > 0 /\ HasSome(disk, call)

StoreFacts ==
  /\ ByteCells(disk)
  /\ ~ Resting => IsFiles(call.before)
  /\ pc \in Looks => Files(disk) = call.before
  /\ pc \in Named => Name(disk[call.file]) = call.before[call.file].name
  /\ pc = "write" => WriteGoesOn
  /\ pc = "commit" => WriteEnds

\* A step begins a call, ends it, or is one of its steps.
LEMMA NextIs ==
  ASSUME NEW L, NEW own, BlockInvariantOf(L, own), [AnyNext]_vars, ~ Resting'
  PROVE  \/ Resting /\ AnyNext /\ AnyClient /\ disk' = disk /\ call'.before = Files(disk)
         \/ ~ Resting /\ Step /\ CallGoesOn
         \/ ~ Resting /\ UNCHANGED vars
<1>1. CASE UNCHANGED vars
  BY <1>1 DEF vars, Resting
<1>2. CASE AnyNext /\ Resting
  <2>1. disk' = disk /\ call'.before = Files(disk)
    BY <1>2, BeginIs
  <2>2. ~ Step
    BY <1>2 DEF Resting, Step, FindStep, FindFails, SizeStart, SizeStep, OpenRead, ReadStep,
       CreateStart, CreateScan, CreateLink, CreateFill, CreatePublish, WriteStep, WriteCommit,
       FreeStep, ClearStart, ClearFreed, ClearSize, DeleteStart, DeleteUnlink, DeletePublish, Return
  <2>3. QED
    BY <1>2, <2>1, <2>2 DEF AnyNext
<1>3. CASE AnyNext /\ ~ Resting
  <2>1. ~ AnyClient
    BY <1>3 DEF Resting, AnyClient, Find, Create, Read, Write, CloseWriter, CloseReader, Begin
  <2>2. Step
    BY <1>3, <2>1 DEF AnyNext
  <2>3. CallGoesOn
    BY <1>3, <2>2, StepFrame
  <2>4. QED
    BY <1>3, <2>2, <2>3
<1>4. QED
  BY <1>1, <1>2, <1>3

\* Which step leads to which.
LEMMA StepOrder ==
  ASSUME ~ Resting, Step, ~ Resting'
  PROVE  /\ pc' \in Looks => pc \in Looks /\ disk' = disk
         /\ pc' = "free" => \/ pc = "found" /\ (ClearStart \/ DeleteStart)
                            \/ pc = "free" /\ FreeStep /\ disk' = disk
         /\ pc' = "freed" => pc = "free" /\ FreeStep
         /\ pc' = "clear" => \/ pc = "found" /\ ClearStart
                             \/ pc = "freed" /\ ClearFreed
         /\ pc' \in {"write", "commit"} => pc = "write" /\ WriteStep
<1>1. CASE \/ FindStep \/ FindFails \/ SizeStart \/ SizeStep \/ OpenRead \/ ReadStep
           \/ CreateStart \/ CreateScan \/ CreateLink \/ CreateFill \/ CreatePublish
  BY <1>1 DEF Looks, Resting, FindStep, FindFails, SizeStart, SizeStep, OpenRead, ReadStep,
     CreateStart, CreateScan, CreateLink, CreateFill, CreatePublish, Goto, Done, ReadBlock
<1>2. CASE \/ WriteCommit \/ ClearFreed \/ ClearSize \/ DeleteUnlink \/ DeletePublish \/ Return
  BY <1>2 DEF Looks, Resting, WriteCommit, ClearFreed, ClearSize, DeleteUnlink, DeletePublish,
     Return, Goto, Done
<1>3. CASE WriteStep
  BY <1>3 DEF Looks, Resting, WriteStep, Goto
<1>4. CASE FreeStep
  <2>1. pc = "free" /\ ((disk' = disk /\ pc' = "free") \/ pc' \in {"unlink", "freed"})
    BY <1>4 DEF FreeStep, Goto, ReadBlock
  <2>2. QED
    BY <1>4, <2>1 DEF Looks
<1>5. CASE ClearStart \/ DeleteStart
  <2>1. pc = "found" /\ pc' \in {"free", "clear"} /\ (DeleteStart => pc' = "free")
    BY <1>5 DEF ClearStart, DeleteStart, FreeStart, Goto
  <2>2. QED
    BY <1>5, <2>1 DEF Looks
<1>6. QED
  BY <1>1, <1>2, <1>3, <1>4, <1>5 DEF Step

\* What holds when the files are those of the disk.
LEMMA WholeFiles ==
  ASSUME NEW L, NEW own, L \in SUBSET FileIds, Whole(disk, L, own), DiskOK(disk, L)
  PROVE  IsFiles(Files(disk))
<1>1. Listing(disk, L) /\ Layout(own, Link(disk), L, FreeHead(disk))
  BY DEF Whole
<1>2. QED
  BY <1>1, FilesIs

LEMMA RestingFiles ==
  ASSUME NEW L, NEW own, BlockInvariantOf(L, own), Resting
  PROVE  IsFiles(Files(disk))
<1>1. L \in SUBSET FileIds /\ DiskOK(disk, L) /\ Whole(disk, L, own)
  BY DEF BlockInvariantOf, Resting
<1>2. QED
  BY <1>1, WholeFiles

LEMMA KeepsBefore ==
  ASSUME NEW L, NEW own, BlockInvariantOf(L, own), StoreFacts, [AnyNext]_vars, ~ Resting'
  PROVE  IsFiles(call'.before)
<1>1. CASE Resting /\ call'.before = Files(disk)
  BY <1>1, RestingFiles
<1>2. CASE ~ Resting /\ call'.before = call.before
  BY <1>2 DEF StoreFacts
<1>3. QED
  BY <1>1, <1>2, NextIs DEF CallGoesOn, vars

LEMMA KeepsLooks ==
  ASSUME NEW L, NEW own, BlockInvariantOf(L, own), StoreFacts, [AnyNext]_vars, ~ Resting',
         pc' \in Looks
  PROVE  Files(disk') = call'.before
<1>1. CASE Resting /\ disk' = disk /\ call'.before = Files(disk)
  BY <1>1
<1>2. CASE ~ Resting /\ Step /\ CallGoesOn
  <2>1. pc \in Looks /\ disk' = disk /\ call'.before = call.before
    BY <1>2, StepOrder DEF CallGoesOn
  <2>2. QED
    BY <2>1 DEF StoreFacts
<1>3. CASE ~ Resting /\ UNCHANGED vars
  <2>1. pc' = pc /\ disk' = disk /\ call' = call
    BY <1>3 DEF vars
  <2>2. QED
    BY <2>1 DEF StoreFacts
<1>4. QED
  BY <1>1, <1>2, <1>3, NextIs

\* The name of the file when the disk has been read only.
LEMMA LookName ==
  ASSUME NEW L, NEW own, BlockInvariantOf(L, own), StoreFacts, pc = "found", call.file # 0
  PROVE  Name(disk[call.file]) = call.before[call.file].name
<1>1. L \in SUBSET FileIds /\ Listing(disk, L) /\ call.file \in L
  BY FoundFacts
<1>2. Files(disk)[call.file].name = Name(disk[call.file])
  BY <1>1, FilesAre
<1>3. Files(disk) = call.before
  BY DEF StoreFacts, Looks
<1>4. QED
  BY <1>2, <1>3

LEMMA FreeKeepsName ==
  ASSUME NEW L, NEW own, BlockInvariantOf(L, own), FreeStep
  PROVE  Name(disk'[call.file]) = Name(disk[call.file])
<1>0. pc = "free"
  BY DEF FreeStep
<1>1. /\ DiskOK(disk, L) /\ call.block \in Blocks /\ call.oldFree \in Blocks
      /\ buffer = disk[call.block] /\ call.file \in Blocks
  BY <1>0, FreeFacts, BlockSets
<1>2. GoodBlock(buffer)
  BY <1>1, GoodBlocks
<1>3. \A i \in Offsets \ {0} : block_set_next(buffer, call.oldFree)[i] = buffer[i]
  BY <1>1, <1>2, SetNext
<1>4. 2 \in Offsets \ {0} /\ disk \in [Blocks -> [Offsets -> Nat]]
  BY <1>1, BlockSets DEF DiskOK
<1>5. PICK v : v = block_set_next(buffer, call.oldFree)
  OBVIOUS
<1>6. disk' = disk \/ disk' = [disk EXCEPT ![call.block] = v]
  BY <1>5 DEF FreeStep, WriteBlock, ReadBlock
<1>7. v[2] = disk[call.block][2]
  BY <1>1, <1>3, <1>4, <1>5
<1>8. disk'[call.file][2] = disk[call.file][2]
  BY <1>1, <1>4, <1>6, <1>7
<1>9. QED
  BY <1>8 DEF Name

LEMMA FreedKeepsName ==
  ASSUME NEW L, NEW own, BlockInvariantOf(L, own), ClearFreed
  PROVE  Name(disk'[call.file]) = Name(disk[call.file])
<1>1. AtFreed(L, own) /\ L \in SUBSET FileIds
  BY DEF ClearFreed, BlockInvariantOf
<1>2. call.file \in FileIds /\ call.file # SUPER_BLOCK
  BY <1>1, BlockSets DEF AtFreed, Closed
<1>3. disk' = [disk EXCEPT ![SUPER_BLOCK] = block_set_next(disk[SUPER_BLOCK], call.newFree)]
  BY DEF ClearFreed, WriteBlock
<1>4. disk'[call.file] = disk[call.file]
  <2>1. disk \in [Blocks -> [Offsets -> Nat]]
    BY ByteDisk
  <2>2. QED
    BY <1>2, <1>3, <2>1, BlockSets
<1>5. QED
  BY <1>4

LEMMA WriteKeepsName ==
  ASSUME NEW L, NEW own, BlockInvariantOf(L, own), WriteStep
  PROVE  Name(disk'[call.file]) = Name(disk[call.file])
<1>0. PICK w, h, f, u : w = writer[call.file] /\ h = call.newFree /\ f = call.file /\ u = call.used
  OBVIOUS
<1>1. pc = "write"
  BY DEF WriteStep
<1>2. /\ DiskOK(disk, L) /\ f \in L /\ f \in Blocks /\ w \in Blocks
      /\ h \in Blocks /\ buffer = disk[w] /\ GoodBlock(buffer)
      /\ u \in 1 .. BlockSize /\ call.bytes \in Seq(Nat)
      /\ w \in L => (w = f /\ u >= 3)
  BY <1>0, <1>1, WriteFacts, BlockSets
<1>3. disk \in [Blocks -> [Offsets -> Nat]]
  BY ByteDisk
<1>4. ASSUME NEW src \in Seq(Nat), NEW n \in Nat, n >= 1, n < BlockSize + NumBlocks,
             NEW v, Fills(buffer, u, src, n, v), disk' = [disk EXCEPT ![w] = v]
      PROVE  Name(disk'[f]) = Name(disk[f])
  <2>1. IsFilled(buffer, u, n, v)
    BY <1>2, <1>4, FilledBlock
  <2>2. w = f => Name(v) = Name(disk[f])
    BY <1>2, <2>1 DEF IsFilled
  <2>3. QED
    BY <1>2, <1>3, <1>4, <2>2
<1>5. CASE Len(call.bytes) <= BlockSize - call.used
  <2>1. PICK n, v : n = u + Len(call.bytes) /\ v = [CopyTo(buffer, u, call.bytes) EXCEPT ![0] = n]
    OBVIOUS
  <2>2. n \in Nat /\ n >= 1 /\ n < BlockSize + NumBlocks
    BY <1>0, <1>2, <1>5, <2>1, BlockSets
  <2>3. Fills(buffer, u, call.bytes, n, v)
    BY <2>1 DEF Fills
  <2>4. disk' = [disk EXCEPT ![w] = v]
    <3>1. ~ (Len(call.bytes) > BlockSize - call.used)
      BY <1>0, <1>2, <1>5, BlockSets
    <3>2. QED
      BY <1>0, <1>5, <2>1, <3>1 DEF WriteStep, WriteBlock
  <2>5. QED
    BY <1>0, <1>2, <1>4, <2>2, <2>3, <2>4
<1>6. CASE ~ (Len(call.bytes) <= BlockSize - call.used)
  <2>1. PICK n, src, v : /\ n = h + BlockSize /\ src = SubSeq(call.bytes, 1, BlockSize - call.used)
                         /\ v = [CopyTo(buffer, u, src) EXCEPT ![0] = n]
    OBVIOUS
  <2>2. n \in Nat /\ n >= 1 /\ n < BlockSize + NumBlocks
    BY <1>2, <2>1, BlockSets
  <2>3. Fills(buffer, u, src, n, v)
    BY <2>1 DEF Fills
  <2>4. src \in Seq(Nat)
    <3>1. BlockSize - call.used \in Int /\ BlockSize - call.used <= Len(call.bytes)
      BY <1>0, <1>2, <1>6, BlockSets
    <3>2. QED
      BY <1>2, <2>1, <3>1, PartOfBytes
  <2>5. v = FillBlock(h)
    BY <1>0, <2>1 DEF FillBlock
  <2>6. disk' = disk \/ disk' = [disk EXCEPT ![w] = v]
    BY <1>0, <1>6, <2>5 DEF WriteStep
  <2>7. CASE disk' = disk
    BY <1>0, <2>7
  <2>8. CASE disk' = [disk EXCEPT ![w] = v]
    BY <1>0, <1>4, <2>2, <2>3, <2>4, <2>8
  <2>9. QED
    BY <2>6, <2>7, <2>8
<1>7. QED
  BY <1>5, <1>6

\* The client writes to a file.
IsWrite(f, src) == Write(f, src) /\ f \in FileIds /\ src \in Seq(Bytes)

LEMMA BeginName ==
  ASSUME AnyClient, pc' \in Named
  PROVE  pc' = "write" /\ \E f, src : IsWrite(f, src)
  BY DEF AnyClient, Named, Find, Create, Read, CloseWriter, CloseReader, IsWrite, Write

LEMMA WriteCall ==
  ASSUME NEW L, NEW own, BlockInvariantOf(L, own), NEW f, NEW src, IsWrite(f, src)
  PROVE  /\ pc = "idle" /\ disk' = disk /\ writer' = writer /\ call'.before = Files(disk)
         /\ call'.file = f /\ call'.bytes = src /\ call'.written = src /\ call'.status = OK
         /\ call'.used = disk[writer[f]][0]
         /\ f \in L /\ f \in FileIds /\ writer[f] \in FileIds /\ own[writer[f]] = f
         /\ Link(disk)[writer[f]] = 0 /\ DOMAIN call' = Fields
         /\ L \in SUBSET FileIds /\ Whole(disk, L, own) /\ DiskOK(disk, L)
<1>1. PICK free : free = block_get_next(disk[SUPER_BLOCK])
  OBVIOUS
<1>2. PICK c : c = [NoCall EXCEPT !.op = "write", !.file = f, !.bytes = src, !.written = src,
                      !.oldFree = free, !.newFree = free, !.used = block_size(disk[writer[f]])]
  OBVIOUS
<1>3. Begin(c) /\ writer[f] # 0 /\ disk' = disk /\ writer' = writer
  BY <1>1, <1>2 DEF IsWrite, Write, ReadBlock, Streams
<1>4. DOMAIN c = Fields /\ c.file = f /\ c.bytes = src /\ c.written = src /\ c.status = OK
      /\ c.used = disk[writer[f]][0]
  BY <1>2, CallFields DEF NoCall, block_size, Fields
<1>5. /\ pc = "idle" /\ Whole(disk, L, own) /\ DOMAIN call' = Fields
      /\ \A x \in Fields \ {"before", "from"} : call'[x] = c[x]
  BY <1>3, <1>4, BeginCall
<1>6. call'.file = f /\ call'.bytes = src /\ call'.written = src /\ call'.status = OK
      /\ call'.used = disk[writer[f]][0]
  BY <1>4, <1>5 DEF Fields
<1>7. call'.before = Files(disk)
  <2>1. call' = [c EXCEPT !.before = Files(disk), !.from = reader]
    BY <1>3 DEF Begin
  <2>2. "before" \in DOMAIN c
    BY <1>4 DEF Fields
  <2>3. QED
    BY <2>1, <2>2
<1>8. L \in SUBSET FileIds /\ DiskOK(disk, L) /\ WritersRest(disk, writer, L, own) /\ f \in FileIds
  BY <1>5, RestingWriters DEF BlockInvariantOf, IsWrite
<1>9. QED
  BY <1>3, <1>5, <1>6, <1>7, <1>8 DEF WritersRest

LEMMA WriteBegins ==
  ASSUME NEW L, NEW own, BlockInvariantOf(L, own), NEW f, NEW src, IsWrite(f, src)
  PROVE  /\ IsWriting(disk', call', writer'[call'.file])
         /\ Name(disk'[call'.file]) = call'.before[call'.file].name
<1>1. PICK w, n : w = writer[f] /\ n = Name(disk[f])
  OBVIOUS
<1>2. /\ disk' = disk /\ writer' = writer /\ call'.before = Files(disk)
      /\ call'.file = f /\ call'.bytes = src /\ call'.written = src /\ call'.used = disk[w][0]
      /\ f \in L /\ f \in FileIds /\ w \in FileIds /\ own[w] = f /\ Link(disk)[w] = 0
      /\ L \in SUBSET FileIds /\ Whole(disk, L, own) /\ DiskOK(disk, L)
  BY <1>1, WriteCall
<1>3. Listing(disk, L) /\ Layout(own, Link(disk), L, FreeHead(disk))
  BY <1>2 DEF Whole
<1>4. n \in Names /\ Files(disk)[f].name = n /\ Files(disk)[f].data = Data(disk, f)
  BY <1>1, <1>2, <1>3, ListingFacts, FilesAre
<1>5. PICK g, m : IsPath(disk, f, g, m)
  BY <1>2, <1>3, FileHasPath, Zenon
<1>6. /\ Data(disk, f) = DataOf(disk, n, g, m) /\ HasData(disk, n, g, m)
  <2>1. /\ L \in SUBSET FileIds /\ DiskOK(disk, L) /\ f \in L /\ Name(disk[f]) \in Names
        /\ IsPath(disk, f, g, m)
    BY <1>1, <1>2, <1>4, <1>5
  <2>2. /\ Data(disk, f) = DataOf(disk, Name(disk[f]), g, m)
        /\ HasData(disk, Name(disk[f]), g, m)
    BY <2>1, PathIsData, Zenon
  <2>3. QED
    BY <1>1, <2>2
<1>7. g[m] = w
  <2>1. m \in Nat /\ g[m] \in FileIds /\ Link(disk)[g[m]] = 0 /\ m \in 0 .. m
    BY <1>5 DEF IsPath
  <2>2. \A k \in 0 .. m : own[g[k]] = f
    <3>1. PICK s, h : s = Link(disk) /\ h = FreeHead(disk)
      OBVIOUS
    <3>2. /\ s = Link(disk) /\ Layout(own, s, L, h) /\ L \in SUBSET FileIds /\ f \in L
          /\ IsPath(disk, f, g, m)
      BY <1>2, <1>3, <1>5, <3>1
    <3>3. QED
      BY <3>2, PathOwn
  <2>3. PICK S : S = Own(own, f)
    OBVIOUS
  <2>4. g[m] \in S /\ w \in S /\ 0 \notin S /\ Links(Link(disk), f, S)
    BY <1>2, <1>3, <2>1, <2>2, <2>3, BlockSets DEF Own, Layout
  <2>5. QED
    BY <1>2, <2>1, <2>4, LastIsOne
<1>8. EndsAt(disk, f, g, m, w, n)
  BY <1>5, <1>6, <1>7 DEF EndsAt
<1>9. src \in Seq(Nat)
  BY WrittenBytes DEF IsWrite
<1>10. DataOf(disk, n, g, m) \in Seq(Nat)
  <2>1. m \in Nat
    BY <1>5 DEF IsPath
  <2>2. QED
    BY <1>4, <1>6, <2>1, DataIsSeq
<1>11. PICK x : x = DataOf(disk, n, g, m)
  OBVIOUS
<1>12. x = x \o SubSeq(src, 1, 0)
  BY <1>9, <1>10, <1>11, NoneOf
<1>13. PICK c, e : c = call' /\ e = disk'
  OBVIOUS
<1>14. WrittenTo(e, c, w, g, m, 0)
  <2>1. c.before[c.file].name = n /\ c.before[c.file].data = x /\ c.written = src /\ c.file = f
        /\ e = disk
    BY <1>2, <1>4, <1>6, <1>11, <1>13
  <2>2. QED
    BY <1>8, <1>11, <1>12, <2>1 DEF WrittenTo
<1>15. Remains(c.written, 0, c.bytes)
  <2>1. c.written = src /\ c.bytes = src
    BY <1>2, <1>13
  <2>2. 0 \in 0 .. Len(src) /\ SubSeq(src, 0 + 1, Len(src)) = src
    BY <1>9, AllOf
  <2>3. QED
    BY <2>1, <2>2 DEF Remains
<1>16. SizedCells(e, e, w, c.used)
  <2>1. e = disk /\ c.used = disk[w][0] /\ disk \in [Blocks -> [Offsets -> Nat]]
    BY <1>2, <1>13 DEF DiskOK
  <2>2. QED
    BY <2>1 DEF SizedCells
<1>17. WritesAt(e, c, w, e, g, m, 0)
  <2>1. c.used = e[w][0]
    BY <1>2, <1>13
  <2>2. QED
    BY <1>14, <1>15, <1>16, <2>1 DEF WritesAt
<1>18. IsWriting(e, c, w)
  BY <1>17 DEF IsWriting
<1>19. QED
  BY <1>1, <1>2, <1>4, <1>13, <1>18

LEMMA KeepsName ==
  ASSUME NEW L, NEW own, BlockInvariantOf(L, own), StoreFacts, [AnyNext]_vars, ~ Resting',
         pc' \in Named
  PROVE  Name(disk'[call'.file]) = call'.before[call'.file].name
<1>1. CASE Resting /\ AnyClient
  BY <1>1, BeginName, WriteBegins
<1>2. CASE ~ Resting /\ UNCHANGED vars
  <2>1. pc' = pc /\ disk' = disk /\ call' = call
    BY <1>2 DEF vars
  <2>2. QED
    BY <2>1 DEF StoreFacts
<1>3. CASE ~ Resting /\ Step /\ CallGoesOn
  <2>1. call'.before = call.before
    BY <1>3 DEF CallGoesOn
  <2>2. \/ pc = "found" /\ (ClearStart \/ DeleteStart)
        \/ pc = "free" /\ FreeStep
        \/ pc = "freed" /\ ClearFreed
        \/ pc = "write" /\ WriteStep
    <3>1. pc' \in {"write", "commit"} \/ pc' = "free" \/ pc' = "freed" \/ pc' = "clear"
      BY DEF Named
    <3>2. QED
      BY <1>3, <3>1, StepOrder
  <2>3. call'.file = call.file
    <3>1. call.file # 0
      <4>1. CASE pc = "found"
        BY <2>2, <4>1 DEF ClearStart, DeleteStart
      <4>2. CASE pc = "free"
        BY <4>2, FreeFacts
      <4>3. CASE pc = "freed"
        BY <4>3, BlockSets DEF BlockInvariantOf, AtFreed, Closed
      <4>4. CASE pc = "write"
        BY <4>4, WriteFacts, BlockSets
      <4>5. QED
        BY <2>2, <4>1, <4>2, <4>3, <4>4
    <3>2. QED
      BY <1>3, <3>1 DEF CallGoesOn
  <2>4. CASE pc = "found" /\ (ClearStart \/ DeleteStart)
    <3>1. call.file # 0 /\ disk' = disk
      BY <2>4 DEF ClearStart, DeleteStart, FreeStart, ReadBlock
    <3>2. Name(disk[call.file]) = call.before[call.file].name
      BY <2>4, <3>1, LookName
    <3>3. QED
      BY <2>1, <2>3, <3>1, <3>2
  <2>5. CASE \/ pc = "free" /\ FreeStep
             \/ pc = "freed" /\ ClearFreed
             \/ pc = "write" /\ WriteStep
    <3>1. Name(disk[call.file]) = call.before[call.file].name
      BY <2>5 DEF StoreFacts, Named
    <3>2. Name(disk'[call.file]) = Name(disk[call.file])
      BY <2>5, FreeKeepsName, FreedKeepsName, WriteKeepsName
    <3>3. QED
      BY <2>1, <2>3, <3>1, <3>2
  <2>6. QED
    BY <2>2, <2>4, <2>5
<1>4. QED
  BY <1>1, <1>2, <1>3, NextIs

LEMMA WritingTypes ==
  ASSUME NEW L, NEW own, BlockInvariantOf(L, own), StoreFacts, pc = "write"
  PROVE  /\ WriteTypes(disk, call, writer[call.file])
         /\ IsWriting(disk, call, writer[call.file])
         /\ call.written \in Seq(Bytes) /\ call.bytes \in Seq(Bytes) /\ call.status = OK
<1>1. /\ writer[call.file] \in FileIds /\ call.used \in 1 .. BlockSize
      /\ call.file \in L /\ L = DOMAIN call.before
  BY WriteFacts
<1>2. disk \in [Blocks -> [Offsets -> Nat]]
  BY ByteDisk
<1>3. WriteGoesOn /\ IsFiles(call.before)
  BY DEF StoreFacts, Resting
<1>4. call.written \in Seq(Nat)
  BY <1>3, WrittenBytes DEF WriteGoesOn
<1>5. call.before[call.file].name \in Names /\ call.before[call.file].data \in Seq(Nat)
  BY <1>1, <1>3 DEF IsFiles
<1>6. QED
  BY <1>1, <1>2, <1>3, <1>4, <1>5 DEF WriteTypes, WriteGoesOn

\* The next free block is not one of the file that is written.
LEMMA FreeOffPath ==
  ASSUME NEW L, NEW own, BlockInvariantOf(L, own), pc = "write", call.newFree # 0
  PROVE  /\ OffPath(disk, call, writer[call.file], call.newFree)
         /\ call.newFree \in FileIds
<1>0. PICK w, h, f, u, s : /\ w = writer[call.file] /\ h = call.newFree /\ f = call.file
                           /\ u = call.used /\ s = Cut(Link(disk), w)
  OBVIOUS
<1>1. /\ L \in SUBSET FileIds /\ DiskOK(disk, L) /\ f \in L /\ f \in FileIds
      /\ w \in FileIds /\ own[w] = f
      /\ Layout(own, s, L, h) /\ BlockSizes(disk, own)
      /\ u \in 1 .. BlockSize
  BY <1>0, WriteFacts
<1>2. h # 0 => h \in FileIds /\ own[h] = 0 /\ h \notin L
  <2>1. Layout(own, s, L, h) /\ L \in SUBSET FileIds
    BY <1>1
  <2>2. QED
    BY <2>1, LayoutFacts, Zenon
<1>3. h \in FileIds /\ own[h] = 0 /\ h \notin L
  BY <1>0, <1>2
<1>4. f # 0 /\ h # w /\ h # f
  BY <1>1, <1>3, BlockSets
<1>5. disk[h][0] >= BlockSize
  BY <1>1, <1>3 DEF BlockSizes
<1>6. ASSUME NEW e, NEW g, NEW m, SizedCells(disk, e, w, u), IsPath(e, f, g, m),
             NEW k \in 0 .. m
      PROVE  g[k] # h
  <2>1. s = Link(e)
    <3>1. Link(disk) \in [FileIds -> Blocks]
          /\ \A b \in FileIds : Link(disk)[b] = block_get_next(disk[b])
      BY <1>1, DiskLinks
    <3>2. \A b \in FileIds : Link(e)[b] = block_get_next(e[b])
      BY DEF Link
    <3>3. \A b \in FileIds \ {w} : e[b] = disk[b]
      BY <1>6, BlockSets DEF SizedCells
    <3>4. block_get_next(e[w]) = 0
      BY <1>1, <1>6, BlockSets DEF SizedCells, block_get_next
    <3>5. \A b \in FileIds : Link(e)[b] = IF b = w THEN 0 ELSE Link(disk)[b]
      BY <3>1, <3>2, <3>3, <3>4
    <3>6. s = [Link(disk) EXCEPT ![w] = 0]
      BY <1>0 DEF Cut
    <3>7. \A b \in FileIds : s[b] = Link(e)[b]
      BY <3>1, <3>5, <3>6
    <3>8. s = [b \in FileIds |-> s[b]]
      BY <3>1, <3>6
    <3>9. Link(e) = [b \in FileIds |-> Link(e)[b]]
      BY DEF Link
    <3>10. QED
      BY <3>7, <3>8, <3>9
  <2>2. /\ s = Link(e) /\ Layout(own, s, L, h) /\ L \in SUBSET FileIds /\ f \in L
        /\ IsPath(e, f, g, m)
    BY <1>1, <1>6, <2>1
  <2>3. \A j \in 0 .. m : own[g[j]] = f
    BY <2>2, PathOwn
  <2>4. QED
    BY <1>3, <1>4, <1>6, <2>3
<1>7. QED
  BY <1>0, <1>3, <1>4, <1>5, <1>6 DEF OffPath

\* The bytes that remain fit in the block.
LEMMA LastWriteEnds ==
  ASSUME NEW L, NEW own, BlockInvariantOf(L, own), StoreFacts, WriteStep,
         Len(call.bytes) <= BlockSize - call.used
  PROVE  pc' = "commit" /\ WriteEnds'
<1>0. PICK w : w = writer[call.file]
  OBVIOUS
<1>1. /\ WriteTypes(disk, call, w) /\ IsWriting(disk, call, w)
      /\ call.written \in Seq(Bytes) /\ call.status = OK /\ pc = "write"
      /\ call.bytes \in Seq(Bytes)
  BY <1>0, WritingTypes DEF WriteStep
<1>2. buffer = disk[w] /\ call.used \in 1 .. BlockSize
  BY <1>0, <1>1, WriteFacts
<1>3. ~ (Len(call.bytes) > BlockSize - call.used)
  BY <1>1, <1>2, BlockSets
<1>4. /\ disk' = [disk EXCEPT ![w] = [CopyTo(disk[w], call.used, call.bytes)
                                        EXCEPT ![0] = call.used + Len(call.bytes)]]
      /\ pc' = "commit" /\ call' = call
  BY <1>0, <1>2, <1>3 DEF WriteStep, WriteBlock, Goto
<1>5. PICK t : t = disk'
  OBVIOUS
<1>6. LastWrite(disk, t, call, w)
  BY <1>4, <1>5 DEF LastWrite
<1>7. HasAll(t, call)
  BY <1>1, <1>6, LastWriteData, Zenon
<1>8. HasAll(disk', call')
  BY <1>4, <1>5, <1>7
<1>9. QED
  BY <1>1, <1>4, <1>8 DEF WriteEnds

\* There is no free block for them.
LEMMA StopWriteEnds ==
  ASSUME NEW L, NEW own, BlockInvariantOf(L, own), StoreFacts, WriteStep,
         Len(call.bytes) > BlockSize - call.used, call.newFree = 0
  PROVE  pc' = "commit" /\ WriteEnds'
<1>0. PICK w : w = writer[call.file]
  OBVIOUS
<1>1. /\ WriteTypes(disk, call, w) /\ IsWriting(disk, call, w)
      /\ call.written \in Seq(Bytes) /\ call.status = OK /\ pc = "write"
      /\ call.bytes \in Seq(Bytes)
  BY <1>0, WritingTypes DEF WriteStep
<1>2. /\ DiskOK(disk, L) /\ w \in FileIds /\ Link(disk)[w] \in {0, call.newFree}
      /\ call.used \in 1 .. BlockSize /\ DOMAIN call = Fields
  BY <1>0, <1>1, WriteFacts
<1>3. disk[w][0] <= BlockSize
  <2>1. block_get_next(disk[w]) = 0
    BY <1>2, DiskLinks
  <2>2. GoodBlock(disk[w])
    BY <1>2, GoodBlocks, BlockSets
  <2>3. QED
    BY <2>1, <2>2, NextOfBlock
<1>4. \A i \in Offsets \ {0} : disk[w][i] \in Bytes
  BY <1>2, BlockSets DEF StoreFacts, ByteCells, ByteBlock
<1>5. HasSome(disk, call) /\ Len(call.written) > 0
  BY <1>1, <1>3, <1>4, StopWriteData
<1>6. ~ (Len(call.bytes) <= BlockSize - call.used)
  BY <1>1, <1>2, BlockSets
<1>7. disk' = disk /\ pc' = "commit" /\ call' = [call EXCEPT !.status = OUT_OF_MEMORY]
  BY <1>6 DEF WriteStep, Goto
<1>8. /\ call'.status = OUT_OF_MEMORY /\ call'.file = call.file /\ call'.before = call.before
      /\ call'.written = call.written /\ call'.newFree = 0
  BY <1>2, <1>7 DEF Fields
<1>9. PICK c, t : c = call' /\ t = disk'
  OBVIOUS
<1>10. t = disk /\ c.file = call.file /\ c.before = call.before /\ c.written = call.written
  BY <1>7, <1>8, <1>9
<1>11. HasSome(t, c)
  BY <1>5, <1>10 DEF HasSome
<1>12. HasSome(disk', call')
  BY <1>9, <1>11
<1>13. Len(call'.written) > 0 /\ call'.written \in Seq(Bytes)
  BY <1>1, <1>5, <1>8
<1>14. QED
  BY <1>7, <1>8, <1>12, <1>13 DEF WriteEnds

\* The block is full, and linked to the next free one.
LEMMA NextWriteGoesOn ==
  ASSUME NEW L, NEW own, BlockInvariantOf(L, own), StoreFacts, WriteStep,
         Len(call.bytes) > BlockSize - call.used, call.newFree # 0
  PROVE  pc' = "write" /\ WriteGoesOn'
<1>0. PICK w, h : w = writer[call.file] /\ h = call.newFree
  OBVIOUS
<1>1. /\ WriteTypes(disk, call, w) /\ IsWriting(disk, call, w)
      /\ call.written \in Seq(Bytes) /\ call.status = OK /\ pc = "write"
      /\ call.bytes \in Seq(Bytes)
  BY <1>0, WritingTypes DEF WriteStep
<1>2. /\ buffer = disk[w] /\ call.used \in 1 .. BlockSize /\ DOMAIN call = Fields
      /\ call.file \in FileIds /\ writer \in [FileIds -> Blocks]
  BY <1>0, <1>1, WriteFacts
<1>3. ~ (Len(call.bytes) <= BlockSize - call.used)
  BY <1>1, <1>2, BlockSets
<1>4. OffPath(disk, call, w, h) /\ h \in FileIds
  BY <1>0, <1>1, FreeOffPath
<1>5. /\ disk' = [disk EXCEPT ![w] = FillBlock(h)] /\ pc' = "write"
      /\ writer' = [writer EXCEPT ![call.file] = h]
      /\ call' = [call EXCEPT !.newFree = block_get_next(disk[h]),
                    !.bytes = SubSeq(@, BlockSize - call.used + 1, Len(call.bytes)), !.used = 1]
  BY <1>0, <1>3 DEF WriteStep, Goto
<1>6. disk' = [disk EXCEPT ![w] =
          [CopyTo(disk[w], call.used, SubSeq(call.bytes, 1, BlockSize - call.used))
             EXCEPT ![0] = h + BlockSize]]
  BY <1>2, <1>5 DEF FillBlock
<1>7. /\ call'.file = call.file /\ call'.before = call.before /\ call'.written = call.written
      /\ call'.used = 1 /\ call'.status = call.status
      /\ call'.bytes = SubSeq(call.bytes, BlockSize - call.used + 1, Len(call.bytes))
  BY <1>2, <1>5 DEF Fields
<1>8. writer'[call'.file] = h
  BY <1>2, <1>5, <1>7
<1>9. PICK t, c : t = disk' /\ c = call'
  OBVIOUS
<1>10. NextWrite(disk, t, call, c, w, h)
  BY <1>6, <1>7, <1>9 DEF NextWrite
<1>11. IsWriting(t, c, h)
  BY <1>1, <1>4, <1>10, NextWriteData, Zenon
<1>12. IsWriting(disk', call', writer'[call'.file])
  BY <1>8, <1>9, <1>11
<1>13. call'.bytes \in Seq(Bytes)
  <2>1. PICK a : a = BlockSize - call.used + 1
    OBVIOUS
  <2>2. a \in Nat /\ a >= 1
    BY <1>2, <2>1, BlockSets
  <2>3. SubSeq(call.bytes, a, Len(call.bytes)) \in Seq(Bytes)
    BY <1>1, <2>2
  <2>4. QED
    BY <1>7, <2>1, <2>3
<1>14. call'.written \in Seq(Bytes) /\ call'.status = OK
  BY <1>1, <1>7
<1>15. QED
  BY <1>5, <1>12, <1>13, <1>14 DEF WriteGoesOn

LEMMA WriteStepFacts ==
  ASSUME NEW L, NEW own, BlockInvariantOf(L, own), StoreFacts, WriteStep
  PROVE  /\ pc' = "write" => WriteGoesOn'
         /\ pc' = "commit" => WriteEnds'
<1>1. call.bytes \in Seq(Bytes) /\ call.used \in 1 .. BlockSize
  BY WritingTypes, WriteFacts DEF WriteStep
<1>2. Len(call.bytes) <= BlockSize - call.used \/ Len(call.bytes) > BlockSize - call.used
  BY <1>1, BlockSets
<1>3. CASE Len(call.bytes) <= BlockSize - call.used
  BY <1>3, LastWriteEnds
<1>4. CASE Len(call.bytes) > BlockSize - call.used
  BY <1>4, StopWriteEnds, NextWriteGoesOn
<1>5. QED
  BY <1>2, <1>3, <1>4

LEMMA KeepsWrite ==
  ASSUME NEW L, NEW own, BlockInvariantOf(L, own), StoreFacts, [AnyNext]_vars, ~ Resting'
  PROVE  /\ pc' = "write" => WriteGoesOn'
         /\ pc' = "commit" => WriteEnds'
<1>1. CASE Resting /\ AnyClient
  <2> SUFFICES ASSUME pc' \in Named
               PROVE  pc' = "write" /\ WriteGoesOn'
    BY DEF Named
  <2>1. PICK f, src : IsWrite(f, src)
    BY <1>1, BeginName
  <2>2. pc' = "write"
    BY <1>1, BeginName
  <2>3. call'.written = src /\ call'.bytes = src /\ call'.status = OK
    BY <2>1, WriteCall
  <2>4. src \in Seq(Bytes) /\ src \in Seq(Bytes)
    BY <2>1, BlockFSAssumption DEF IsWrite, BlockFSAssumption
  <2>5. IsWriting(disk', call', writer'[call'.file])
    BY <2>1, WriteBegins
  <2>6. QED
    BY <2>2, <2>3, <2>4, <2>5 DEF WriteGoesOn
<1>2. CASE ~ Resting /\ UNCHANGED vars
  <2>1. pc' = pc /\ disk' = disk /\ call' = call /\ writer' = writer
    BY <1>2 DEF vars
  <2>2. QED
    BY <2>1 DEF StoreFacts, WriteGoesOn, WriteEnds
<1>3. CASE ~ Resting /\ Step
  <2>1. pc' \in {"write", "commit"} => WriteStep
    BY <1>3, StepOrder
  <2>2. QED
    BY <2>1, WriteStepFacts
<1>4. QED
  BY <1>1, <1>2, <1>3, NextIs

LEMMA StoreNext ==
  ASSUME BlockInvariant, StoreFacts, [AnyNext]_vars
  PROVE  StoreFacts'
<1>1. PICK L, own : BlockInvariantOf(L, own)
  BY DEF BlockInvariant
<1>2. ByteCells(disk')
  BY <1>1, StepBytes DEF StoreFacts, WriteGoesOn
<1>3. CASE Resting'
  <2>1. pc' \in {"idle", "done"}
    BY <1>3 DEF Resting
  <2>2. QED
    BY <1>2, <1>3, <2>1 DEF StoreFacts, Looks, Named
<1>4. CASE ~ Resting'
  <2>1. IsFiles(call'.before)
    BY <1>1, <1>4, KeepsBefore
  <2>2. pc' \in Looks => Files(disk') = call'.before
    BY <1>1, <1>4, KeepsLooks
  <2>3. pc' \in Named => Name(disk'[call'.file]) = call'.before[call'.file].name
    BY <1>1, <1>4, KeepsName
  <2>4. (pc' = "write" => WriteGoesOn') /\ (pc' = "commit" => WriteEnds')
    BY <1>1, <1>4, KeepsWrite
  <2>5. QED
    BY <1>2, <2>1, <2>2, <2>3, <2>4 DEF StoreFacts
<1>5. QED
  BY <1>3, <1>4

LEMMA StoreInit == Init => StoreFacts
<1> SUFFICES ASSUME Init
             PROVE  StoreFacts
  OBVIOUS
<1>1. pc = "idle" /\ disk = Formatted
  BY DEF Init
<1>2. ByteCells(disk)
  <2>1. \A b \in Blocks : BlockSize + ((b + 1) % NumBlocks) \in Nat
    BY BlockSets
  <2>2. 0 \in Nat /\ 0 \in Bytes
    BY ByteSets
  <2>3. QED
    BY <1>1, <2>1, <2>2 DEF ByteCells, ByteBlock, Formatted
<1>3. QED
  BY <1>1, <1>2 DEF StoreFacts, Resting, Looks, Named

\* StoreFacts, OthersKept and BlockInvariant are inductive together.
LEMMA StoreKeeps ==
  BlockInvariant /\ OthersKept /\ StoreFacts /\ [AnyNext]_vars
    => (BlockInvariant /\ OthersKept /\ StoreFacts)'
<1> SUFFICES ASSUME BlockInvariant, OthersKept, StoreFacts, [AnyNext]_vars
             PROVE  BlockInvariant' /\ OthersKept' /\ StoreFacts'
  OBVIOUS
<1>1. BlockInvariant'
  BY AnyKeeps
<1>2. OthersKept'
  BY <1>1, NextKeepsOthers
<1>3. StoreFacts'
  BY StoreNext
<1>4. QED
  BY <1>1, <1>2, <1>3

LEMMA StoreInvariantHolds == Spec => [](BlockInvariant /\ OthersKept /\ StoreFacts)
<1>1. Init => OthersKept
  BY DEF Init, OthersKept, Resting
<1>2. QED
  BY InitInvariant, StoreInit, StoreKeeps, NextIsAny, <1>1, PTL DEF Spec

-----------------------------------------------------------------------------
(***************************************************************************)
(* The last step of a call does what FileStore says.                       *)
(***************************************************************************)
\* The blocks of a file are the same.
LEMMA FileFrame ==
  ASSUME NEW d, NEW e, NEW L, L \in SUBSET FileIds, DiskOK(d, L), NEW M, DiskOK(e, M),
         NEW f \in L, f \in M, NEW own, NEW h, Layout(own, Link(d), L, h), Name(d[f]) \in Names,
         \A b \in FileIds : own[b] = f => e[b] = d[b]
  PROVE  Data(e, f) = Data(d, f) /\ Name(e[f]) = Name(d[f])
<1>1. PICK K, S : K = {f} /\ S = Own(own, f)
  OBVIOUS
<1>2. K \in SUBSET FileIds /\ DiskOK(d, K) /\ DiskOK(e, K) /\ f \in K
  BY <1>1 DEF DiskOK
<1>3. S \in SUBSET FileIds /\ Links(Link(d), f, S)
  BY <1>1 DEF Own, Layout
<1>4. f \in S
  <2>1. own[f] = f
    BY FirstBlocks
  <2>2. QED
    BY <1>1, <2>1 DEF Own
<1>5. Untouched(d, e, f, S)
  BY <1>1, <1>4 DEF Untouched, Own
<1>6. QED
  BY <1>2, <1>3, <1>4, <1>5, DataFrame

\* The files that the call is not about.
LEMMA KeptFiles ==
  ASSUME NEW L, NEW own, BlockInvariantOf(L, own), OthersKept, ~ Resting,
         NEW M, M \in SUBSET FileIds, Whole(disk', M, own), DiskOK(disk', M), Others(L) \subseteq M,
         \A b \in FileIds : own[b] # call.file => disk'[b] = disk[b]
  PROVE  \A f \in Others(L) : /\ Files(disk')[f].name = call.before[f].name
                              /\ Files(disk')[f].data = call.before[f].data
                              /\ Name(disk'[f]) = call.before[f].name
<1> SUFFICES ASSUME NEW f \in Others(L)
             PROVE  /\ Files(disk')[f].name = call.before[f].name
                    /\ Files(disk')[f].data = call.before[f].data
                    /\ Name(disk'[f]) = call.before[f].name
  OBVIOUS
<1>1. PICK e : e = disk'
  OBVIOUS
<1>2. /\ DiskOK(disk, L) /\ L = DOMAIN call.before /\ L \in SUBSET FileIds
      /\ f \in L /\ f \in M /\ f # call.file
  BY DEF BlockInvariantOf, Resting, Others
<1>3. Listing(e, M) /\ Layout(own, Link(e), M, FreeHead(e)) /\ DiskOK(e, M)
  BY <1>1 DEF Whole
<1>4. Name(e[f]) \in Names /\ Files(e)[f].name = Name(e[f]) /\ Files(e)[f].data = Data(e, f)
  BY <1>2, <1>3, ListingFacts, FilesAre
<1>5. \A b \in FileIds : own[b] = f => disk[b] = e[b]
  BY <1>1, <1>2
<1>6. Data(disk, f) = Data(e, f) /\ Name(disk[f]) = Name(e[f])
  BY <1>2, <1>3, <1>4, <1>5, FileFrame
<1>7. Name(disk[f]) = call.before[f].name /\ Data(disk, f) = call.before[f].data
  BY <1>2 DEF OthersKept
<1>8. QED
  BY <1>1, <1>4, <1>6, <1>7

\* A file with a header only.
LEMMA EmptyFile ==
  ASSUME NEW d, NEW L, L \in SUBSET FileIds, DiskOK(d, L), NEW f \in L, Name(d[f]) \in Names,
         Link(d)[f] = 0, d[f][0] = HeaderSize(Name(d[f]))
  PROVE  Data(d, f) = << >>
<1>1. PICK g : g = [k \in 0 .. 0 |-> f]
  OBVIOUS
<1>2. g \in [0 .. 0 -> FileIds] /\ g[0] = f /\ 0 \in Nat
  BY <1>1
<1>3. IsPath(d, f, g, 0)
  BY <1>2 DEF IsPath
<1>4. Data(d, f) = DataOf(d, Name(d[f]), g, 0)
  BY <1>3, PathIsData
<1>5. DataOf(d, Name(d[f]), g, 0) = << >>
  BY <1>2, NoData
<1>6. QED
  BY <1>4, <1>5

LEMMA DiskFiles ==
  ASSUME NEW M, NEW own, M \in SUBSET FileIds, Whole(disk', M, own), DiskOK(disk', M)
  PROVE  /\ IsFiles(Files(disk')) /\ DOMAIN Files(disk') = M
         /\ \A f \in M : /\ Files(disk')[f].name = Name(disk'[f])
                         /\ Files(disk')[f].data = Data(disk', f)
                         /\ Name(disk'[f]) \in Names
<1>1. PICK e : e = disk'
  OBVIOUS
<1>2. Listing(e, M) /\ Layout(own, Link(e), M, FreeHead(e)) /\ DiskOK(e, M)
  BY <1>1 DEF Whole
<1>3. IsFiles(Files(e))
  BY <1>2, FilesIs
<1>4. DOMAIN Files(e) = M
      /\ \A f \in M : /\ Files(e)[f].name = Name(e[f]) /\ Files(e)[f].data = Data(e, f)
                      /\ Name(e[f]) \in Names
  BY <1>2, ListingFacts, FilesAre
<1>5. QED
  BY <1>1, <1>3, <1>4

\* F, with the new file f named n, is G.
Adds(F, G, f, n) ==
  G = [g \in DOMAIN F \cup {f} |-> IF g = f THEN [name |-> n, data |-> << >>] ELSE F[g]]

LEMMA AddedFile ==
  ASSUME NEW F, NEW G, IsFiles(F), IsFiles(G), NEW f, f \notin DOMAIN F,
         DOMAIN G = DOMAIN F \cup {f},
         \A g \in DOMAIN F : G[g].name = F[g].name /\ G[g].data = F[g].data,
         NEW n, G[f].name = n, G[f].data = << >>
  PROVE  Adds(F, G, f, n)
<1>1. G = [g \in DOMAIN G |-> [name |-> G[g].name, data |-> G[g].data]]
  BY DEF IsFiles
<1>2. \A g \in DOMAIN F : F[g] = [name |-> F[g].name, data |-> F[g].data]
  BY DEF IsFiles
<1>3. \A g \in DOMAIN F : G[g] = F[g]
  BY <1>1, <1>2
<1>4. G[f] = [name |-> n, data |-> << >>]
  BY <1>1
<1>5. G = [g \in DOMAIN F \cup {f} |-> G[g]]
  BY <1>1
<1>6. QED
  BY <1>3, <1>4, <1>5 DEF Adds

\* F, without file f, is G.
Removes(F, G, f) == G = [g \in DOMAIN F \ {f} |-> F[g]]

LEMMA LessFile ==
  ASSUME NEW F, NEW G, IsFiles(F), IsFiles(G), NEW f, DOMAIN G = DOMAIN F \ {f},
         \A g \in DOMAIN F \ {f} : G[g].name = F[g].name /\ G[g].data = F[g].data
  PROVE  Removes(F, G, f)
<1>1. G = [g \in DOMAIN G |-> [name |-> G[g].name, data |-> G[g].data]]
  BY DEF IsFiles
<1>2. \A g \in DOMAIN F : F[g] = [name |-> F[g].name, data |-> F[g].data]
  BY DEF IsFiles
<1>3. \A g \in DOMAIN F \ {f} : G[g] = F[g]
  BY <1>1, <1>2
<1>4. G = [g \in DOMAIN F \ {f} |-> G[g]]
  BY <1>1
<1>5. QED
  BY <1>3, <1>4 DEF Removes

LEMMA PublishFiles ==
  ASSUME NEW L, NEW own, BlockInvariantOf(L, own), OthersKept, StoreFacts, CreatePublish
  PROVE  \E f, n : /\ f = call.newFile /\ n = Name(disk[f])
                   /\ f \in FileIds \ DOMAIN call.before /\ n \in Names
                   /\ \A g \in DOMAIN call.before : call.before[g].name # n
                   /\ Adds(call.before, Files(disk'), f, n)
<1>1. PICK f, n, M : f = call.newFile /\ n = Name(disk'[f]) /\ M = L \cup {f}
  OBVIOUS
<1>2. /\ M \in SUBSET FileIds /\ f \in FileIds /\ f \notin L
      /\ Whole(disk', M, own) /\ DiskOK(disk', M)
      /\ \A g \in FileIds : disk'[g] = disk[g]
      /\ Link(disk')[f] = 0 /\ disk'[f][0] = HeaderSize(n)
  BY <1>1, CreatePublishIs
<1>3. /\ call.file = 0 /\ L = DOMAIN call.before /\ ~ Resting /\ IsFiles(call.before)
      /\ L \in SUBSET FileIds
  BY DEF CreatePublish, BlockInvariantOf, AtPublish, StoreFacts, Resting
<1>4. Others(L) = L /\ L \subseteq M /\ f \in M
  BY <1>1, <1>3, BlockSets DEF Others
<1>5. PICK G, e : G = Files(disk') /\ e = disk'
  OBVIOUS
<1>6. \A g \in L : /\ G[g].name = call.before[g].name /\ G[g].data = call.before[g].data
                   /\ Name(e[g]) = call.before[g].name
  BY <1>2, <1>3, <1>4, <1>5, KeptFiles
<1>7. /\ IsFiles(G) /\ DOMAIN G = M
      /\ \A g \in M : /\ G[g].name = Name(e[g]) /\ G[g].data = Data(e, g)
                      /\ Name(e[g]) \in Names
  BY <1>2, <1>5, DiskFiles
<1>8. n = Name(e[f]) /\ n \in Names /\ G[f].name = n /\ G[f].data = Data(e, f)
  BY <1>1, <1>4, <1>5, <1>7
<1>9. Data(e, f) = << >>
  <2>1. Link(e)[f] = 0 /\ e[f][0] = HeaderSize(Name(e[f])) /\ DiskOK(e, M)
    BY <1>2, <1>5, <1>8
  <2>2. QED
    BY <1>2, <1>4, <1>8, <2>1, EmptyFile
<1>10. \A g \in L : call.before[g].name # n
  <2>1. Listing(e, M)
    BY <1>2, <1>5 DEF Whole
  <2>2. \A a, b \in M : Name(e[a]) = Name(e[b]) => a = b
    BY <1>2, <2>1, DirectoryFacts DEF Listing
  <2>3. QED
    BY <1>2, <1>4, <1>6, <1>8, <2>2
<1>11. Adds(call.before, G, f, n)
  <2>1. PICK F : F = call.before
    OBVIOUS
  <2>2. /\ IsFiles(F) /\ IsFiles(G) /\ f \notin DOMAIN F /\ DOMAIN G = DOMAIN F \cup {f}
        /\ \A g \in DOMAIN F : G[g].name = F[g].name /\ G[g].data = F[g].data
        /\ G[f].name = n /\ G[f].data = << >>
    BY <1>1, <1>2, <1>3, <1>6, <1>7, <1>8, <1>9, <2>1
  <2>3. Adds(F, G, f, n)
    BY <2>2, AddedFile, Zenon
  <2>4. QED
    BY <2>1, <2>3
<1>12. n = Name(disk[f])
  BY <1>1, <1>2
<1>13. QED
  BY <1>1, <1>2, <1>3, <1>5, <1>8, <1>10, <1>11, <1>12

LEMMA DeletedFiles ==
  ASSUME NEW L, NEW own, BlockInvariantOf(L, own), OthersKept, StoreFacts, DeletePublish
  PROVE  /\ call.file \in DOMAIN call.before
         /\ Removes(call.before, Files(disk'), call.file)
<1>1. PICK f, M : f = call.file /\ M = L \ {f}
  OBVIOUS
<1>2. /\ M \in SUBSET FileIds /\ f \in L /\ Whole(disk', M, own) /\ DiskOK(disk', M)
      /\ \A g \in FileIds : disk'[g] = disk[g]
  BY <1>1, DeletePublishIs
<1>3. L = DOMAIN call.before /\ ~ Resting /\ IsFiles(call.before) /\ Others(L) = M
  BY <1>1 DEF DeletePublish, BlockInvariantOf, StoreFacts, Resting, Others
<1>4. PICK G : G = Files(disk')
  OBVIOUS
<1>5. \A g \in M : G[g].name = call.before[g].name /\ G[g].data = call.before[g].data
  BY <1>2, <1>3, <1>4, KeptFiles
<1>6. IsFiles(G) /\ DOMAIN G = M
  BY <1>2, <1>4, DiskFiles
<1>7. Removes(call.before, G, f)
  <2>1. PICK F : F = call.before
    OBVIOUS
  <2>2. /\ IsFiles(F) /\ IsFiles(G) /\ DOMAIN G = DOMAIN F \ {f}
        /\ \A g \in DOMAIN F \ {f} : G[g].name = F[g].name /\ G[g].data = F[g].data
    BY <1>1, <1>3, <1>5, <1>6, <2>1
  <2>3. Removes(F, G, f)
    BY <2>2, LessFile, Zenon
  <2>4. QED
    BY <2>1, <2>3
<1>8. QED
  BY <1>1, <1>2, <1>3, <1>4, <1>7

\* The file of the call keeps its name, and its data is x.
LEMMA NewDataFiles ==
  ASSUME NEW L, NEW own, BlockInvariantOf(L, own), OthersKept, StoreFacts, ~ Resting,
         Whole(disk', L, own), DiskOK(disk', L), call.file \in L,
         \A b \in FileIds : own[b] # call.file => disk'[b] = disk[b],
         Name(disk'[call.file]) = call.before[call.file].name,
         NEW x, Data(disk', call.file) = x
  PROVE  Files(disk') = [call.before EXCEPT ![call.file].data = x]
<1>1. PICK f, G : f = call.file /\ G = Files(disk')
  OBVIOUS
<1>2. L \in SUBSET FileIds /\ L = DOMAIN call.before /\ IsFiles(call.before) /\ Others(L) = L \ {f}
  BY <1>1 DEF BlockInvariantOf, StoreFacts, Resting, Others
<1>3. \A g \in L \ {f} : G[g].name = call.before[g].name /\ G[g].data = call.before[g].data
  BY <1>1, <1>2, KeptFiles
<1>4. /\ IsFiles(G) /\ DOMAIN G = L
      /\ G[f].name = Name(disk'[f]) /\ G[f].data = Data(disk', f)
  BY <1>1, <1>2, DiskFiles
<1>5. f \in DOMAIN call.before /\ G[f].name = call.before[f].name /\ G[f].data = x
  BY <1>1, <1>2, <1>4
<1>6. G = [call.before EXCEPT ![f].data = x]
  BY <1>2, <1>3, <1>4, <1>5, NewData
<1>7. QED
  BY <1>1, <1>6

LEMMA ClearedFiles ==
  ASSUME NEW L, NEW own, BlockInvariantOf(L, own), OthersKept, StoreFacts, ClearSize
  PROVE  /\ call.file \in DOMAIN call.before
         /\ Files(disk') = [call.before EXCEPT ![call.file].data = << >>]
<1>1. PICK f, e : f = call.file /\ e = disk'
  OBVIOUS
<1>2. /\ Whole(e, L, own) /\ DiskOK(e, L) /\ f \in L /\ f \in FileIds
      /\ Wrote(disk, e, f, e[f])
      /\ e[f][0] = HeaderSize(Name(e[f])) /\ Name(e[f]) = Name(disk[f])
      /\ Link(e) = Cut(Link(disk), f)
  BY <1>1, ClearSizeIs
<1>3. L \in SUBSET FileIds /\ L = DOMAIN call.before /\ ~ Resting /\ pc = "clear"
  BY DEF ClearSize, BlockInvariantOf, Resting
<1>4. Name(e[f]) = call.before[f].name /\ Name(e[f]) \in Names
  <2>1. Name(disk[f]) = call.before[f].name
    BY <1>1, <1>3 DEF StoreFacts, Named
  <2>2. Name(e[f]) \in Names
    BY <1>2, <1>3, ListingFacts DEF Whole
  <2>3. QED
    BY <1>2, <2>1, <2>2
<1>5. Data(e, f) = << >>
  <2>1. Link(e)[f] = 0
    BY <1>2 DEF Cut, Link
  <2>2. QED
    BY <1>2, <1>3, <1>4, <2>1, EmptyFile
<1>6. \A b \in FileIds : own[b] # call.file => e[b] = disk[b]
  <2>1. \A b \in FileIds \ {f} : e[b] = disk[b]
    BY <1>2, BlockSets DEF Wrote
  <2>2. own[f] = f
    BY <1>2, <1>3, FirstBlocks DEF Whole
  <2>3. QED
    BY <1>1, <2>1, <2>2
<1>7. PICK x : x = Data(e, f)
  OBVIOUS
<1>8. Files(disk') = [call.before EXCEPT ![call.file].data = x]
  BY <1>1, <1>2, <1>3, <1>4, <1>6, <1>7, NewDataFiles
<1>9. QED
  BY <1>1, <1>2, <1>3, <1>5, <1>7, <1>8

\* In G file f has the bytes x after those it has in F.
Extends(F, G, f, x) == G = [F EXCEPT ![f].data = F[f].data \o x]

\* In G file f has some of the bytes s, then those of a block of an old file.
ExtendsShort(F, G, f, s) ==
  \/ G = F
  \/ \E k \in 0 .. Len(s) - 1, junk \in [1 .. Chunk -> Bytes] :
       /\ FS!FillsItsBlocks(F[f].name, Len(F[f].data) + k)
       /\ Extends(F, G, f, SubSeq(s, 1, k) \o junk)

LEMMA CommittedData ==
  ASSUME NEW L, NEW own, BlockInvariantOf(L, own), OthersKept, StoreFacts, WriteCommit,
         NEW g, NEW m, IsPath(disk, call.file, g, m)
  PROVE  /\ call.file \in DOMAIN call.before /\ IsFiles(call.before)
         /\ Files(disk') = [call.before EXCEPT ![call.file].data =
                              DataOf(disk, call.before[call.file].name, g, m)]
<1>1. PICK f, e, h, n : f = call.file /\ e = disk' /\ h = call.newFree /\ n = call.before[f].name
  OBVIOUS
<1>2. /\ Whole(disk', L, own) /\ DiskOK(e, L) /\ \A b \in FileIds : disk'[b] = disk[b]
  BY <1>1, WriteCommitIs
<1>3. /\ L \in SUBSET FileIds /\ L = DOMAIN call.before /\ ~ Resting /\ pc = "commit"
      /\ DiskOK(disk, L) /\ AtCommit(L, own)
  BY DEF WriteCommit, BlockInvariantOf, Resting
<1>4. Listing(disk, L) /\ f \in L /\ f \in FileIds /\ Layout(own, Link(disk), L, h)
  BY <1>1, <1>3 DEF AtCommit
<1>5. Name(disk[f]) \in Names /\ Name(disk[f]) = n /\ IsFiles(call.before)
  BY <1>1, <1>3, <1>4, ListingFacts DEF StoreFacts, Named
<1>6. Data(disk, f) = DataOf(disk, n, g, m)
  <2>1. /\ L \in SUBSET FileIds /\ DiskOK(disk, L) /\ f \in L /\ Name(disk[f]) \in Names
        /\ IsPath(disk, f, g, m)
    BY <1>1, <1>3, <1>4, <1>5
  <2>2. Data(disk, f) = DataOf(disk, Name(disk[f]), g, m)
    BY <2>1, PathIsData, Zenon
  <2>3. QED
    BY <1>5, <2>2
<1>7. Data(e, f) = Data(disk, f) /\ Name(e[f]) = Name(disk[f])
  <2>1. \A b \in FileIds : own[b] = f => e[b] = disk[b]
    BY <1>1, <1>2
  <2>2. QED
    BY <1>2, <1>3, <1>4, <1>5, <2>1, FileFrame
<1>8. PICK x : x = DataOf(disk, n, g, m)
  OBVIOUS
<1>9. Data(disk', call.file) = x /\ Name(disk'[call.file]) = call.before[call.file].name
      /\ call.file \in L
  BY <1>1, <1>4, <1>5, <1>6, <1>7, <1>8
<1>10. Files(disk') = [call.before EXCEPT ![call.file].data = x]
  BY <1>1, <1>2, <1>3, <1>9, NewDataFiles
<1>11. QED
  BY <1>1, <1>3, <1>4, <1>5, <1>8, <1>10

LEMMA CommittedFiles ==
  ASSUME NEW L, NEW own, BlockInvariantOf(L, own), OthersKept, StoreFacts, WriteCommit
  PROVE  /\ call.file \in DOMAIN call.before /\ call.written \in Seq(Bytes)
         /\ \/ /\ call.status = OK
               /\ Extends(call.before, Files(disk'), call.file, call.written)
            \/ /\ call.status = OUT_OF_MEMORY /\ call.newFree = 0
               /\ Len(call.written) > 0
               /\ ExtendsShort(call.before, Files(disk'), call.file, call.written)
<1>1. WriteEnds
  BY DEF StoreFacts, WriteCommit
<1>2. PICK F, G, f, s : F = call.before /\ G = Files(disk') /\ f = call.file /\ s = call.written
  OBVIOUS
<1>3. ASSUME NEW g, NEW m, IsPath(disk, f, g, m)
      PROVE  f \in DOMAIN F /\ IsFiles(F) /\ G = [F EXCEPT ![f].data = DataOf(disk, F[f].name, g, m)]
  BY <1>2, <1>3, CommittedData
<1>4. CASE call.status = OK /\ HasAll(disk, call)
  <2>1. PICK g, m : IsPath(disk, f, g, m) /\ DataOf(disk, F[f].name, g, m) = F[f].data \o s
    BY <1>2, <1>4 DEF HasAll
  <2>2. f \in DOMAIN F /\ G = [F EXCEPT ![f].data = F[f].data \o s]
    BY <1>3, <2>1
  <2>3. QED
    BY <1>1, <1>2, <1>4, <2>2 DEF Extends, WriteEnds
<1>5. CASE call.status = OUT_OF_MEMORY /\ HasSome(disk, call)
  <2>1. HasSomeOf(disk, f, F[f].name, F[f].data, s)
    BY <1>2, <1>5 DEF HasSome
  <2>2. PICK g, m :
          /\ IsPath(disk, f, g, m)
          /\ \/ DataOf(disk, F[f].name, g, m) = F[f].data
             \/ \E k \in 0 .. Len(s) - 1, junk \in [1 .. Chunk -> Bytes] :
                  /\ FS!FillsItsBlocks(F[f].name, Len(F[f].data) + k)
                  /\ DataOf(disk, F[f].name, g, m) = F[f].data \o (SubSeq(s, 1, k) \o junk)
    BY <2>1 DEF HasSomeOf
  <2>3. PICK x : x = DataOf(disk, F[f].name, g, m)
    OBVIOUS
  <2>4. f \in DOMAIN F /\ IsFiles(F) /\ G = [F EXCEPT ![f].data = x]
    BY <1>3, <2>2, <2>3
  <2>5. CASE x = F[f].data
    <3>1. F[f] = [F[f] EXCEPT !.data = F[f].data]
      BY <2>4 DEF IsFiles
    <3>2. F = [F EXCEPT ![f] = F[f]]
      BY <2>4 DEF IsFiles
    <3>3. G = F
      BY <2>4, <2>5, <3>1, <3>2
    <3>4. QED
      BY <1>1, <1>2, <1>5, <2>4, <3>3 DEF ExtendsShort, WriteEnds, OUT_OF_MEMORY, OK
  <2>6. CASE x # F[f].data
    <3>1. PICK k \in 0 .. Len(s) - 1, junk \in [1 .. Chunk -> Bytes] :
            /\ FS!FillsItsBlocks(F[f].name, Len(F[f].data) + k)
            /\ x = F[f].data \o (SubSeq(s, 1, k) \o junk)
      BY <2>2, <2>3, <2>6
    <3>2. PICK y : y = SubSeq(s, 1, k) \o junk
      OBVIOUS
    <3>3. Extends(F, G, f, y)
      BY <2>4, <3>1, <3>2 DEF Extends
    <3>4. ExtendsShort(F, G, f, s)
      BY <3>1, <3>2, <3>3 DEF ExtendsShort
    <3>5. QED
      BY <1>1, <1>2, <1>5, <2>4, <3>4 DEF WriteEnds, OUT_OF_MEMORY, OK
  <2>7. QED
    BY <2>5, <2>6
<1>6. QED
  BY <1>1, <1>4, <1>5 DEF WriteEnds

\* The steps that end a call and write nothing.
LEMMA LookEnds ==
  ASSUME StoreFacts, ~ Resting, Step, Resting',
         ~ CreatePublish, ~ ClearSize, ~ WriteCommit, ~ DeletePublish
  PROVE  disk' = disk /\ Files(disk) = call.before
<1>1. FindFails \/ SizeStep \/ OpenRead \/ ReadStep \/ CreateStart \/ CreateScan
  BY DEF Resting, Step, FindStep, SizeStart, CreateLink, CreateFill, WriteStep, FreeStep,
     ClearStart, ClearFreed, DeleteStart, DeleteUnlink, Return, Goto, FreeStart
<1>2. disk' = disk /\ pc \in Looks
  BY <1>1 DEF Looks, FindFails, SizeStep, OpenRead, ReadStep, CreateStart, CreateScan, ReadBlock
<1>3. QED
  BY <1>2 DEF StoreFacts

LEMMA RestEnds ==
  ASSUME Resting, Resting', AnyNext
  PROVE  disk' = disk
<1>1. Return \/ (\E f \in FileIds : CloseWriter(f)) \/ CloseReader
  BY DEF Resting, AnyNext, Step, AnyClient, FindStep, FindFails, SizeStart, SizeStep, OpenRead,
     ReadStep, CreateStart, CreateScan, CreateLink, CreateFill, CreatePublish, WriteStep,
     WriteCommit, FreeStep, ClearStart, ClearFreed, ClearSize, DeleteStart, DeleteUnlink,
     DeletePublish, Find, Create, Read, Write
<1>2. QED
  BY <1>1 DEF Return, CloseWriter, CloseReader

\* The bytes that are written are those of a client of the model.
Asked == pc \in {"write", "commit"} => call.written \in Writes

LEMMA AskedNext == BlockInvariant /\ Asked /\ [Next]_vars => Asked'
<1> SUFFICES ASSUME BlockInvariant, Asked, [Next]_vars, pc' \in {"write", "commit"}
             PROVE  call'.written \in Writes
  BY DEF Asked
<1>1. PICK L, own : BlockInvariantOf(L, own)
  BY DEF BlockInvariant
<1>2. CASE ~ (WriteStep \/ \E f \in FileIds, src \in Writes : Write(f, src))
  <2>1. pc' = pc /\ call' = call
    BY <1>2 DEF Next, Step, Client, vars, FindStep, FindFails, SizeStart, SizeStep, OpenRead, ReadStep,
       CreateStart, CreateScan, CreateLink, CreateFill, CreatePublish, WriteCommit, FreeStep, FreeStart,
       ClearStart, ClearFreed, ClearSize, DeleteStart, DeleteUnlink, DeletePublish, Return, Find, Create,
       Read, CloseWriter, CloseReader, Goto, Done
  <2>2. QED
    BY <2>1 DEF Asked
<1>3. CASE WriteStep
  <2>1. pc = "write" /\ DOMAIN call = Fields
    BY <1>1, <1>3 DEF WriteStep, BlockInvariantOf, Resting
  <2>2. call'.written = call.written
    BY <1>3, <2>1 DEF WriteStep, Goto, Fields
  <2>3. QED
    BY <2>1, <2>2 DEF Asked
<1>4. CASE \E f \in FileIds, src \in Writes : Write(f, src)
  <2>1. PICK f \in FileIds, src \in Writes : Write(f, src)
    BY <1>4
  <2>2. PICK c : c = [NoCall EXCEPT !.op = "write", !.file = f, !.bytes = src, !.written = src,
                        !.oldFree = block_get_next(disk[SUPER_BLOCK]),
                        !.newFree = block_get_next(disk[SUPER_BLOCK]),
                        !.used = block_size(disk[writer[f]])]
    OBVIOUS
  <2>3. DOMAIN c = Fields /\ c.written = src
    BY <2>2, CallFields DEF NoCall
  <2>4. Begin(c)
    BY <2>1, <2>2 DEF Write
  <2>5. call'.written = src
    BY <1>1, <2>3, <2>4, BeginCall DEF Fields
  <2>6. QED
    BY <2>5
<1>5. QED
  BY <1>2, <1>3, <1>4

LEMMA StoreStep ==
  ASSUME BlockInvariant, OthersKept, StoreFacts, Asked, [Next]_vars
  PROVE  [FS!Next]_Store
<1>0. [AnyNext]_vars
  BY NextIsAny
<1>1. PICK L, own : BlockInvariantOf(L, own)
  BY DEF BlockInvariant
<1>2. CASE ~ Resting'
  <2>1. Store' = call'.before
    BY <1>2 DEF Store
  <2>2. CASE Resting /\ call'.before = Files(disk)
    BY <2>1, <2>2 DEF Store
  <2>3. CASE ~ Resting /\ call'.before = call.before
    BY <2>1, <2>3 DEF Store
  <2>4. QED
    BY <1>0, <1>1, <1>2, <2>2, <2>3, NextIs DEF CallGoesOn, vars
<1>3. CASE Resting' /\ (Resting \/ UNCHANGED vars)
  <2>1. CASE UNCHANGED vars
    <3>1. disk' = disk /\ pc' = pc /\ call' = call
      BY <2>1 DEF vars
    <3>2. QED
      BY <3>1 DEF Store, Resting
  <2>2. CASE Resting /\ AnyNext
    BY <1>3, <2>2, RestEnds DEF Store
  <2>3. QED
    BY <1>0, <1>3, <2>1, <2>2
<1>4. CASE Resting' /\ ~ Resting /\ ~ UNCHANGED vars
  <2>1. Store = call.before /\ Store' = Files(disk')
    BY <1>4 DEF Store
  <2>2. Step
    <3>1. ~ AnyClient
      BY <1>4 DEF Resting, AnyClient, Find, Create, Read, Write, CloseWriter, CloseReader, Begin
    <3>2. QED
      BY <1>0, <1>4, <3>1 DEF AnyNext
  <2>3. CASE CreatePublish
    <3>1. PICK f, n : /\ f \in FileIds \ DOMAIN call.before /\ n \in Names
                      /\ \A g \in DOMAIN call.before : call.before[g].name # n
                      /\ Adds(call.before, Files(disk'), f, n)
      BY <1>1, <2>3, PublishFiles
    <3>2. FS!Create(f, n)
      BY <2>1, <3>1 DEF FS!Create, FS!Live, Adds
    <3>3. QED
      BY <3>1, <3>2 DEF FS!Next
  <2>4. CASE ClearSize
    <3>1. FS!Clear(call.file)
      BY <1>1, <2>1, <2>4, ClearedFiles DEF FS!Clear, FS!Live
    <3>2. call.file \in FS!Live
      BY <1>1, <2>1, <2>4, ClearedFiles DEF FS!Live
    <3>3. QED
      BY <3>1, <3>2 DEF FS!Next
  <2>5. CASE WriteCommit
    <3>1. /\ call.file \in DOMAIN call.before
          /\ \/ Extends(call.before, Files(disk'), call.file, call.written)
             \/ /\ Len(call.written) > 0
                /\ ExtendsShort(call.before, Files(disk'), call.file, call.written)
      BY <1>1, <2>5, CommittedFiles
    <3>0. call.written \in Writes
      BY <2>5 DEF WriteCommit, Asked
    <3>2. FS!Extend(call.file, call.written) \/ FS!ExtendShort(call.file, call.written)
      BY <2>1, <3>1 DEF FS!Extend, FS!ExtendShort, FS!Live, Extends, ExtendsShort
    <3>3. call.file \in FS!Live
      BY <2>1, <3>1 DEF FS!Live
    <3>4. QED
      BY <3>0, <3>1, <3>2, <3>3 DEF FS!Next
  <2>6. CASE DeletePublish
    <3>1. FS!Delete(call.file)
      BY <1>1, <2>1, <2>6, DeletedFiles DEF FS!Delete, FS!Live, Removes
    <3>2. call.file \in FS!Live
      BY <1>1, <2>1, <2>6, DeletedFiles DEF FS!Live
    <3>3. QED
      BY <3>1, <3>2 DEF FS!Next
  <2>7. CASE ~ CreatePublish /\ ~ ClearSize /\ ~ WriteCommit /\ ~ DeletePublish
    BY <1>4, <2>1, <2>2, <2>7, LookEnds
  <2>8. QED
    BY <2>3, <2>4, <2>5, <2>6, <2>7
<1>5. QED
  BY <1>2, <1>3, <1>4

LEMMA NewDiskFiles == Init => FS!Init
<1> SUFFICES ASSUME Init
             PROVE  Store = << >>
  BY DEF FS!Init
<1>1. disk = Formatted /\ Resting
  BY DEF Init, Resting
<1>2. Listing(disk, {})
  <2>1. 0 \in Blocks /\ 1 \in Offsets /\ 1 # 0
    BY BlockSets
  <2>2. FirstFile(disk) = 0
    BY <1>1, <2>1, BlockSets DEF FirstFile, NextFile, Formatted
  <2>3. Sorted(NextOf(disk, {}), 0, {}, NameOf(disk, {}))
    BY DEF Sorted, FirstOf
  <2>4. NameOf(disk, {}) \in [{} -> Names]
    BY DEF NameOf
  <2>5. QED
    BY <2>2, <2>3, <2>4 DEF Listing, Directory
<1>3. Listed(disk) = {}
  BY <1>2, ListedAre
<1>4. Files(disk) = << >>
  BY <1>3 DEF Files
<1>5. QED
  BY <1>1, <1>4 DEF Store

(***************************************************************************)
(* The calls of the file system on its blocks do what FileStore says, in   *)
(* one step each, whatever the disk, the files and what the calls write:   *)
(* their other steps do not change the files that the next call sees.      *)
(***************************************************************************)
THEOREM BlockFSImplementsStore == Spec => StoreSpec
<1>1. BlockInvariant /\ OthersKept /\ StoreFacts /\ Asked /\ [Next]_vars => [FS!Next]_Store
  BY StoreStep
<1>2. Init => Asked
  BY DEF Init, Asked
<1>3. QED
  BY NewDiskFiles, StoreInvariantHolds, AskedNext, <1>1, <1>2, PTL DEF Spec, StoreSpec, FS!Spec
=============================================================================
