---------------------------- MODULE KernelProofs ----------------------------
(***************************************************************************)
(* Theorems about the kernel, for every value of its constants.            *)
(*                                                                         *)
(* KernelInvariant is inductive.  The actions fall in five groups, each    *)
(* with its lemmas: calls that leave the streams as they are (LocalCall),  *)
(* calls that change one stream (StreamCall), delete, which moves the      *)
(* cursors of all processes (DeleteStep), spawn (PushStep) and exit        *)
(* (PopStep).                                                              *)
(*                                                                         *)
(* From it follow theorems about the steps: the kernel is a client of the  *)
(* file store that changes only files that nobody reads, its listings skip *)
(* no file, and the results of spawn and exit reach the process that waits *)
(* for them.  Each action is described by how it changes the files         *)
(* (FilesMove) and the cursors of the listings (CursorsMove); for the      *)
(* listings, the names of the files have to be distinct.                   *)
(***************************************************************************)
EXTENDS Kernel, SequenceTheorems, TLAPS

-----------------------------------------------------------------------------
(***************************************************************************)
(* How the process stack changes.                                          *)
(***************************************************************************)

LEMMA SetResult ==
  ASSUME NEW p \in Process, NEW r \in Int
  PROVE  [p EXCEPT !.r8 = r] \in Process
  BY DEF Process

LEMMA ProcessFields ==
  ASSUME NEW p \in Process
  PROVE  /\ p.begin \in Nat /\ p.end \in Nat /\ p.base \in Nat
         /\ p.output \in Nat /\ p.outputLimit \in Nat
         /\ p.streams \in Seq(Stream) /\ Len(p.streams) \in Nat
  BY DEF Process

LEMMA ProcsAreProcesses ==
  ASSUME procs \in Seq(Process)
  PROVE  /\ Depth \in Nat
         /\ DOMAIN procs = 1 .. Depth
         /\ \A i \in 1 .. Depth : procs[i] \in Process
         /\ Depth > 0 => Current \in Process
  BY DEF Depth, Current

\* A call that succeeds changes the record of the current process only.
LEMMA ReturnCurrent ==
  ASSUME procs \in Seq(Process), Depth > 0, NEW p \in Process, NEW r \in Int,
         Succeed(p, r)
  PROVE  /\ procs' \in Seq(Process)
         /\ Depth' = Depth
         /\ \A i \in 1 .. Depth - 1 : procs'[i] = procs[i]
         /\ Current' = [p EXCEPT !.r8 = r]
         /\ UNCHANGED <<mode, userPages, userTables, honest>>
<1> DEFINE q == [p EXCEPT !.r8 = r]
<1>1. q \in Process
  BY SetResult
<1>2. Depth \in DOMAIN procs /\ Depth \in Nat
  BY DEF Depth
<1>3. SetCurrent(p) \in Seq(Process) /\ DOMAIN SetCurrent(p) = DOMAIN procs
      /\ SetCurrent(p)[Depth] = p
  BY <1>2, ExceptSeq DEF SetCurrent
<1>4. procs' = [procs EXCEPT ![Depth] = q]
  BY <1>2, <1>3 DEF Succeed, Return, SetCurrent
<1>5. QED
  BY <1>1, <1>2, <1>4, ExceptSeq DEF Succeed, Depth, Current

\* A call that fails changes the result of the current process only.
LEMMA ReturnError ==
  ASSUME procs \in Seq(Process), Depth > 0, NEW e \in Nat, Fail(e)
  PROVE  Local(Current, Error(e)) /\ Error(e) \in Int
<1>1. Depth \in DOMAIN procs /\ Current \in Process
  BY DEF Depth, Current
<1>2. SetCurrent(Current) = procs
  BY <1>1 DEF SetCurrent, Current
<1>3. QED
  BY <1>2 DEF Fail, Local, Succeed, Error

\* A spawn adds a process and changes the result of its parent.
LEMMA StackAfterSpawn ==
  ASSUME procs \in Seq(Process), Depth > 0, NEW p \in Process,
         Return(Append(procs, p), Depth, OK)
  PROVE  /\ procs' \in Seq(Process)
         /\ Depth' = Depth + 1
         /\ \A i \in 1 .. Depth - 1 : procs'[i] = procs[i]
         /\ procs'[Depth] = [Current EXCEPT !.r8 = OK]
         /\ procs'[Depth + 1] = p
<1> DEFINE stack == Append(procs, p)
           q == [Current EXCEPT !.r8 = OK]
<1>1. /\ stack \in Seq(Process) /\ Len(stack) = Depth + 1
      /\ \A i \in 1 .. Depth : stack[i] = procs[i]
      /\ stack[Depth + 1] = p
  <2> HIDE DEF Process
  <2> QED BY AppendProperties DEF Depth
<1> HIDE DEF stack
<1>2. Depth \in 1 .. Len(stack) /\ Depth \in Nat /\ DOMAIN stack = 1 .. Len(stack)
  BY <1>1, ProcsAreProcesses
<1>3. q \in Process
  BY ProcsAreProcesses, SetResult, SMTT(60) DEF OK
<1>4. procs' = [stack EXCEPT ![Depth] = q]
  <2>1. Return(stack, Depth, OK)
    BY DEF stack
  <2>2. stack[Depth] = Current /\ Depth \in DOMAIN stack
    BY <1>1, <1>2 DEF Current
  <2>3. QED
    BY <2>1, <2>2, Zenon DEF Return
<1> HIDE DEF q
<1>5. procs' \in Seq(Process) /\ Len(procs') = Depth + 1
      /\ \A j \in 1 .. Depth + 1 : procs'[j] = IF j = Depth THEN q ELSE stack[j]
  BY <1>1, <1>2, <1>3, <1>4, ExceptSeq
<1>6. QED
  BY <1>1, <1>2, <1>5 DEF Depth, q

\* An exit removes a process and changes the result of its parent.
LEMMA StackAfterExit ==
  ASSUME procs \in Seq(Process), Depth > 1, NEW r \in Nat
  PROVE  /\ Pop(r) \in Seq(Process)
         /\ Len(Pop(r)) = Depth - 1
         /\ \A i \in 1 .. Depth - 2 : Pop(r)[i] = procs[i]
         /\ Pop(r)[Depth - 1] = [procs[Depth - 1] EXCEPT !.r8 = r]
         /\ Return(Pop(r), Depth, OK) => procs' = Pop(r)
<1> DEFINE stack == SubSeq(procs, 1, Depth - 1)
           q == [procs[Depth - 1] EXCEPT !.r8 = r]
<1>1. Depth \in Nat /\ \A i \in 1 .. Depth : procs[i] \in Process
  BY ProcsAreProcesses
<1>2. /\ stack \in Seq(Process) /\ Len(stack) = Depth - 1
      /\ \A i \in 1 .. Depth - 1 : stack[i] = procs[i]
  BY <1>1, SubSeqProperties
<1>3. q \in Process
  BY <1>1, SetResult
<1>4. stack[Depth - 1] = procs[Depth - 1]
  BY <1>1, <1>2
<1>5. Pop(r) = [stack EXCEPT ![Depth - 1] = q]
  BY <1>4 DEF Pop
<1> HIDE DEF stack, q
<1>6. /\ Pop(r) \in Seq(Process) /\ Len(Pop(r)) = Depth - 1
      /\ \A j \in 1 .. Depth - 1 : Pop(r)[j] = IF j = Depth - 1 THEN q ELSE stack[j]
  BY <1>1, <1>2, <1>3, <1>5, ExceptSeq, SMTT(60)
<1>7. Depth \notin DOMAIN Pop(r)
  BY <1>1, <1>6
<1>8. QED
  BY <1>1, <1>2, <1>6, <1>7 DEF Return, q

-----------------------------------------------------------------------------
(***************************************************************************)
(* Calls that change their own process: its result, its streams, and how   *)
(* much of its output buffer is filled.                                    *)
(***************************************************************************)

\* p may replace the current process.
Replaces(p) ==
  /\ p \in Process
  /\ p.begin = Current.begin /\ p.end = Current.end /\ p.base = Current.base
  /\ p.outputLimit = Current.outputLimit
  /\ \/ p.output = Current.output
     \/ Current.output <= p.output /\ p.output <= p.outputLimit

\* The record of the current process is the last one in the heap.
LEMMA HeapTop ==
  ASSUME TypeOK, HeapExact, Depth > 0
  PROVE  heap = Current.base + ProcessSize + StreamSize * Len(Current.streams)
  BY ProcsAreProcesses DEF HeapExact, Streams, Current, TypeOK

LEMMA LocalStep ==
  ASSUME KernelInvariant, mode = "user", NEW p, Replaces(p),
         NEW r \in Int, Succeed(p, r),
         heap' = Current.base + ProcessSize + StreamSize * Len(p.streams),
         heap' <= HeapUnits, FS!StoreTypeOK'
  PROVE  TypeOK' /\ HeapExact' /\ RegionsNested' /\ UserBitsExact'
<1>1. /\ TypeOK /\ HeapExact /\ RegionsNested /\ UserBitsExact
      /\ Depth > 0
  BY DEF KernelInvariant, TypeOK, Depth
<1>2. /\ procs \in Seq(Process) /\ Depth \in Nat
      /\ DOMAIN procs = 1 .. Depth
      /\ \A i \in 1 .. Depth : procs[i] \in Process
      /\ Current \in Process /\ p \in Process
  BY <1>1, ProcsAreProcesses DEF TypeOK, Replaces
<1>3. /\ procs' \in Seq(Process)
      /\ Depth' = Depth
      /\ DOMAIN procs' = 1 .. Depth
      /\ \A i \in 1 .. Depth - 1 : procs'[i] = procs[i]
      /\ Current' = [p EXCEPT !.r8 = r]
      /\ procs'[Depth] = Current' /\ procs[Depth] = Current
      /\ UNCHANGED <<mode, userPages, userTables, honest>>
  BY <1>1, <1>2, ReturnCurrent DEF Depth, Current
<1>4. /\ Current'.begin = Current.begin /\ Current'.end = Current.end
      /\ Current'.base = Current.base
      /\ Current'.output = p.output
      /\ Current'.outputLimit = Current.outputLimit
      /\ Current'.streams = p.streams
  BY <1>2, <1>3 DEF Replaces, Process
<1> HIDE DEF Process
<1>5. Len(p.streams) \in Nat /\ Current.base \in Nat
  BY <1>2, ProcessFields
<1>6. heap' \in Nat
  <2> DEFINE x == Len(p.streams)
  <2>1. x \in Nat
    BY <1>5
  <2> HIDE DEF x
  <2>2. heap' = Current.base + ProcessSize + StreamSize * x
    BY DEF x
  <2>3. QED
    BY <1>5, <2>1, <2>2 DEF ProcessSize, StreamSize
<1>7. TypeOK'
  BY <1>1, <1>3, <1>6 DEF TypeOK, TablesOf
<1>8. HeapExact'
  <2>1. ASSUME NEW i \in 1 .. Depth
        PROVE  procs'[i].base = procs[i].base
    <3>1. CASE i = Depth
      BY <1>3, <1>4, <3>1
    <3>2. CASE i # Depth
      BY <1>2, <1>3, <3>2
    <3>3. QED
      BY <3>1, <3>2
  <2>2. ASSUME NEW i \in 1 .. Depth - 1
        PROVE  procs'[i].base + ProcessSize + StreamSize * Len(procs'[i].streams)
                 = procs'[i + 1].base
    <3>1. i \in 1 .. Depth /\ i + 1 \in 1 .. Depth /\ i # Depth
      BY <1>2
    <3>2. procs'[i] = procs[i] /\ procs'[i + 1].base = procs[i + 1].base
      BY <1>3, <2>1, <3>1
    <3>3. QED
      BY <1>1, <1>2, <3>1, <3>2 DEF HeapExact, Streams
  <2>3. procs'[Depth].base + ProcessSize + StreamSize * Len(procs'[Depth].streams)
          = heap'
    <3>1. procs'[Depth].base = Current.base /\ procs'[Depth].streams = p.streams
      BY <1>3, <1>4
    <3>2. QED
      BY <3>1
  <2>4. procs'[1].base = 0
    BY <1>1, <1>2, <2>1 DEF HeapExact
  <2>5. ASSUME NEW i \in 1 .. Depth
        PROVE  procs'[i].base + ProcessSize + StreamSize * Len(procs'[i].streams)
                 = IF i = Depth THEN heap' ELSE procs'[i + 1].base
    <3>1. CASE i = Depth
      BY <2>3, <3>1
    <3>2. CASE i # Depth
      BY <1>2, <2>2, <3>2
    <3>3. QED
      BY <3>1, <3>2
  <2>6. QED
    BY <1>1, <1>3, <2>4, <2>5 DEF HeapExact, Streams
<1>9. RegionsNested'
  <2>1. ASSUME NEW i \in 1 .. Depth
        PROVE  /\ procs'[i].begin = procs[i].begin
               /\ procs'[i].end = procs[i].end
               /\ procs'[i].outputLimit = procs[i].outputLimit
               /\ \/ procs'[i].output = procs[i].output
                  \/ /\ procs[i].output <= procs'[i].output
                     /\ procs'[i].output <= procs'[i].outputLimit
    <3>1. CASE i = Depth
      BY <1>3, <1>4, <3>1 DEF Replaces
    <3>2. CASE i # Depth
      BY <1>2, <1>3, <3>2
    <3>3. QED
      BY <3>1, <3>2
  <2>2. ASSUME NEW i \in 1 .. Depth
        PROVE  /\ procs[i].output \in Nat /\ procs'[i].output \in Nat
               /\ procs[i].begin \in Nat
    <3>1. procs[i] \in Process /\ procs'[i] \in Process
      BY <1>2, <1>3
    <3>2. QED
      BY <3>1, ProcessFields
  <2>3. \A i \in 1 .. Depth :
          /\ HeapEnd <= procs'[i].begin
          /\ honest' => procs'[i].end <= MemLimit
    BY <1>1, <1>2, <1>3, <2>1 DEF RegionsNested
  <2>4. ASSUME NEW i \in 2 .. Depth
        PROVE  /\ procs'[i - 1].begin <= procs'[i].begin
               /\ procs'[i].begin <= procs'[i].end
               /\ honest' => Nested(procs'[i], procs'[i - 1])
    <3>1. i \in 1 .. Depth /\ i - 1 \in 1 .. Depth /\ i \in 2 .. Depth
      BY <1>2, <1>3
    <3>2. /\ procs[i - 1].begin <= procs[i].begin
          /\ procs[i].begin <= procs[i].end
          /\ honest => Nested(procs[i], procs[i - 1])
      BY <1>1, <3>1 DEF RegionsNested
    <3>3. honest' => Nested(procs'[i], procs'[i - 1])
      BY <1>3, <3>1, <3>2, <2>1, <2>2 DEF Nested
    <3>4. QED
      BY <3>1, <3>2, <3>3, <2>1
  <2>5. QED
    BY <1>2, <1>3, <2>3, <2>4 DEF RegionsNested
<1>10. UserBitsExact'
  <2>1. PagesOf(Current') = PagesOf(Current)
    BY <1>4 DEF PagesOf
  <2>2. Accessible' = Accessible
    BY <1>3 DEF Accessible
  <2>3. QED
    BY <1>1, <1>3, <2>1, <2>2 DEF UserBitsExact
<1>11. QED
  BY <1>7, <1>8, <1>9, <1>10

-----------------------------------------------------------------------------
(***************************************************************************)
(* The streams of a call that changes at most stream k of its process.     *)
(***************************************************************************)

DiffersAt(p, k) ==
  \A l \in 1 .. Len(p.streams) :
    l # k => l \in 1 .. Len(Current.streams) /\ p.streams[l] = Current.streams[l]

\* Stream k of p was opened now, or it reads or writes the same file as before.
ExclusiveAt(p, k) ==
  k \in 1 .. Len(p.streams) /\ p.streams[k].mode \in {READ, WRITE} =>
    \/ CanOpen(p.streams[k].file, p.streams[k].mode)
    \/ /\ k \in 1 .. Len(Current.streams)
       /\ p.streams[k].mode = Current.streams[k].mode
       /\ p.streams[k].file = Current.streams[k].file

LEMMA StreamsBefore ==
  ASSUME procs \in Seq(Process), Depth > 0
  PROVE  /\ DOMAIN procs = 1 .. Depth /\ Depth \in 1 .. Depth
         /\ Current = procs[Depth]
         /\ \A i \in 1 .. Depth : DOMAIN procs[i].streams = 1 .. Len(procs[i].streams)
<1>1. /\ DOMAIN procs = 1 .. Depth /\ Depth \in 1 .. Depth
      /\ \A i \in 1 .. Depth : procs[i] \in Process
  BY ProcsAreProcesses
<1>2. ASSUME NEW i \in 1 .. Depth
      PROVE  DOMAIN procs[i].streams = 1 .. Len(procs[i].streams)
  <2>1. procs[i].streams \in Seq(Stream)
    BY <1>1, ProcessFields
  <2>2. QED
    BY <2>1
<1>3. QED
  BY <1>1, <1>2 DEF Current

LEMMA StreamsAfterCall ==
  ASSUME procs \in Seq(Process), Depth > 0, NEW p \in Process, NEW r \in Int,
         Succeed(p, r)
  PROVE  /\ Depth' = Depth /\ DOMAIN procs' = 1 .. Depth
         /\ procs'[Depth].streams = p.streams
         /\ \A i \in 1 .. Depth : i # Depth => procs'[i].streams = procs[i].streams
         /\ \A i \in 1 .. Depth : DOMAIN procs'[i].streams = 1 .. Len(procs'[i].streams)
<1>1. /\ procs' \in Seq(Process) /\ Depth' = Depth /\ Depth \in Nat
      /\ \A i \in 1 .. Depth - 1 : procs'[i] = procs[i]
      /\ Current' = [p EXCEPT !.r8 = r]
  BY ReturnCurrent, ProcsAreProcesses
<1>2. DOMAIN procs' = 1 .. Depth /\ \A i \in 1 .. Depth : procs'[i] \in Process
  BY <1>1 DEF Depth
<1>3. procs'[Depth].streams = p.streams
  BY <1>1 DEF Current, Process
<1>4. \A i \in 1 .. Depth : i # Depth => procs'[i].streams = procs[i].streams
  BY <1>1
<1>5. ASSUME NEW i \in 1 .. Depth
      PROVE  DOMAIN procs'[i].streams = 1 .. Len(procs'[i].streams)
  <2>1. procs'[i].streams \in Seq(Stream)
    BY <1>2, ProcessFields
  <2>2. QED
    BY <2>1
<1>6. QED
  BY <1>1, <1>2, <1>3, <1>4, <1>5

LEMMA ExclusiveStep ==
  ASSUME KernelInvariant, mode = "user", NEW p, Replaces(p),
         NEW r \in Int, Succeed(p, r), NEW k, DiffersAt(p, k), ExclusiveAt(p, k)
  PROVE  WriterExclusive'
<1> USE DEF Streams
<1>1. /\ procs \in Seq(Process) /\ Depth > 0 /\ WriterExclusive /\ p \in Process
  BY DEF KernelInvariant, TypeOK, Depth, Replaces
<1>2. /\ DOMAIN procs = 1 .. Depth /\ Depth \in 1 .. Depth /\ Current = procs[Depth]
      /\ \A i \in 1 .. Depth : DOMAIN procs[i].streams = 1 .. Len(procs[i].streams)
  BY <1>1, StreamsBefore
<1>3. /\ Depth' = Depth /\ DOMAIN procs' = 1 .. Depth
      /\ procs'[Depth].streams = p.streams
      /\ \A i \in 1 .. Depth : i # Depth => procs'[i].streams = procs[i].streams
      /\ \A i \in 1 .. Depth : DOMAIN procs'[i].streams = 1 .. Len(procs'[i].streams)
  BY <1>1, StreamsAfterCall
\* A stream other than the new one was there before.
<1>4. ASSUME NEW i \in 1 .. Depth, NEW l \in 1 .. Len(procs'[i].streams),
             <<i, l>> # <<Depth, k>>
      PROVE  l \in 1 .. Len(procs[i].streams)
             /\ procs'[i].streams[l] = procs[i].streams[l]
  <2>1. CASE i = Depth
    BY <1>2, <1>3, <1>4, <2>1 DEF DiffersAt
  <2>2. CASE i # Depth
    BY <1>3, <2>2
  <2>3. QED
    BY <2>1, <2>2
\* The new stream and another one.
<1>5. ASSUME NEW i \in 1 .. Depth, NEW l \in 1 .. Len(procs'[i].streams),
             <<i, l>> # <<Depth, k>>, k \in 1 .. Len(p.streams),
             procs'[i].streams[l].file = p.streams[k].file,
             procs'[i].streams[l].mode \in {READ, WRITE},
             p.streams[k].mode \in {READ, WRITE}
      PROVE  procs'[i].streams[l].mode = READ /\ p.streams[k].mode = READ
  <2>1. l \in 1 .. Len(procs[i].streams) /\ procs'[i].streams[l] = procs[i].streams[l]
    BY <1>4, <1>5
  <2>2. CASE CanOpen(p.streams[k].file, p.streams[k].mode)
    BY <1>2, <1>5, <2>1, <2>2, SMTT(60) DEF CanOpen, READ, WRITE, LIST
  <2>3. CASE /\ k \in 1 .. Len(Current.streams)
             /\ p.streams[k].mode = Current.streams[k].mode
             /\ p.streams[k].file = Current.streams[k].file
    BY <1>1, <1>2, <1>5, <2>1, <2>3, SMTT(60) DEF WriterExclusive
  <2>4. QED
    BY <1>5, <2>2, <2>3 DEF ExclusiveAt
<1>6. ASSUME NEW i \in 1 .. Depth, NEW j \in 1 .. Depth,
             NEW l \in 1 .. Len(procs'[i].streams),
             NEW m \in 1 .. Len(procs'[j].streams),
             procs'[i].streams[l].mode = WRITE,
             procs'[j].streams[m].mode \in {READ, WRITE},
             procs'[i].streams[l].file = procs'[j].streams[m].file
      PROVE  <<i, l>> = <<j, m>>
  <2>1. CASE <<i, l>> = <<Depth, k>>
    BY <1>3, <1>5, <1>6, <2>1 DEF READ, WRITE
  <2>2. CASE <<i, l>> # <<Depth, k>> /\ <<j, m>> = <<Depth, k>>
    BY <1>3, <1>5, <1>6, <2>2 DEF READ, WRITE
  <2>3. CASE <<i, l>> # <<Depth, k>> /\ <<j, m>> # <<Depth, k>>
    <3>1. /\ l \in 1 .. Len(procs[i].streams) /\ m \in 1 .. Len(procs[j].streams)
          /\ procs'[i].streams[l] = procs[i].streams[l]
          /\ procs'[j].streams[m] = procs[j].streams[m]
      BY <1>4, <2>3
    <3>2. /\ procs[i].streams[l].mode = WRITE
          /\ procs[j].streams[m].mode \in {READ, WRITE}
          /\ procs[i].streams[l].file = procs[j].streams[m].file
      BY <1>6, <3>1
    <3>3. /\ i \in DOMAIN procs /\ j \in DOMAIN procs
          /\ l \in DOMAIN procs[i].streams /\ m \in DOMAIN procs[j].streams
      BY <1>2, <3>1
    <3>4. QED
      BY <1>1, <3>2, <3>3, Zenon DEF WriterExclusive
  <2>4. QED
    BY <2>1, <2>2, <2>3
<1>7. QED
  BY <1>3, <1>6 DEF WriterExclusive

LEMMA SoundStep ==
  ASSUME KernelInvariant, mode = "user", NEW p, Replaces(p),
         NEW r \in Int, Succeed(p, r), NEW k, DiffersAt(p, k),
         k \in 1 .. Len(p.streams) => SoundIn(files', p.streams[k]),
         \A i \in DOMAIN procs : \A l \in DOMAIN procs[i].streams :
           SoundIn(files', procs[i].streams[l])
  PROVE  StreamsSound'
<1>1. /\ procs \in Seq(Process) /\ Depth > 0 /\ p \in Process
  BY DEF KernelInvariant, TypeOK, Depth, Replaces
<1>2. /\ DOMAIN procs = 1 .. Depth /\ Depth \in 1 .. Depth /\ Current = procs[Depth]
      /\ \A i \in 1 .. Depth : DOMAIN procs[i].streams = 1 .. Len(procs[i].streams)
  BY <1>1, StreamsBefore
<1>3. /\ DOMAIN procs' = 1 .. Depth
      /\ procs'[Depth].streams = p.streams
      /\ \A i \in 1 .. Depth : i # Depth => procs'[i].streams = procs[i].streams
      /\ \A i \in 1 .. Depth : DOMAIN procs'[i].streams = 1 .. Len(procs'[i].streams)
  BY <1>1, StreamsAfterCall
<1>4. ASSUME NEW i \in 1 .. Depth, NEW l \in 1 .. Len(procs'[i].streams)
      PROVE  SoundIn(files', procs'[i].streams[l])
  <2>1. CASE i # Depth
    BY <1>2, <1>3, <2>1
  <2>2. CASE i = Depth /\ l = k
    BY <1>3, <2>2
  <2>3. CASE i = Depth /\ l # k
    BY <1>2, <1>3, <2>3 DEF DiffersAt
  <2>4. QED
    BY <2>1, <2>2, <2>3
<1>5. QED
  BY <1>3, <1>4 DEF StreamsSound, Streams

-----------------------------------------------------------------------------
(***************************************************************************)
(* How the file store changes: its type, and what streams remain sound.    *)
(***************************************************************************)

LEMMA FileFields ==
  ASSUME FS!StoreTypeOK, NEW f \in DOMAIN files
  PROVE  /\ files[f] \in FS!File
         /\ files[f].name \in Names
         /\ files[f].data \in Seq(Bytes) /\ Len(files[f].data) \in Nat
  BY DEF FS!StoreTypeOK, FS!File

LEMMA CreateFile ==
  ASSUME FS!StoreTypeOK, NEW f, NEW n \in Names, FS!Create(f, n)
  PROVE  /\ FS!StoreTypeOK'
         /\ f \in DOMAIN files' /\ f \notin DOMAIN files
         /\ \A s : SoundIn(files, s) => SoundIn(files', s)
<1>1. PICK S \in SUBSET FileIds : files \in [S -> FS!File]
  BY DEF FS!StoreTypeOK
<1>2. f \in FileIds \ S /\ DOMAIN files = S
  BY <1>1 DEF FS!Create, FS!Live
<1>3. files' \in [S \cup {f} -> FS!File]
  BY <1>1, <1>2 DEF FS!Create, FS!File, FS!Live
<1>4. \A g \in S : files'[g] = files[g]
  BY <1>2 DEF FS!Create, FS!Live
<1>5. FS!StoreTypeOK'
  BY <1>2, <1>3 DEF FS!StoreTypeOK, FS!File
<1>6. DOMAIN files' = S \cup {f}
  BY <1>3
<1>7. QED
  BY <1>2, <1>4, <1>5, <1>6 DEF SoundIn

LEMMA ClearFile ==
  ASSUME FS!StoreTypeOK, NEW f, FS!Clear(f)
  PROVE  /\ FS!StoreTypeOK'
         /\ DOMAIN files' = DOMAIN files /\ f \in DOMAIN files
         /\ \A s : SoundIn(files, s) /\ (s.mode = READ => s.file # f)
                  => SoundIn(files', s)
<1>1. PICK S \in SUBSET FileIds : files \in [S -> FS!File]
  BY DEF FS!StoreTypeOK
<1>2. f \in S /\ DOMAIN files = S
  BY <1>1 DEF FS!Clear, FS!Live
<1> DEFINE empty == <<>>
<1>3. files' = [files EXCEPT ![f].data = empty]
  BY DEF FS!Clear
<1>4. files[f] \in FS!File /\ empty \in Seq(Bytes)
  BY <1>1, <1>2
<1> HIDE DEF empty
<1>5. files' \in [S -> FS!File] /\ \A g \in S : g # f => files'[g] = files[g]
  BY <1>1, <1>2, <1>3, <1>4 DEF FS!File
<1>6. FS!StoreTypeOK' /\ DOMAIN files' = S
  BY <1>5 DEF FS!StoreTypeOK, FS!File
<1>7. ASSUME NEW s, SoundIn(files, s), s.mode = READ => s.file # f
      PROVE  SoundIn(files', s)
  BY <1>2, <1>5, <1>6, <1>7 DEF SoundIn
<1>8. QED
  BY <1>2, <1>6, <1>7

\* Bytes are added after those that the file has.
LEMMA GrowFile ==
  ASSUME FS!StoreTypeOK, NEW f \in DOMAIN files, NEW src \in Seq(Bytes),
         files' = [files EXCEPT ![f].data = @ \o src]
  PROVE  /\ FS!StoreTypeOK'
         /\ DOMAIN files' = DOMAIN files
         /\ \A s : SoundIn(files, s) /\ s.offset \in Nat => SoundIn(files', s)
<1>1. PICK S \in SUBSET FileIds : files \in [S -> FS!File]
  BY DEF FS!StoreTypeOK
<1>2. DOMAIN files = S /\ files[f] \in FS!File
  BY <1>1
<1>3. /\ files[f].data \o src \in Seq(Bytes)
      /\ Len(files[f].data \o src) = Len(files[f].data) + Len(src)
      /\ Len(files[f].data) \in Nat /\ Len(src) \in Nat
  BY <1>2 DEF FS!File
<1> DEFINE data == files[f].data \o src
<1>4. files' = [files EXCEPT ![f] = [files[f] EXCEPT !.data = data]]
  OBVIOUS
<1>5. data \in Seq(Bytes)
  BY <1>3
<1>6. Len(data) = Len(files[f].data) + Len(src)
  BY <1>3
<1> HIDE DEF data
<1>7. files' \in [S -> FS!File] /\ \A g \in S : g # f => files'[g] = files[g]
  BY <1>1, <1>2, <1>4, <1>5 DEF FS!File
<1>8. files'[f].data = data
  BY <1>1, <1>2, <1>4 DEF FS!File
<1>9. FS!StoreTypeOK' /\ DOMAIN files' = S
  BY <1>7 DEF FS!StoreTypeOK, FS!File
<1>10. ASSUME NEW s, SoundIn(files, s), s.offset \in Nat
       PROVE  SoundIn(files', s)
  <2>1. CASE s.mode = READ /\ s.file = f
    <3>1. s.offset <= Len(files[f].data)
      BY <1>10, <2>1 DEF SoundIn
    <3>2. s.offset <= Len(data)
      BY <1>3, <1>6, <1>10, <2>1, <3>1
    <3>3. QED
      BY <1>2, <1>8, <1>9, <2>1, <3>2 DEF SoundIn, READ, LIST, UNUSED, WRITE
  <2>2. CASE ~ (s.mode = READ /\ s.file = f)
    BY <1>2, <1>7, <1>9, <1>10, <2>2 DEF SoundIn
  <2>3. QED
    BY <2>1, <2>2
<1>11. QED
  BY <1>2, <1>9, <1>10

LEMMA DeleteFile ==
  ASSUME FS!StoreTypeOK, NEW f, FS!Delete(f)
  PROVE  /\ FS!StoreTypeOK'
         /\ DOMAIN files' = DOMAIN files \ {f} /\ f \in DOMAIN files
         /\ \A s : SoundIn(files, s) /\ s.file # f => SoundIn(files', s)
<1>1. PICK S \in SUBSET FileIds : files \in [S -> FS!File]
  BY DEF FS!StoreTypeOK
<1>2. f \in S /\ DOMAIN files = S
  BY <1>1 DEF FS!Delete, FS!Live
<1>3. /\ files' \in [S \ {f} -> FS!File]
      /\ \A g \in S : g # f => files'[g] = files[g]
  BY <1>1, <1>2 DEF FS!Delete, FS!Live, FS!File
<1>4. FS!StoreTypeOK' /\ DOMAIN files' = S \ {f}
  BY <1>3 DEF FS!StoreTypeOK, FS!File
<1>5. ASSUME NEW s, SoundIn(files, s), s.file # f
      PROVE  SoundIn(files', s)
  BY <1>2, <1>3, <1>4, <1>5 DEF SoundIn
<1>6. QED
  BY <1>2, <1>4, <1>5

-----------------------------------------------------------------------------
(***************************************************************************)
(* The calls that replace the record of the current process, by what they  *)
(* replace in it.                                                          *)
(***************************************************************************)

LEMMA CallStep ==
  ASSUME KernelInvariant, mode = "user", NEW p, Replaces(p),
         NEW r \in Int, Succeed(p, r), NEW k, DiffersAt(p, k), ExclusiveAt(p, k),
         heap' = Current.base + ProcessSize + StreamSize * Len(p.streams),
         heap' <= HeapUnits, FS!StoreTypeOK',
         k \in 1 .. Len(p.streams) => SoundIn(files', p.streams[k]),
         \A i \in DOMAIN procs : \A l \in DOMAIN procs[i].streams :
           SoundIn(files', procs[i].streams[l])
  PROVE  KernelInvariant'
  BY LocalStep, ExclusiveStep, SoundStep DEF KernelInvariant

\* What the calls below use of the invariant.
LEMMA Facts ==
  ASSUME KernelInvariant, mode = "user"
  PROVE  /\ procs \in Seq(Process) /\ Depth \in Nat /\ Depth > 0
         /\ Current \in Process
         /\ Current.streams \in Seq(Stream) /\ Len(Current.streams) \in Nat
         /\ DOMAIN Current.streams = 1 .. Len(Current.streams)
         /\ heap = Current.base + ProcessSize + StreamSize * Len(Current.streams)
         /\ heap \in Nat /\ heap <= HeapUnits
         /\ FS!StoreTypeOK
         /\ \A i \in DOMAIN procs : \A l \in DOMAIN procs[i].streams :
              /\ SoundIn(files, procs[i].streams[l])
              /\ procs[i].streams[l] \in Stream
<1>1. TypeOK /\ HeapExact /\ StreamsSound /\ Depth > 0 /\ procs \in Seq(Process)
  BY DEF KernelInvariant, TypeOK, Depth
<1>2. Depth \in Nat /\ Current \in Process
  BY <1>1, ProcsAreProcesses
<1>3. /\ Current.streams \in Seq(Stream) /\ Len(Current.streams) \in Nat
      /\ DOMAIN Current.streams = 1 .. Len(Current.streams)
  BY <1>2, ProcessFields
<1>4. heap = Current.base + ProcessSize + StreamSize * Len(Current.streams)
  BY <1>1, HeapTop
<1>5. ASSUME NEW i \in DOMAIN procs, NEW l \in DOMAIN procs[i].streams
      PROVE  SoundIn(files, procs[i].streams[l]) /\ procs[i].streams[l] \in Stream
  <2>1. procs[i].streams \in Seq(Stream)
    BY <1>1, ProcsAreProcesses, ProcessFields
  <2>2. procs[i].streams[l] \in Stream
    BY <2>1
  <2>3. QED
    BY <1>1, <2>2 DEF StreamsSound, Streams
<1>6. QED
  BY <1>1, <1>2, <1>3, <1>4, <1>5 DEF TypeOK, HeapExact

\* The streams and the files are unchanged.
LEMMA LocalCall ==
  ASSUME KernelInvariant, mode = "user", NEW p, Replaces(p),
         p.streams = Current.streams, NEW r \in Int, Local(p, r)
  PROVE  KernelInvariant'
<1>1. Succeed(p, r) /\ heap' = heap /\ files' = files
  BY DEF Local
<1>2. DiffersAt(p, 0) /\ ExclusiveAt(p, 0) /\ ~ 0 \in 1 .. Len(p.streams)
  BY Facts DEF DiffersAt, ExclusiveAt
<1>3. FS!StoreTypeOK'
  BY <1>1, Facts DEF FS!StoreTypeOK, FS!File
<1>4. /\ heap' = Current.base + ProcessSize + StreamSize * Len(p.streams)
      /\ heap' <= HeapUnits
      /\ \A i \in DOMAIN procs : \A l \in DOMAIN procs[i].streams :
           SoundIn(files', procs[i].streams[l])
  BY <1>1, Facts
<1>5. QED
  BY <1>1, <1>2, <1>3, <1>4, CallStep

LEMMA FailCall ==
  ASSUME KernelInvariant, mode = "user", NEW e \in Nat, Fail(e)
  PROVE  KernelInvariant'
<1>1. Replaces(Current)
  BY Facts DEF Replaces
<1>2. Local(Current, Error(e)) /\ Error(e) \in Int
  BY Facts, ReturnError
<1>3. QED
  BY <1>1, <1>2, LocalCall

\* A record with other streams in place of its own.
LEMMA WithStreams ==
  ASSUME NEW q \in Process, NEW ss \in Seq(Stream)
  PROVE  LET p == [q EXCEPT !.streams = ss]
         IN  /\ p \in Process /\ p.streams = ss
             /\ p.begin = q.begin /\ p.end = q.end /\ p.base = q.base
             /\ p.output = q.output /\ p.outputLimit = q.outputLimit
  BY DEF Process

\* Stream k, which may be new, is set to s, and the other ones are unchanged.
LEMMA StreamCall ==
  ASSUME KernelInvariant, mode = "user",
         NEW ss \in Seq(Stream), NEW k \in 1 .. Len(ss), NEW s, ss[k] = s,
         \A l \in 1 .. Len(ss) :
           l # k => l \in 1 .. Len(Current.streams) /\ ss[l] = Current.streams[l],
         s.mode \in {READ, WRITE} =>
           \/ CanOpen(s.file, s.mode)
           \/ /\ k \in 1 .. Len(Current.streams)
              /\ s.mode = Current.streams[k].mode
              /\ s.file = Current.streams[k].file,
         NEW r \in Int, Succeed([Current EXCEPT !.streams = ss], r),
         heap' = Current.base + ProcessSize + StreamSize * Len(ss),
         heap' <= HeapUnits, FS!StoreTypeOK', SoundIn(files', s),
         \A i \in DOMAIN procs : \A l \in DOMAIN procs[i].streams :
           SoundIn(files', procs[i].streams[l])
  PROVE  KernelInvariant'
<1> DEFINE p == [Current EXCEPT !.streams = ss]
<1>1. p.streams = ss /\ Replaces(p)
  BY Facts, WithStreams DEF Replaces
<1>2. Succeed(p, r)
  OBVIOUS
<1> HIDE DEF p
<1>3. DiffersAt(p, k) /\ ExclusiveAt(p, k)
  BY <1>1 DEF DiffersAt, ExclusiveAt
<1>4. QED
  BY <1>1, <1>2, <1>3, CallStep

\* Stream number id is replaced by s.
LEMMA SetStreamCall ==
  ASSUME KernelInvariant, mode = "user", NEW id, IsOpen(id),
         NEW s \in Stream, SoundIn(files, s),
         s.mode \in {READ, WRITE} =>
           /\ s.mode = Current.streams[Slot(id)].mode
           /\ s.file = Current.streams[Slot(id)].file,
         NEW r \in Int, Local(SetStream(id, s), r)
  PROVE  KernelInvariant'
<1> DEFINE k == Slot(id)
           ss == [Current.streams EXCEPT ![k] = s]
<1>1. k \in 1 .. Len(Current.streams)
  BY Facts DEF IsOpen
<1>2. s.mode \in {READ, WRITE} => /\ s.mode = Current.streams[k].mode
                                  /\ s.file = Current.streams[k].file
  OBVIOUS
<1>3. /\ Succeed([Current EXCEPT !.streams = ss], r)
      /\ heap' = heap /\ files' = files
  BY DEF SetStream, Local
<1> HIDE DEF k
<1>4. /\ ss \in Seq(Stream) /\ Len(ss) = Len(Current.streams) /\ ss[k] = s
      /\ \A l \in 1 .. Len(ss) : l # k => ss[l] = Current.streams[l]
  BY <1>1, Facts, ExceptSeq
<1> HIDE DEF ss
<1>5. FS!StoreTypeOK'
  BY <1>3, Facts DEF FS!StoreTypeOK, FS!File
<1>6. /\ heap' = Current.base + ProcessSize + StreamSize * Len(ss)
      /\ heap' <= HeapUnits /\ SoundIn(files', s)
      /\ \A i \in DOMAIN procs : \A l \in DOMAIN procs[i].streams :
           SoundIn(files', procs[i].streams[l])
  BY <1>3, <1>4, Facts
<1>7. QED
  BY <1>1, <1>2, <1>3, <1>4, <1>5, <1>6, StreamCall

\* The first unused stream is replaced by s, or s is a new stream.
LEMMA UseSlotCall ==
  ASSUME KernelInvariant, mode = "user",
         NEW k \in 1 .. Len(Current.streams) + 1,
         NewSlot(k) => heap + StreamSize <= HeapUnits,
         NEW s \in Stream, s.mode \in {READ, WRITE} => CanOpen(s.file, s.mode),
         NEW r \in Int, UseSlot(k, s, r),
         FS!StoreTypeOK', SoundIn(files', s),
         \A i \in DOMAIN procs : \A l \in DOMAIN procs[i].streams :
           SoundIn(files', procs[i].streams[l])
  PROVE  KernelInvariant'
<1> DEFINE n == Len(Current.streams)
<1>1. n \in Nat /\ (NewSlot(k) <=> k > n)
  BY Facts DEF NewSlot
<1>2. CASE NewSlot(k)
  <2> DEFINE ss == Append(Current.streams, s)
  <2>1. Succeed([Current EXCEPT !.streams = ss], r) /\ heap' = heap + StreamSize
    BY <1>2 DEF UseSlot
  <2>2. k = n + 1 /\ heap' <= HeapUnits
    BY <1>1, <1>2, <2>1
  <2>3. /\ ss \in Seq(Stream) /\ Len(ss) = n + 1 /\ ss[k] = s
        /\ \A l \in 1 .. n : ss[l] = Current.streams[l]
    BY <2>2, Facts, AppendProperties
  <2> HIDE DEF ss
  <2>4. k \in 1 .. Len(ss)
        /\ \A l \in 1 .. Len(ss) :
             l # k => l \in 1 .. n /\ ss[l] = Current.streams[l]
    <3> HIDE DEF n
    <3> QED BY <1>1, <2>2, <2>3
  <2>5. heap' = Current.base + ProcessSize + StreamSize * Len(ss)
    <3> DEFINE base == Current.base
    <3>1. base \in Nat /\ heap = base + ProcessSize + StreamSize * n
      BY Facts, ProcessFields
    <3> HIDE DEF n, base
    <3>2. heap' = base + ProcessSize + StreamSize * (n + 1)
      BY <1>1, <2>1, <3>1 DEF ProcessSize, StreamSize
    <3>3. QED
      BY <2>3, <3>2 DEF base
  <2>6. QED
    BY <2>1, <2>2, <2>3, <2>4, <2>5, StreamCall
<1>3. CASE ~ NewSlot(k)
  <2> DEFINE ss == [Current.streams EXCEPT ![k] = s]
  <2>1. Succeed([Current EXCEPT !.streams = ss], r) /\ heap' = heap
    BY <1>3 DEF UseSlot
  <2>2. k \in 1 .. n
    BY <1>1, <1>3
  <2>3. /\ ss \in Seq(Stream) /\ Len(ss) = n /\ ss[k] = s
        /\ \A l \in 1 .. n : l # k => ss[l] = Current.streams[l]
    BY <2>2, Facts, ExceptSeq
  <2> HIDE DEF ss
  <2>4. heap' = Current.base + ProcessSize + StreamSize * Len(ss)
        /\ heap' <= HeapUnits
    BY <2>1, <2>3, Facts
  <2>5. QED
    BY <2>1, <2>2, <2>3, <2>4, StreamCall
<1>4. QED
  BY <1>2, <1>3

-----------------------------------------------------------------------------
(***************************************************************************)
(* open.                                                                   *)
(***************************************************************************)

\* The file store, with what every stream in use says of it, when no file
\* changes.
LEMMA FilesUnchanged ==
  ASSUME KernelInvariant, mode = "user", UNCHANGED files
  PROVE  /\ FS!StoreTypeOK'
         /\ \A s : SoundIn(files', s) <=> SoundIn(files, s)
         /\ \A i \in DOMAIN procs : \A l \in DOMAIN procs[i].streams :
              SoundIn(files', procs[i].streams[l])
<1>1. FS!StoreTypeOK'
  BY Facts DEF FS!StoreTypeOK, FS!File
<1>2. QED
  BY <1>1, Facts

LEMMA FileIdsAreNumbers ==
  ASSUME FS!StoreTypeOK
  PROVE  FS!Live \subseteq FileIds /\ FileIds \subseteq Nat \ {FS!NoFile}
  BY KernelAssumption
     DEF FS!StoreTypeOK, FS!Live, KernelAssumption, FS!StoreAssumption

LEMMA OpenFails ==
  ASSUME KernelInvariant, mode = "user",
         NEW k \in 1 .. Len(Current.streams) + 1,
         NewSlot(k) => heap + StreamSize <= HeapUnits,
         NEW e \in Nat, OpenFailure(k, e)
  PROVE  KernelInvariant'
<1>1. /\ Unused \in Stream /\ Unused.mode \notin {READ, WRITE}
      /\ SoundIn(files', Unused)
  BY DEF Unused, Stream, Modes, UNUSED, LIST, READ, WRITE, SoundIn, FS!NoFile
<1>2. /\ UseSlot(k, Unused, Error(e)) /\ UNCHANGED files /\ Error(e) \in Int
  BY DEF OpenFailure, Error
<1>3. QED
  BY <1>1, <1>2, FilesUnchanged, UseSlotCall

LEMMA OpenSucceeds ==
  ASSUME KernelInvariant, mode = "user",
         NEW k \in 1 .. Len(Current.streams) + 1,
         NewSlot(k) => heap + StreamSize <= HeapUnits,
         NEW m \in {LIST, READ, WRITE}, NEW f \in Nat, OpenSuccess(k, m, f),
         m \in {READ, WRITE} => CanOpen(f, m),
         FS!StoreTypeOK',
         m = LIST => f \in DOMAIN files' \cup {FS!NoFile},
         m # LIST => f \in DOMAIN files',
         m = READ => 0 <= Len(files'[f].data),
         \A i \in DOMAIN procs : \A l \in DOMAIN procs[i].streams :
           SoundIn(files', procs[i].streams[l])
  PROVE  KernelInvariant'
<1> DEFINE s == [mode |-> m, file |-> f, offset |-> 0]
<1>1. s \in Stream /\ s.mode = m /\ s.file = f /\ s.offset = 0
  BY DEF Stream, Modes
<1>2. UseSlot(k, s, StreamId(k)) /\ StreamId(k) \in Int
  BY Facts DEF OpenSuccess, StreamId, FIRST_FILE_STREAM_ID
<1> HIDE DEF s
<1>3. SoundIn(files', s)
  BY <1>1 DEF SoundIn, UNUSED, LIST, READ, WRITE
<1>4. QED
  BY <1>1, <1>2, <1>3, UseSlotCall

LEMMA OpenListCall ==
  ASSUME KernelInvariant, mode = "user",
         NEW k \in 1 .. Len(Current.streams) + 1,
         NewSlot(k) => heap + StreamSize <= HeapUnits,
         NEW m, OpenList(k, m)
  PROVE  KernelInvariant'
<1>1. CASE OpenFailure(k, INVALID_ARGUMENT)
  BY <1>1, OpenFails DEF INVALID_ARGUMENT
<1>2. CASE /\ \E f \in FS!Live \cup {FS!NoFile} : OpenSuccess(k, LIST, f)
           /\ UNCHANGED files
  <2>1. PICK f \in FS!Live \cup {FS!NoFile} : OpenSuccess(k, LIST, f)
    BY <1>2
  <2>2. f \in Nat /\ f \in DOMAIN files' \cup {FS!NoFile}
    BY <1>2, Facts, FileIdsAreNumbers DEF FS!Live, FS!NoFile
  <2>3. LIST \notin {READ, WRITE}
    BY DEF LIST, READ, WRITE
  <2>4. QED
    BY <1>2, <2>1, <2>2, <2>3, FilesUnchanged, OpenSucceeds
<1>3. QED
  BY <1>1, <1>2 DEF OpenList

\* No stream reads or writes a file that does not exist.
LEMMA NewFileCanOpen ==
  ASSUME KernelInvariant, mode = "user", NEW f, f \notin DOMAIN files, f # FS!NoFile
  PROVE  CanOpen(f, WRITE)
<1>1. ASSUME NEW i \in DOMAIN procs, NEW l \in DOMAIN procs[i].streams,
             procs[i].streams[l].file = f, procs[i].streams[l].mode # LIST
      PROVE  FALSE
  <2>1. SoundIn(files, procs[i].streams[l]) /\ procs[i].streams[l].mode \in Modes
    BY Facts DEF Stream
  <2>2. QED
    BY <1>1, <2>1 DEF SoundIn, Modes
<1>2. QED
  BY <1>1 DEF CanOpen

LEMMA OpenMissingCall ==
  ASSUME KernelInvariant, mode = "user",
         NEW k \in 1 .. Len(Current.streams) + 1,
         NewSlot(k) => heap + StreamSize <= HeapUnits,
         NEW n, NEW m, OpenMissing(k, n, m)
  PROVE  KernelInvariant'
<1>1. CASE \E e \in {NOT_FOUND, INVALID_ARGUMENT, OUT_OF_MEMORY} : OpenFailure(k, e)
  BY <1>1, OpenFails DEF NOT_FOUND, INVALID_ARGUMENT, OUT_OF_MEMORY
<1>2. CASE n \in ValidNames
           /\ \E f \in FileIds : FS!Create(f, n) /\ OpenSuccess(k, WRITE, f)
  <2>1. PICK f \in FileIds : FS!Create(f, n) /\ OpenSuccess(k, WRITE, f)
    BY <1>2
  <2>2. n \in Names
    BY <1>2, KernelAssumption DEF KernelAssumption
  <2>3. /\ FS!StoreTypeOK' /\ f \in DOMAIN files' /\ f \notin DOMAIN files
        /\ \A s : SoundIn(files, s) => SoundIn(files', s)
    BY <2>1, <2>2, Facts, CreateFile
  <2>4. f \in Nat /\ CanOpen(f, WRITE)
    BY <2>3, Facts, FileIdsAreNumbers, NewFileCanOpen
  <2>5. WRITE # LIST /\ WRITE # READ
    BY DEF LIST, READ, WRITE
  <2>6. QED
    BY <2>1, <2>3, <2>4, <2>5, Facts, OpenSucceeds
<1>3. QED
  BY <1>1, <1>2 DEF OpenMissing

LEMMA OpenExistingCall ==
  ASSUME KernelInvariant, mode = "user",
         NEW k \in 1 .. Len(Current.streams) + 1,
         NewSlot(k) => heap + StreamSize <= HeapUnits,
         NEW f \in FS!Live, NEW m \in {READ, WRITE}, OpenExisting(k, f, m)
  PROVE  KernelInvariant'
<1>1. f \in Nat /\ LIST \notin {READ, WRITE} /\ READ # WRITE
  BY Facts, FileIdsAreNumbers DEF LIST, READ, WRITE
<1>2. CASE OpenFailure(k, INVALID_STATE)
  BY <1>2, OpenFails DEF INVALID_STATE
<1>3. CASE CanOpen(f, m) /\ OpenSuccess(k, m, f) /\ m = WRITE /\ FS!Clear(f)
  <2>1. /\ FS!StoreTypeOK' /\ f \in DOMAIN files'
        /\ \A s : SoundIn(files, s) /\ (s.mode = READ => s.file # f)
                 => SoundIn(files', s)
    BY <1>3, Facts, ClearFile
  <2>2. ASSUME NEW i \in DOMAIN procs, NEW l \in DOMAIN procs[i].streams
        PROVE  SoundIn(files', procs[i].streams[l])
    <3>1. procs[i].streams[l].mode = READ => procs[i].streams[l].file # f
      BY <1>1, <1>3 DEF CanOpen
    <3>2. QED
      BY <2>1, <3>1, Facts
  <2>3. QED
    BY <1>1, <1>3, <2>1, <2>2, OpenSucceeds
<1>4. CASE CanOpen(f, m) /\ OpenSuccess(k, m, f) /\ m = READ /\ UNCHANGED files
  <2>1. f \in DOMAIN files' /\ 0 <= Len(files'[f].data)
    BY <1>4, Facts, FileFields DEF FS!Live
  <2>2. QED
    BY <1>1, <1>4, <2>1, FilesUnchanged, OpenSucceeds
<1>5. QED
  BY <1>1, <1>2, <1>3, <1>4 DEF OpenExisting

LEMMA OpenStep ==
  ASSUME KernelInvariant, NEW n, NEW b, NEW m, Open(n, b, m)
  PROVE  KernelInvariant'
<1>1. mode = "user"
  BY DEF Open
<1>2. CASE \E e \in {INVALID_ARGUMENT, OUT_OF_MEMORY} : Fail(e)
  BY <1>1, <1>2, FailCall DEF INVALID_ARGUMENT, OUT_OF_MEMORY
<1>3. CASE \E k \in 1 .. Len(Current.streams) + 1 :
             /\ NewSlot(k) => heap + StreamSize <= HeapUnits
             /\ m \in {READ, WRITE}
             /\ \/ OpenList(k, m)
                \/ OpenMissing(k, n, m)
                \/ \E f \in FS!Live : OpenExisting(k, f, m)
  BY <1>1, <1>3, OpenListCall, OpenMissingCall, OpenExistingCall
<1>4. heap + StreamSize > HeapUnits \/ heap + StreamSize <= HeapUnits
  BY <1>1, Facts, KernelAssumption DEF KernelAssumption, StreamSize
<1>5. QED
  BY <1>2, <1>3, <1>4 DEF Open

-----------------------------------------------------------------------------
(***************************************************************************)
(* read, write, close, stat, sleep and invalid calls.                      *)
(***************************************************************************)

\* A call that changes nothing but its result.
LEMMA ResultCall ==
  ASSUME KernelInvariant, mode = "user", NEW r \in Int, Local(Current, r)
  PROVE  KernelInvariant'
  BY Facts, LocalCall DEF Replaces

LEMMA MultiplesBelow ==
  ASSUME NEW x \in Nat, NEW c \in Nat \ {0}
  PROVE  (x \div c) * c \in Nat /\ (x \div c) * c <= x
  OBVIOUS

\* The data of the last block of a file is in the file.
LEMMA LastBlockInFile ==
  ASSUME NEW n \in Names, NEW len \in Nat
  PROVE  FS!LastBlockStart(n, len) \in Nat /\ FS!LastBlockStart(n, len) <= len
<1> DEFINE first == FirstChunk[n]
<1>1. first \in Nat /\ Chunk \in Nat \ {0}
  BY KernelAssumption DEF KernelAssumption, FS!StoreAssumption
<1>2. CASE len <= first
  BY <1>2 DEF FS!LastBlockStart
<1>3. CASE len > first
  <2> DEFINE x == len - first - 1
             y == (x \div Chunk) * Chunk
  <2> HIDE DEF first
  <2>1. x \in Nat
    BY <1>1, <1>3
  <2>2. first + x < len
    BY <1>1
  <2> HIDE DEF x
  <2>3. y \in Nat /\ y <= x
    BY <1>1, <2>1, MultiplesBelow
  <2> HIDE DEF y
  <2>4. first + y \in Nat /\ first + y <= len
    BY <1>1, <2>1, <2>2, <2>3
  <2>5. FS!LastBlockStart(n, len) = first + y
    BY <1>1, <1>3 DEF FS!LastBlockStart, first, x, y
  <2>6. QED
    BY <2>4, <2>5
<1>4. QED
  BY <1>1, <1>2, <1>3

\* An open stream is a sound one of the current process.
LEMMA OpenStream ==
  ASSUME KernelInvariant, mode = "user", NEW id, IsOpen(id)
  PROVE  /\ Current.streams[Slot(id)] \in Stream
         /\ SoundIn(files, Current.streams[Slot(id)])
  BY Facts, StreamsBefore DEF IsOpen

LEMMA ReadListCall ==
  ASSUME KernelInvariant, mode = "user", NEW id, IsOpen(id), NEW size \in Nat,
         Current.streams[Slot(id)].mode = LIST,
         ReadList(id, Current.streams[Slot(id)], size)
  PROVE  KernelInvariant'
<1> DEFINE s == Current.streams[Slot(id)]
<1>1. CASE Local(Current, 0)
  BY <1>1, ResultCall
<1>2. CASE \E f \in FS!Live \cup {FS!NoFile} :
             Local(SetStream(id, [s EXCEPT !.file = f]), Smaller(size, 1))
  <2>1. PICK f \in FS!Live \cup {FS!NoFile} :
               Local(SetStream(id, [s EXCEPT !.file = f]), Smaller(size, 1))
    BY <1>2
  <2>2. f \in Nat /\ f \in DOMAIN files \cup {FS!NoFile} /\ Smaller(size, 1) \in Int
    BY Facts, FileIdsAreNumbers DEF FS!Live, FS!NoFile, Smaller
  <2> DEFINE t == [s EXCEPT !.file = f]
  <2>3. s \in Stream /\ s.mode = LIST
    BY OpenStream
  <2> HIDE DEF s
  <2>4. t \in Stream /\ t.mode = LIST /\ t.file = f
    BY <2>2, <2>3 DEF Stream
  <2> HIDE DEF t
  <2>5. SoundIn(files, t) /\ t.mode \notin {READ, WRITE}
    BY <2>2, <2>4 DEF SoundIn, UNUSED, LIST, READ, WRITE
  <2>6. Local(SetStream(id, t), Smaller(size, 1))
    BY <2>1 DEF t
  <2>7. QED
    BY <2>2, <2>4, <2>5, <2>6, SetStreamCall
<1>3. QED
  BY <1>1, <1>2 DEF ReadList

LEMMA ReadFileCall ==
  ASSUME KernelInvariant, mode = "user", NEW id, IsOpen(id), NEW size \in Nat,
         Current.streams[Slot(id)].mode = READ,
         ReadFile(id, Current.streams[Slot(id)], size)
  PROVE  KernelInvariant'
<1> DEFINE s == Current.streams[Slot(id)]
           file == files[s.file]
           len == Len(file.data)
           last == FS!LastBlockStart(file.name, len)
<1>1. s \in Stream /\ SoundIn(files, s) /\ s.mode = READ
  BY OpenStream
<1>2. s.file \in DOMAIN files /\ s.offset \in Nat /\ s.offset <= len
  BY <1>1 DEF SoundIn, Stream
<1>3. len \in Nat /\ last \in Nat /\ last <= len
  BY <1>2, Facts, FileFields, LastBlockInFile
<1>4. ASSUME NEW offset \in Nat, offset <= len, NEW r \in Int,
             Local(SetStream(id, [s EXCEPT !.offset = offset]), r)
      PROVE  KernelInvariant'
  <2> DEFINE t == [s EXCEPT !.offset = offset]
  <2> HIDE DEF s
  <2>1. t \in Stream /\ t.mode = READ /\ t.file = s.file /\ t.offset = offset
    BY <1>1, <1>4 DEF Stream
  <2> HIDE DEF t
  <2>2. SoundIn(files, t)
    BY <1>2, <1>4, <2>1 DEF SoundIn, UNUSED, LIST, READ, WRITE
  <2>3. Local(SetStream(id, t), r)
    BY <1>4 DEF t
  <2>4. QED
    BY <1>1, <2>1, <2>2, <2>3, SetStreamCall DEF s
<1>5. \/ size <= len - s.offset
         /\ Local(SetStream(id, [s EXCEPT !.offset = s.offset + size]), size)
      \/ Local(SetStream(id, [s EXCEPT !.offset = Larger(s.offset, last)]),
               len - s.offset)
  BY DEF ReadFile
<1> HIDE DEF s, len, last
<1>6. CASE size <= len - s.offset
           /\ Local(SetStream(id, [s EXCEPT !.offset = s.offset + size]), size)
  BY <1>2, <1>3, <1>4, <1>6
<1>7. CASE Local(SetStream(id, [s EXCEPT !.offset = Larger(s.offset, last)]),
                 len - s.offset)
  <2>1. Larger(s.offset, last) \in Nat /\ Larger(s.offset, last) <= len
    BY <1>2, <1>3 DEF Larger
  <2>2. QED
    BY <1>2, <1>3, <1>4, <1>7, <2>1
<1>8. QED
  BY <1>5, <1>6, <1>7

LEMMA ReadStep ==
  ASSUME KernelInvariant, NEW id \in StreamIds, NEW b \in Buffers, Read(id, b)
  PROVE  KernelInvariant'
<1>1. mode = "user" /\ b.size \in Nat
  BY KernelAssumption DEF Read, KernelAssumption
<1>2. ReadStatus(id, b) \in Nat
  BY DEF ReadStatus, OK, INVALID_ARGUMENT, INVALID_STATE, NOT_FOUND
<1>3. CASE Fail(ReadStatus(id, b))
  BY <1>1, <1>2, <1>3, FailCall
<1>4. CASE Local(Current, 1)
  BY <1>1, <1>4, ResultCall
<1>5. CASE ReadStatus(id, b) = OK /\ id >= FIRST_FILE_STREAM_ID
           /\ \/ /\ Current.streams[Slot(id)].mode = LIST
                 /\ ReadList(id, Current.streams[Slot(id)], b.size)
              \/ /\ Current.streams[Slot(id)].mode = READ
                 /\ ReadFile(id, Current.streams[Slot(id)], b.size)
  <2>1. id \in Nat
    BY KernelAssumption DEF KernelAssumption
  <2>2. IsOpen(id)
    BY <1>5, <2>1
       DEF ReadStatus, OK, INVALID_ARGUMENT, INVALID_STATE, NOT_FOUND, KEYBOARD,
           STANDARD_INPUT, STANDARD_OUTPUT, GPU, FIRST_FILE_STREAM_ID
  <2>3. QED
    BY <1>1, <1>5, <2>2, ReadListCall, ReadFileCall
<1>6. QED
  BY <1>3, <1>4, <1>5 DEF Read

\* A step that only changes mode, as long as there are processes.
LEMMA ModeStep ==
  ASSUME KernelInvariant, Depth > 0, mode' \in {"user", "fault", "lost"},
         UNCHANGED <<procs, heap, userPages, userTables, honest, files>>
  PROVE  KernelInvariant'
<1>1. Depth' = Depth /\ Depth \in Nat /\ Current' = Current
      /\ Accessible' = Accessible
  BY DEF KernelInvariant, TypeOK, Depth, Current, Accessible
<1>2. TypeOK'
  BY <1>1 DEF KernelInvariant, TypeOK, TablesOf, FS!StoreTypeOK, FS!File
<1>3. /\ WriterExclusive' /\ StreamsSound' /\ RegionsNested' /\ HeapExact'
  BY <1>1 DEF KernelInvariant, WriterExclusive, StreamsSound, RegionsNested,
       Nested, HeapExact, Streams
<1>4. UserBitsExact'
  BY <1>1 DEF KernelInvariant, UserBitsExact, PagesOf
<1>5. QED
  BY <1>2, <1>3, <1>4 DEF KernelInvariant

\* What follows when memory that no process owns is damaged is left open.
LEMMA LoseStep ==
  ASSUME KernelInvariant, mode = "user", Lose
  PROVE  KernelInvariant'
  BY Facts, ModeStep DEF Lose

\* The output goes in the part of the buffer that is still to be filled.
LEMMA KnownOutputCall ==
  ASSUME KernelInvariant, mode = "user", NEW size \in Nat, OutputKnown,
         WriteOutput(size)
  PROVE  KernelInvariant'
<1> DEFINE n == Smaller(size, Current.outputLimit - Current.output)
           p == [Current EXCEPT !.output = Current.output + n]
<1>1. Local(p, n)
  BY DEF WriteOutput
<1>2. /\ Current.output \in Nat /\ Current.outputLimit \in Nat
      /\ Current.output <= Current.outputLimit
  <2>1. Depth \in 2 .. Depth /\ RegionsNested /\ Current = procs[Depth] /\ honest
    BY Facts DEF KernelInvariant, Current, OutputKnown
  <2>2. Current.output <= Current.outputLimit
    BY <2>1 DEF RegionsNested, Nested
  <2>3. QED
    BY <2>2, Facts, ProcessFields
<1>3. n \in Nat /\ Current.output + n <= Current.outputLimit
  BY <1>2 DEF Smaller
<1> HIDE DEF n
<1>4. Replaces(p) /\ p.streams = Current.streams
  <2>1. Current \in Process /\ Current.output + n \in Nat
    BY <1>2, <1>3, Facts
  <2>2. /\ p \in Process /\ p.output = Current.output + n
        /\ p.begin = Current.begin /\ p.end = Current.end
        /\ p.base = Current.base /\ p.outputLimit = Current.outputLimit
        /\ p.streams = Current.streams
    BY <2>1 DEF Process
  <2> HIDE DEF p
  <2>3. Current.output <= p.output /\ p.output <= p.outputLimit
    BY <1>2, <1>3, <2>2
  <2>4. QED
    BY <2>2, <2>3 DEF Replaces
<1> HIDE DEF p
<1>5. QED
  BY <1>1, <1>3, <1>4, LocalCall

LEMMA WriteOutputCall ==
  ASSUME KernelInvariant, mode = "user", NEW size \in Nat, WriteOutput(size)
  PROVE  KernelInvariant'
<1>1. ASSUME NEW n \in 0 .. size, Local(Current, n)
      PROVE  KernelInvariant'
  BY <1>1, ResultCall
<1>2. CASE Lose
  BY <1>2, LoseStep
<1>3. CASE OutputKnown
  BY <1>3, KnownOutputCall DEF WriteOutput
<1>4. QED
  BY <1>1, <1>2, <1>3 DEF WriteOutput

\* A call that changes nothing but a file, and only adds bytes to it.
LEMMA GrowCall ==
  ASSUME KernelInvariant, mode = "user", NEW r \in Int, Succeed(Current, r),
         UNCHANGED heap, NEW f \in DOMAIN files, NEW src \in Seq(Bytes),
         files' = [files EXCEPT ![f].data = @ \o src]
  PROVE  KernelInvariant'
<1>1. /\ FS!StoreTypeOK'
      /\ \A s : SoundIn(files, s) /\ s.offset \in Nat => SoundIn(files', s)
  BY Facts, GrowFile
<1>2. \A i \in DOMAIN procs : \A l \in DOMAIN procs[i].streams :
        SoundIn(files', procs[i].streams[l])
  BY <1>1, Facts DEF Stream
<1>3. DiffersAt(Current, 0) /\ ExclusiveAt(Current, 0) /\ Replaces(Current)
      /\ ~ 0 \in 1 .. Len(Current.streams)
  BY Facts DEF DiffersAt, ExclusiveAt, Replaces
<1>4. /\ heap' = Current.base + ProcessSize + StreamSize * Len(Current.streams)
      /\ heap' <= HeapUnits
  BY Facts
<1>5. QED
  BY <1>1, <1>2, <1>3, <1>4, CallStep

LEMMA ShortWrite ==
  ASSUME NEW src \in Seq(Bytes), NEW n \in 0 .. Len(src) - 1,
         NEW junk \in [1 .. Chunk -> Bytes]
  PROVE  SubSeq(src, 1, n) \o junk \in Seq(Bytes)
<1>1. Chunk \in Nat
  BY KernelAssumption DEF KernelAssumption, FS!StoreAssumption
<1>2. junk \in Seq(Bytes)
  BY <1>1
<1>3. SubSeq(src, 1, n) \in Seq(Bytes)
  BY SubSeqProperties
<1>4. QED
  BY <1>2, <1>3

LEMMA WriteFileCall ==
  ASSUME KernelInvariant, mode = "user", NEW f \in DOMAIN files, NEW size \in Nat,
         WriteFile(f, size)
  PROVE  KernelInvariant'
<1>1. PICK src \in Writes :
        /\ \/ FS!Extend(f, src) /\ Succeed(Current, size)
           \/ FS!ExtendShort(f, src) /\ Succeed(Current, Error(OUT_OF_MEMORY))
        /\ UNCHANGED heap
  BY DEF WriteFile
<1>2. src \in Seq(Bytes) /\ Error(OUT_OF_MEMORY) \in Int
  BY KernelAssumption
     DEF KernelAssumption, FS!StoreAssumption, Error, OUT_OF_MEMORY
<1>3. CASE FS!Extend(f, src) /\ Succeed(Current, size)
  <2>1. files' = [files EXCEPT ![f].data = @ \o src] /\ size \in Int
    BY <1>3 DEF FS!Extend
  <2>2. QED
    BY <1>1, <1>2, <1>3, <2>1, GrowCall
<1>4. CASE UNCHANGED files /\ Succeed(Current, Error(OUT_OF_MEMORY))
  BY <1>1, <1>2, <1>4, ResultCall DEF Local
<1>5. CASE /\ Succeed(Current, Error(OUT_OF_MEMORY))
           /\ \E n \in 0 .. Len(src) - 1, junk \in [1 .. Chunk -> Bytes] :
                files' = [files EXCEPT ![f].data = @ \o (SubSeq(src, 1, n) \o junk)]
  <2>1. PICK n \in 0 .. Len(src) - 1, junk \in [1 .. Chunk -> Bytes] :
          files' = [files EXCEPT ![f].data = @ \o (SubSeq(src, 1, n) \o junk)]
    BY <1>5
  <2> DEFINE more == SubSeq(src, 1, n) \o junk
  <2>2. more \in Seq(Bytes)
    BY <1>2, ShortWrite
  <2>3. files' = [files EXCEPT ![f].data = @ \o more]
    BY <2>1
  <2> HIDE DEF more
  <2>4. QED
    BY <1>1, <1>2, <1>5, <2>2, <2>3, GrowCall
<1>6. QED
  BY <1>1, <1>3, <1>4, <1>5 DEF FS!ExtendShort

LEMMA WriteStep ==
  ASSUME KernelInvariant, NEW id \in StreamIds, NEW b \in Buffers, Write(id, b)
  PROVE  KernelInvariant'
<1>1. mode = "user" /\ b.size \in Nat /\ id \in Nat
  BY KernelAssumption DEF Write, KernelAssumption
<1>2. WriteStatus(id, b) \in Nat
  BY DEF WriteStatus, OK, INVALID_ARGUMENT, INVALID_STATE, NOT_FOUND
<1>3. CASE Fail(WriteStatus(id, b))
  BY <1>1, <1>2, <1>3, FailCall
<1>4. CASE WriteOutput(b.size)
  BY <1>1, <1>4, WriteOutputCall
<1>5. CASE WriteGpu(b.size)
  <2>1. (b.size \div 3) * 3 \in Int
    BY <1>1
  <2>2. QED
    BY <1>1, <1>5, <2>1, ResultCall DEF WriteGpu
<1>6. CASE WriteStatus(id, b) = OK /\ id >= FIRST_FILE_STREAM_ID
           /\ WriteFile(Current.streams[Slot(id)].file, b.size)
  <2>1. IsOpen(id) /\ Current.streams[Slot(id)].mode = WRITE
    BY <1>1, <1>6
       DEF WriteStatus, OK, INVALID_ARGUMENT, INVALID_STATE, NOT_FOUND, KEYBOARD,
           STANDARD_INPUT, STANDARD_OUTPUT, GPU, FIRST_FILE_STREAM_ID
  <2>2. Current.streams[Slot(id)].file \in DOMAIN files
    BY <1>1, <2>1, OpenStream DEF SoundIn
  <2>3. QED
    BY <1>1, <1>6, <2>2, WriteFileCall
<1>7. QED
  BY <1>3, <1>4, <1>5, <1>6 DEF Write

LEMMA CloseStep ==
  ASSUME KernelInvariant, NEW id, Close(id)
  PROVE  KernelInvariant'
<1>1. mode = "user"
  BY DEF Close
<1>2. /\ Unused \in Stream /\ Unused.mode \notin {READ, WRITE}
      /\ SoundIn(files, Unused)
  BY DEF Unused, Stream, Modes, UNUSED, LIST, READ, WRITE, SoundIn, FS!NoFile
<1>3. CASE IsOpen(id) /\ Local(SetStream(id, Unused), OK)
  BY <1>1, <1>2, <1>3, SetStreamCall DEF OK
<1>4. CASE Fail(NOT_FOUND)
  BY <1>1, <1>4, FailCall DEF NOT_FOUND
<1>5. QED
  BY <1>3, <1>4 DEF Close

LEMMA StatStep ==
  ASSUME KernelInvariant, NEW n, NEW b, Stat(n, b)
  PROVE  KernelInvariant'
<1>1. PICK f \in FS!Live \cup {FS!NoFile} :
        IF StatStatus(f, b) = OK THEN Local(Current, Len(files[f].data))
                                 ELSE Fail(StatStatus(f, b))
  BY DEF Stat
<1>2. mode = "user" /\ StatStatus(f, b) \in Nat
  BY DEF Stat, StatStatus, OK, INVALID_ARGUMENT, NOT_FOUND
<1>3. CASE StatStatus(f, b) = OK
  <2>1. f \in DOMAIN files
    BY <1>3 DEF StatStatus, OK, INVALID_ARGUMENT, NOT_FOUND, FS!Live
  <2>2. QED
    BY <1>1, <1>2, <1>3, <2>1, Facts, FileFields, ResultCall
<1>4. CASE StatStatus(f, b) # OK
  BY <1>1, <1>2, <1>4, FailCall
<1>5. QED
  BY <1>3, <1>4

LEMMA SleepStep ==
  ASSUME KernelInvariant, Sleep
  PROVE  KernelInvariant'
  BY ResultCall DEF Sleep, OK

LEMMA BadCallStep ==
  ASSUME KernelInvariant, BadCall
  PROVE  KernelInvariant'
  BY FailCall DEF BadCall, INVALID_ARGUMENT

-----------------------------------------------------------------------------
(***************************************************************************)
(* delete, which changes the streams of all the processes.                 *)
(***************************************************************************)

Moved(ss, f, next) ==
  [k \in DOMAIN ss |->
     IF ss[k].mode = LIST /\ ss[k].file = f THEN [ss[k] EXCEPT !.file = next]
                                            ELSE ss[k]]

LEMMA MovedStreams ==
  ASSUME NEW ss \in Seq(Stream), NEW f, NEW next \in Nat
  PROVE  /\ Moved(ss, f, next) \in Seq(Stream)
         /\ DOMAIN Moved(ss, f, next) = DOMAIN ss
         /\ Len(Moved(ss, f, next)) = Len(ss)
         /\ \A k \in DOMAIN ss :
              /\ ss[k] \in Stream /\ Moved(ss, f, next)[k] \in Stream
              /\ Moved(ss, f, next)[k].mode = ss[k].mode
              /\ Moved(ss, f, next)[k].file =
                   IF ss[k].mode = LIST /\ ss[k].file = f THEN next ELSE ss[k].file
              /\ ~ (ss[k].mode = LIST /\ ss[k].file = f) =>
                   Moved(ss, f, next)[k] = ss[k]
<1> DEFINE n == Len(ss)
           t == Moved(ss, f, next)
<1>1. n \in Nat /\ DOMAIN ss = 1 .. n /\ DOMAIN t = 1 .. n
  BY DEF Moved
<1>2. ASSUME NEW k \in 1 .. n
      PROVE  /\ ss[k] \in Stream /\ t[k] \in Stream
             /\ t[k].mode = ss[k].mode
             /\ t[k].file =
                  IF ss[k].mode = LIST /\ ss[k].file = f THEN next ELSE ss[k].file
             /\ ~ (ss[k].mode = LIST /\ ss[k].file = f) => t[k] = ss[k]
  <2>1. ss[k] \in Stream
    OBVIOUS
  <2>2. t[k] = IF ss[k].mode = LIST /\ ss[k].file = f
                 THEN [ss[k] EXCEPT !.file = next] ELSE ss[k]
    BY <1>1 DEF Moved
  <2> HIDE DEF t
  <2>3. QED
    BY <2>1, <2>2 DEF Stream
<1>3. t \in [1 .. n -> Stream]
  <2>1. t = [k \in 1 .. n |-> t[k]]
    BY <1>1 DEF Moved
  <2> HIDE DEF t, n
  <2>2. QED
    BY <1>2, <2>1
<1>4. t \in Seq(Stream) /\ Len(t) = n
  <2> HIDE DEF t, n
  <2> QED BY <1>1, <1>3
<1>5. QED
  BY <1>1, <1>2, <1>4

LEMMA StackAfterDelete ==
  ASSUME procs \in Seq(Process), Depth > 0, NEW f, NEW next \in Nat,
         Return(MoveCursors(f, next), Depth, OK)
  PROVE  /\ procs' \in Seq(Process) /\ Depth' = Depth
         /\ DOMAIN procs' = DOMAIN procs /\ DOMAIN procs = 1 .. Depth
         /\ Depth \in Nat
         /\ \A i \in 1 .. Depth :
              /\ procs[i] \in Process /\ procs'[i] \in Process
              /\ procs'[i].begin = procs[i].begin /\ procs'[i].end = procs[i].end
              /\ procs'[i].base = procs[i].base
              /\ procs'[i].output = procs[i].output
              /\ procs'[i].outputLimit = procs[i].outputLimit
              /\ procs'[i].streams = Moved(procs[i].streams, f, next)
<1> DEFINE stack == MoveCursors(f, next)
<1>1. /\ Depth \in 1 .. Depth /\ DOMAIN procs = 1 .. Depth /\ Depth \in Nat
      /\ \A i \in 1 .. Depth : procs[i] \in Process
  BY ProcsAreProcesses
<1>2. DOMAIN stack = 1 .. Depth
  BY <1>1 DEF MoveCursors
<1>3. ASSUME NEW i \in 1 .. Depth
      PROVE  stack[i] = [procs[i] EXCEPT
                           !.streams = Moved(procs[i].streams, f, next)]
  BY <1>1 DEF MoveCursors, Moved
<1>4. procs' = [stack EXCEPT ![Depth] = [stack[Depth] EXCEPT !.r8 = OK]]
  BY <1>1, <1>2 DEF Return
<1> HIDE DEF stack
<1>5. ASSUME NEW i \in 1 .. Depth
      PROVE  /\ stack[i] \in Process
             /\ procs'[i] \in Process
             /\ procs'[i].begin = procs[i].begin /\ procs'[i].end = procs[i].end
             /\ procs'[i].base = procs[i].base
             /\ procs'[i].output = procs[i].output
             /\ procs'[i].outputLimit = procs[i].outputLimit
             /\ procs'[i].streams = Moved(procs[i].streams, f, next)
  <2> DEFINE ss == Moved(procs[i].streams, f, next)
             q == [procs[i] EXCEPT !.streams = ss]
  <2>1. procs[i] \in Process /\ ss \in Seq(Stream)
    BY <1>1, ProcessFields, MovedStreams
  <2>2. stack[i] = q
    BY <1>3
  <2> HIDE DEF ss
  <2>3. /\ q \in Process /\ q.streams = ss
        /\ q.begin = procs[i].begin /\ q.end = procs[i].end
        /\ q.base = procs[i].base
        /\ q.output = procs[i].output /\ q.outputLimit = procs[i].outputLimit
    BY <2>1, WithStreams
  <2> HIDE DEF q
  <2>4. procs'[i] = IF i = Depth THEN [q EXCEPT !.r8 = OK] ELSE q
    BY <1>2, <1>4, <2>2
  <2>5. OK \in Int
    BY DEF OK
  <2>6. QED
    BY <2>2, <2>3, <2>4, <2>5 DEF Process, ss
<1>6. DOMAIN procs' = 1 .. Depth
  BY <1>2, <1>4
<1>7. procs' \in [1 .. Depth -> Process]
  <2>1. procs' = [i \in 1 .. Depth |-> procs'[i]]
    BY <1>2, <1>4
  <2>2. QED
    BY <1>5, <2>1
<1>8. procs' \in Seq(Process) /\ Len(procs') = Depth
  <2> HIDE DEF Process
  <2> QED BY <1>1, <1>6, <1>7
<1>9. QED
  BY <1>1, <1>5, <1>6, <1>8 DEF Depth

LEMMA NextFile ==
  ASSUME FS!StoreTypeOK, NEW f \in FS!Live, NEW next, FS!IsFirst(FS!After(f), next)
  PROVE  next \in Nat /\ next \in (FS!Live \ {f}) \cup {FS!NoFile}
<1>1. FS!Live \subseteq Nat /\ FS!NoFile \in Nat
  BY FileIdsAreNumbers DEF FS!NoFile
<1>2. files[f].name \in Nat
  BY FileFields, KernelAssumption
     DEF KernelAssumption, FS!StoreAssumption, FS!Live
<1>3. f \notin FS!After(f) /\ FS!After(f) \subseteq FS!Live
  BY <1>2 DEF FS!After
<1>4. QED
  BY <1>1, <1>3 DEF FS!IsFirst

LEMMA DeleteStep ==
  ASSUME KernelInvariant, NEW n, NEW b, Delete(n, b)
  PROVE  KernelInvariant'
<1>1. PICK f \in FS!Live \cup {FS!NoFile} :
        LET status == DeleteStatus(f, b) IN
        \/ status # OK /\ Fail(status)
        \/ /\ status = OK
           /\ \E next \in FS!Live \cup {FS!NoFile} :
                /\ FS!IsFirst(FS!After(f), next)
                /\ Return(MoveCursors(f, next), Depth, OK)
           /\ FS!Delete(f)
           /\ UNCHANGED <<mode, heap, userPages, userTables, honest>>
  BY DEF Delete
<1>2. mode = "user" /\ DeleteStatus(f, b) \in Nat
  BY DEF Delete, DeleteStatus, OK, INVALID_ARGUMENT, INVALID_STATE, NOT_FOUND
<1>3. CASE Fail(DeleteStatus(f, b))
  BY <1>2, <1>3, FailCall
<1>4. CASE /\ DeleteStatus(f, b) = OK
           /\ \E next \in FS!Live \cup {FS!NoFile} :
                /\ FS!IsFirst(FS!After(f), next)
                /\ Return(MoveCursors(f, next), Depth, OK)
           /\ FS!Delete(f)
           /\ UNCHANGED <<mode, heap, userPages, userTables, honest>>
  <2>1. PICK next \in FS!Live \cup {FS!NoFile} :
          /\ FS!IsFirst(FS!After(f), next)
          /\ Return(MoveCursors(f, next), Depth, OK)
    BY <1>4
  <2>2. f \in FS!Live /\ f # FS!NoFile /\ CanOpen(f, WRITE)
    BY <1>4, Facts, <1>2, FileIdsAreNumbers
       DEF DeleteStatus, OK, INVALID_ARGUMENT, INVALID_STATE, NOT_FOUND
  <2>3. next \in Nat /\ next \in (DOMAIN files \ {f}) \cup {FS!NoFile}
    BY <1>2, <2>1, <2>2, Facts, NextFile DEF FS!Live
  <2>4. /\ procs' \in Seq(Process) /\ Depth' = Depth
        /\ DOMAIN procs' = DOMAIN procs /\ DOMAIN procs = 1 .. Depth
        /\ Depth \in Nat /\ Depth > 0
        /\ \A i \in 1 .. Depth :
             /\ procs[i] \in Process /\ procs'[i] \in Process
             /\ procs'[i].begin = procs[i].begin /\ procs'[i].end = procs[i].end
             /\ procs'[i].base = procs[i].base
             /\ procs'[i].output = procs[i].output
             /\ procs'[i].outputLimit = procs[i].outputLimit
             /\ procs'[i].streams = Moved(procs[i].streams, f, next)
    BY <1>2, <2>1, <2>3, Facts, StackAfterDelete
  <2>5. ASSUME NEW i \in 1 .. Depth
        PROVE  /\ DOMAIN procs'[i].streams = DOMAIN procs[i].streams
               /\ Len(procs'[i].streams) = Len(procs[i].streams)
               /\ \A k \in DOMAIN procs[i].streams :
                    LET s == procs[i].streams[k]
                        t == procs'[i].streams[k]
                    IN  /\ t.mode = s.mode
                        /\ t.file = IF s.mode = LIST /\ s.file = f THEN next ELSE s.file
                        /\ ~ (s.mode = LIST /\ s.file = f) => t = s
    BY <2>3, <2>4, ProcessFields, MovedStreams
  <2>6. FS!StoreTypeOK' /\ DOMAIN files' = DOMAIN files \ {f}
        /\ \A s : SoundIn(files, s) /\ s.file # f => SoundIn(files', s)
    BY <1>2, <1>4, Facts, DeleteFile
  <2>7. TypeOK'
    BY <1>4, <2>4, <2>6 DEF KernelInvariant, TypeOK, TablesOf
  <2>8. WriterExclusive'
    <3>1. ASSUME NEW i \in 1 .. Depth, NEW k \in DOMAIN procs[i].streams,
                 procs'[i].streams[k].mode \in {READ, WRITE}
          PROVE  procs'[i].streams[k] = procs[i].streams[k]
      BY <2>5, <3>1 DEF READ, WRITE, LIST
    <3>2. ASSUME NEW i \in 1 .. Depth, NEW j \in 1 .. Depth,
                 NEW k \in DOMAIN procs[i].streams,
                 NEW l \in DOMAIN procs[j].streams,
                 procs'[i].streams[k].mode = WRITE,
                 procs'[j].streams[l].mode \in {READ, WRITE},
                 procs'[i].streams[k].file = procs'[j].streams[l].file
          PROVE  <<i, k>> = <<j, l>>
      <4>1. /\ procs'[i].streams[k] = procs[i].streams[k]
            /\ procs'[j].streams[l] = procs[j].streams[l]
        BY <3>1, <3>2
      <4>2. WriterExclusive
        BY DEF KernelInvariant
      <4>3. QED
        BY <2>4, <3>2, <4>1, <4>2 DEF WriterExclusive, Streams
    <3>3. QED
      BY <2>4, <2>5, <3>2 DEF WriterExclusive, Streams
  <2>9. StreamsSound'
    <3>1. ASSUME NEW i \in 1 .. Depth, NEW k \in DOMAIN procs[i].streams
          PROVE  SoundIn(files', procs'[i].streams[k])
      <4> DEFINE s == procs[i].streams[k]
                 t == procs'[i].streams[k]
      <4>1. SoundIn(files, s)
        BY <1>2, <2>4, Facts
      <4>2. CASE s.mode = LIST /\ s.file = f
        <5>1. t.mode = LIST /\ t.file = next
          BY <2>5, <4>2
        <5>2. QED
          BY <2>3, <2>6, <5>1 DEF SoundIn, UNUSED, LIST, READ, WRITE
      <4>3. CASE ~ (s.mode = LIST /\ s.file = f)
        <5>1. t = s
          BY <2>5, <4>3
        <5>2. s.file # f
          BY <2>2, <2>4, <4>3 DEF CanOpen
        <5>3. QED
          BY <2>6, <4>1, <5>1, <5>2
      <4>4. QED
        BY <4>2, <4>3
    <3>2. QED
      BY <2>4, <2>5, <3>1 DEF StreamsSound, Streams
  <2>10. RegionsNested'
    <3>1. honest' = honest
      BY <1>4
    <3>2. QED
      BY <2>4, <3>1 DEF KernelInvariant, RegionsNested, Nested
  <2>11. UserBitsExact'
    <3>1. PagesOf(Current') = PagesOf(Current)
      BY <2>4 DEF PagesOf, Current
    <3>2. Accessible' = Accessible
      BY <1>4 DEF Accessible
    <3>3. QED
      BY <1>4, <2>4, <3>1, <3>2 DEF KernelInvariant, UserBitsExact
  <2>12. HeapExact'
    BY <1>4, <2>4, <2>5 DEF KernelInvariant, HeapExact, Streams
  <2>13. QED
    BY <2>7, <2>8, <2>9, <2>10, <2>11, <2>12 DEF KernelInvariant
<1>5. QED
  BY <1>1, <1>3, <1>4

-----------------------------------------------------------------------------
(***************************************************************************)
(* spawn.                                                                  *)
(***************************************************************************)

\* Two processes that differ by their result only.
SameBut8(p, q) ==
  /\ p.begin = q.begin /\ p.end = q.end /\ p.base = q.base
  /\ p.output = q.output /\ p.outputLimit = q.outputLimit
  /\ p.streams = q.streams

LEMMA PageBounds ==
  ASSUME NEW a \in Nat
  PROVE  /\ PageUp(a) \in Nat /\ a <= PageUp(a)
         /\ PageDown(a) \in Nat /\ PageDown(a) <= a
  BY KernelAssumption DEF KernelAssumption, PageUp, PageDown

LEMMA CodeSize ==
  ASSUME TypeOK, NEW f \in FS!Live, NEW begin \in Nat
  PROVE  begin + Len(files[f].data) \in Int /\ heap \in Nat
  BY FileFields DEF TypeOK, FS!Live

\* The pages of a process out of the kernel are out of the kernel.
LEMMA PagesAbove ==
  ASSUME NEW p \in Process, HeapEnd <= p.begin, NEW a \in PagesOf(p)
  PROVE  HeapEnd <= a * PageSize
<1> DEFINE at == a * PageSize
<1>1. at \in Nat /\ p.begin <= at
  BY KernelAssumption DEF KernelAssumption, PagesOf
<1>2. p.begin \in Nat /\ HeapEnd \in Nat
  BY ProcessFields, KernelAssumption DEF KernelAssumption
<1> HIDE DEF at
<1>3. HeapEnd <= at
  BY <1>1, <1>2
<1>4. QED
  BY <1>3 DEF at

\* Process q is spawned by the current process, and gets access to its memory;
\* if its region is in that of its parent it has access to no other.
LEMMA PushStep ==
  ASSUME KernelInvariant, Depth > 0, mode' = "user", NEW q \in Process,
         Push(q), Return(Append(procs, q), Depth, OK),
         q.base = heap, q.streams = <<>>,
         ProcessSize <= HeapUnits - heap,
         Current.begin <= q.output, q.output <= q.outputLimit,
         q.outputLimit <= q.begin, q.begin <= q.end,
         honest' \in BOOLEAN, honest' => honest /\ q.end <= Current.end
  PROVE  KernelInvariant'
<1>1. /\ TypeOK /\ WriterExclusive /\ StreamsSound /\ RegionsNested
      /\ UserBitsExact /\ HeapExact
  BY DEF KernelInvariant
<1>2. /\ procs \in Seq(Process) /\ Depth \in 1 .. Depth /\ DOMAIN procs = 1 .. Depth
      /\ Current = procs[Depth] /\ Depth \in Nat
      /\ \A i \in 1 .. Depth : procs[i] \in Process
  BY <1>1, ProcsAreProcesses DEF TypeOK, Current
<1>3. /\ procs' \in Seq(Process)
      /\ Depth' = Depth + 1
      /\ \A i \in 1 .. Depth - 1 : procs'[i] = procs[i]
      /\ procs'[Depth] = [Current EXCEPT !.r8 = OK]
      /\ procs'[Depth + 1] = q
  BY <1>2, StackAfterSpawn
<1>4. DOMAIN procs' = 1 .. Depth + 1
  BY <1>3 DEF Depth
<1>5. ASSUME NEW i \in 1 .. Depth
      PROVE  SameBut8(procs'[i], procs[i])
  <2>1. CASE i = Depth
    <3>1. OK \in Int /\ Current \in Process
      BY <1>2 DEF OK
    <3>2. SameBut8([Current EXCEPT !.r8 = OK], Current)
      BY <3>1 DEF Process, SameBut8
    <3>3. QED
      BY <1>2, <1>3, <2>1, <3>2
  <2>2. CASE i # Depth
    <3>1. procs'[i] = procs[i]
      BY <1>2, <1>3, <2>2
    <3>2. QED
      BY <3>1 DEF SameBut8
  <2>3. QED
    BY <2>1, <2>2
<1>6. /\ heap' = heap + ProcessSize /\ files' = files
      /\ SetCurrentProcess(Append(procs, q))
  BY DEF Push
<1>7. /\ userPages' = (userPages \ PagesOf(Current)) \cup PagesOf(q)
      /\ userTables' = (userTables \ TablesOf(PagesOf(Current)))
                         \cup TablesOf(PagesOf(q))
  <2> DEFINE stack == Append(procs, q)
  <2>1. /\ Len(stack) = Depth + 1
        /\ stack[Depth + 1] = q /\ stack[Depth] = Current
    <3> HIDE DEF Process
    <3> QED BY <1>2, AppendProperties DEF Depth
  <2>2. SetCurrentProcess(stack)
    BY <1>6
  <2> HIDE DEF stack
  <2>3. Len(stack) > 1 /\ Len(stack) - 1 = Depth
    BY <1>2, <2>1
  <2>4. QED
    BY <2>1, <2>2, <2>3 DEF SetCurrentProcess
<1>8. /\ PagesOf(q) \subseteq userPages'
      /\ userPages' \subseteq userPages \cup PagesOf(q)
      /\ TablesOf(PagesOf(q)) \subseteq userTables'
      /\ honest' => userPages' \subseteq PagesOf(q)
  BY <1>1, <1>2, <1>7 DEF UserBitsExact
<1>9. TypeOK'
  <2>1. heap' \in Nat
    BY <1>1, <1>6 DEF TypeOK, ProcessSize
  <2>2. userPages' \subseteq Pages /\ userTables' \subseteq TablesOf(Pages)
    BY <1>1, <1>7, <1>8 DEF TypeOK, PagesOf, TablesOf
  <2>3. FS!StoreTypeOK'
    BY <1>1, <1>6 DEF TypeOK, FS!StoreTypeOK, FS!File
  <2>4. QED
    BY <1>2, <1>3, <2>1, <2>2, <2>3 DEF TypeOK, TablesOf
<1>10. ASSUME NEW i \in 1 .. Depth + 1, NEW k \in DOMAIN procs'[i].streams
       PROVE  /\ i \in 1 .. Depth /\ k \in DOMAIN procs[i].streams
              /\ procs'[i].streams[k] = procs[i].streams[k]
  <2>1. CASE i = Depth + 1
    <3>1. q.streams \in Seq(Stream) /\ DOMAIN q.streams = {}
      BY ProcessFields
    <3>2. QED
      BY <1>3, <1>10, <2>1, <3>1
  <2>2. CASE i # Depth + 1
    <3>1. i \in 1 .. Depth
      BY <1>2, <2>2
    <3>2. QED
      BY <1>5, <3>1 DEF SameBut8
  <2>3. QED
    BY <2>1, <2>2
<1>11. WriterExclusive'
  BY <1>1, <1>2, <1>4, <1>10 DEF WriterExclusive, Streams
<1>12. StreamsSound'
  BY <1>1, <1>2, <1>4, <1>6, <1>10 DEF StreamsSound, Streams
<1>13. RegionsNested'
  <2>1. HeapEnd <= Current.begin /\ (honest => Current.end <= MemLimit)
    BY <1>1, <1>2 DEF RegionsNested
  <2>2. /\ Current.begin \in Nat /\ Current.end \in Nat /\ q.begin \in Nat
        /\ q.end \in Nat /\ q.output \in Nat /\ q.outputLimit \in Nat
        /\ HeapEnd \in Nat /\ MemLimit \in Nat
    BY <1>2, ProcessFields, KernelAssumption DEF KernelAssumption
  <2>3. HeapEnd <= q.begin /\ (honest' => q.end <= MemLimit)
    <3>1. HeapEnd <= q.begin
      BY <2>1, <2>2
    <3>2. ASSUME q.end <= Current.end, Current.end <= MemLimit
          PROVE  q.end <= MemLimit
      BY <2>2, <3>2
    <3>3. QED
      BY <2>1, <3>1, <3>2, Zenon
  <2>4. ASSUME NEW i \in 1 .. Depth + 1
        PROVE  /\ HeapEnd <= procs'[i].begin
               /\ honest' => procs'[i].end <= MemLimit
    <3>1. CASE i = Depth + 1
      BY <1>3, <2>3, <3>1
    <3>2. CASE i # Depth + 1
      <4>1. i \in 1 .. Depth
        BY <1>2, <3>2
      <4>2. HeapEnd <= procs[i].begin /\ (honest => procs[i].end <= MemLimit)
        BY <1>1, <1>2, <4>1 DEF RegionsNested
      <4>3. procs'[i].begin = procs[i].begin /\ procs'[i].end = procs[i].end
        BY <1>5, <4>1 DEF SameBut8
      <4>4. QED
        BY <4>2, <4>3, Zenon
    <3>3. QED
      BY <3>1, <3>2
  <2>5. ASSUME NEW i \in 2 .. Depth + 1
        PROVE  /\ procs'[i - 1].begin <= procs'[i].begin
               /\ procs'[i].begin <= procs'[i].end
               /\ honest' => Nested(procs'[i], procs'[i - 1])
    <3>1. CASE i = Depth + 1
      <4>1. i - 1 = Depth /\ SameBut8(procs'[Depth], Current) /\ procs'[i] = q
        BY <1>2, <1>3, <1>5, <3>1
      <4>2. Current.begin <= q.begin
        BY <2>2
      <4>3. QED
        BY <4>1, <4>2 DEF SameBut8, Nested
    <3>2. CASE i # Depth + 1
      <4>1. i \in 2 .. Depth /\ i \in 1 .. Depth /\ i - 1 \in 1 .. Depth
        BY <1>2, <3>2
      <4>2. SameBut8(procs'[i], procs[i]) /\ SameBut8(procs'[i - 1], procs[i - 1])
        BY <1>5, <4>1
      <4>3. QED
        BY <1>1, <4>1, <4>2 DEF RegionsNested, SameBut8, Nested
    <3>3. QED
      BY <3>1, <3>2
  <2>6. QED
    BY <1>3, <1>4, <2>4, <2>5 DEF RegionsNested
<1>14. UserBitsExact'
  <2>1. Depth' > 0 /\ Current' = q
    BY <1>2, <1>3 DEF Current
  <2>2. HeapEnd <= q.begin
    <3>1. HeapEnd <= Current.begin
      BY <1>1, <1>2 DEF RegionsNested
    <3>2. QED
      BY <1>2, <3>1, ProcessFields, KernelAssumption DEF KernelAssumption
  <2>3. \A a \in userPages' : HeapEnd <= a * PageSize
    BY <1>1, <1>8, <2>2, PagesAbove DEF UserBitsExact
  <2>4. PagesOf(q) \subseteq Accessible'
    BY <1>8 DEF Accessible, TablesOf
  <2>5. PagesOf(Current)' = PagesOf(q)
    BY <2>1 DEF PagesOf
  <2>6. QED
    BY <1>8, <2>1, <2>3, <2>4, <2>5 DEF UserBitsExact
<1>15. HeapExact'
  <2>1. heap' <= HeapUnits
    BY <1>1, <1>6, KernelAssumption DEF TypeOK, KernelAssumption, ProcessSize
  <2>2. heap = Current.base + ProcessSize + StreamSize * Len(Current.streams)
    BY <1>1, <1>2, HeapTop
  <2>3. heap' = heap + ProcessSize + StreamSize * 0
    BY <1>1, <1>6 DEF TypeOK, ProcessSize, StreamSize
  <2>4. procs'[1].base = 0
    BY <1>1, <1>2, <1>5 DEF HeapExact, SameBut8
  <2>5. ASSUME NEW i \in 1 .. Depth + 1
        PROVE  procs'[i].base + ProcessSize + StreamSize * Len(procs'[i].streams)
                 = IF i = Depth + 1 THEN heap' ELSE procs'[i + 1].base
    <3>1. CASE i = Depth + 1
      BY <1>3, <2>3, <3>1
    <3>2. CASE i = Depth
      <4>1. SameBut8(procs'[i], Current) /\ procs'[i + 1] = q /\ i # Depth + 1
        BY <1>2, <1>3, <1>5, <3>2
      <4>2. QED
        BY <2>2, <4>1 DEF SameBut8
    <3>3. CASE i # Depth /\ i # Depth + 1
      <4>1. i \in 1 .. Depth /\ i + 1 \in 1 .. Depth
        BY <1>2, <3>3
      <4>2. SameBut8(procs'[i], procs[i]) /\ SameBut8(procs'[i + 1], procs[i + 1])
        BY <1>5, <4>1
      <4>3. procs[i].base + ProcessSize + StreamSize * Len(procs[i].streams)
              = procs[i + 1].base
        BY <1>1, <1>2, <3>3, <4>1 DEF HeapExact, Streams
      <4>4. QED
        BY <3>3, <4>2, <4>3 DEF SameBut8
    <3>4. QED
      BY <3>1, <3>2, <3>3
  <2>6. QED
    BY <1>2, <1>3, <1>4, <2>1, <2>4, <2>5 DEF HeapExact, Streams
<1>16. QED
  BY <1>9, <1>11, <1>12, <1>13, <1>14, <1>15 DEF KernelInvariant

LEMMA SpawnStep ==
  ASSUME KernelInvariant, NEW c \in SpawnCalls, Spawn(c)
  PROVE  KernelInvariant'
<1> DEFINE begin == PageUp(c.dst)
           end == PageDown(c.stackPointer)
<1>1. PICK f \in FS!Live \cup {FS!NoFile} :
        LET status == SpawnStatus(c, f, begin, end)
            p == Child(f, begin, end, c.output, c.dst)
        IN  \/ status # OK /\ Fail(status)
            \/ /\ status = OK
               /\ Push(p)
               /\ Return(Append(procs, p), Depth, OK)
               /\ honest' = (honest /\ Honest(c, begin, end))
               /\ UNCHANGED mode
            \/ Lose
  BY DEF Spawn
<1> DEFINE p == Child(f, begin, end, c.output, c.dst)
<1>2. mode = "user" /\ SpawnStatus(c, f, begin, end) \in Nat
  BY DEF Spawn, SpawnStatus, OK, OUT_OF_MEMORY, INVALID_ARGUMENT, NOT_FOUND
<1>3. CASE Fail(SpawnStatus(c, f, begin, end))
  BY <1>2, <1>3, FailCall
<1>4. CASE /\ SpawnStatus(c, f, begin, end) = OK
           /\ Push(p)
           /\ Return(Append(procs, p), Depth, OK)
           /\ honest' = (honest /\ Honest(c, begin, end))
           /\ UNCHANGED mode
  <2>1. /\ c.dst \in Nat /\ c.stackPointer \in Nat /\ c.output \in Nat
    BY KernelAssumption DEF KernelAssumption
  <2>2. /\ begin \in Nat /\ c.dst <= begin
        /\ end \in Nat /\ end <= c.stackPointer
    BY <2>1, PageBounds
  <2> HIDE DEF begin, end
  <2>3. /\ ~ (ProcessSize > HeapUnits - heap) /\ ~ BadSpawn(c, begin, end)
        /\ f \in FS!Live
    BY <1>4 DEF SpawnStatus, OK, OUT_OF_MEMORY, INVALID_ARGUMENT, NOT_FOUND
  <2>4. /\ p \in Process
        /\ p.begin = begin /\ p.end = end /\ p.base = heap
        /\ p.output = c.output /\ p.outputLimit = c.dst
        /\ p.streams = <<>>
    <3>1. TypeOK
      BY DEF KernelInvariant
    <3>2. /\ f \in FS!Live /\ begin \in Nat /\ end \in Nat
          /\ c.output \in Nat /\ c.dst \in Nat
      BY <2>1, <2>2, <2>3
    <3> DEFINE r8 == begin + Len(files[f].data)
               output == c.output
               dst == c.dst
    <3>3. r8 \in Int /\ heap \in Nat
      BY <3>1, <3>2, CodeSize
    <3> HIDE DEF r8, output, dst
    <3>4. p = [begin |-> begin, end |-> end, base |-> heap, r8 |-> r8,
               output |-> output, outputLimit |-> dst, streams |-> <<>>]
      BY DEF Child, r8, output, dst
    <3>5. output \in Nat /\ dst \in Nat
      BY <3>2 DEF output, dst
    <3> HIDE DEF p
    <3>6. /\ p \in Process
          /\ p.begin = begin /\ p.end = end /\ p.base = heap
          /\ p.output = output /\ p.outputLimit = dst
          /\ p.streams = <<>>
      BY <3>2, <3>3, <3>4, <3>5 DEF Process
    <3>7. QED
      BY <3>6 DEF output, dst
  <2>5. ~ (end < begin) /\ ~ (c.output < Current.begin) /\ ~ (c.output > c.dst)
    BY <2>3 DEF BadSpawn
  <2>6. honest' \in BOOLEAN /\ (honest' => honest /\ end <= Current.end)
    BY <1>4, Zenon DEF Honest
  <2>7. Current.begin \in Nat /\ Current.end \in Nat
    BY <1>2, Facts, ProcessFields
  <2>8. ProcessSize <= HeapUnits - heap
    BY <1>2, <2>3, Facts, KernelAssumption DEF KernelAssumption, ProcessSize
  <2> HIDE DEF p
  <2>9. /\ Current.begin <= p.output /\ p.output <= p.outputLimit
        /\ p.outputLimit <= p.begin /\ p.begin <= p.end
    BY <2>1, <2>2, <2>4, <2>5, <2>7
  <2>10. mode' = "user" /\ Depth > 0
    BY <1>2, <1>4, Facts
  <2>11. QED
    BY <1>4, <2>4, <2>6, <2>8, <2>9, <2>10, PushStep
<1>5. CASE Lose
  BY <1>2, <1>5, LoseStep
<1>6. QED
  BY <1>1, <1>3, <1>4, <1>5

\* The root process is the first one of the stack.
LEMMA SpawnShellStep ==
  ASSUME KernelInvariant, SpawnShell
  PROVE  KernelInvariant'
<1>1. /\ TypeOK /\ HeapExact /\ mode = "boot" /\ procs \in Seq(Process)
      /\ Depth = 0 /\ heap = 0 /\ userPages = {} /\ honest' = honest
  BY DEF KernelInvariant, TypeOK, HeapExact, UserBitsExact, SpawnShell
<1>2. CASE mode' = "halt" /\ UNCHANGED <<procs, heap, userPages, userTables, honest, files>>
  <2>1. Depth' = Depth
    BY <1>2 DEF Depth
  <2>2. DOMAIN procs = {}
    BY <1>1 DEF Depth
  <2>3. TypeOK'
    BY <1>1, <1>2, <2>1
       DEF TypeOK, TablesOf, FS!StoreTypeOK, FS!File
  <2>4. /\ WriterExclusive' /\ StreamsSound' /\ RegionsNested'
        /\ UserBitsExact' /\ HeapExact'
    BY <1>1, <1>2, <2>1, <2>2
       DEF WriterExclusive, StreamsSound, RegionsNested, UserBitsExact, HeapExact
  <2>5. QED
    BY <2>3, <2>4 DEF KernelInvariant
<1>3. CASE /\ mode' = "user"
           /\ \E f \in FS!Live :
                LET p == Child(f, HeapEnd, MemLimit, HeapEnd, HeapEnd)
                IN  Push(p) /\ procs' = Append(procs, p) /\ ProcessSize <= HeapUnits - heap
  <2>1. PICK f \in FS!Live :
                LET p == Child(f, HeapEnd, MemLimit, HeapEnd, HeapEnd)
                IN  Push(p) /\ procs' = Append(procs, p) /\ ProcessSize <= HeapUnits - heap
    BY <1>3
  <2> DEFINE p == Child(f, HeapEnd, MemLimit, HeapEnd, HeapEnd)
  <2>2. HeapEnd \in Nat /\ MemLimit \in Nat /\ HeapUnits \in Nat
    BY KernelAssumption DEF KernelAssumption
  <2>3. /\ p \in Process
        /\ p.begin = HeapEnd /\ p.end = MemLimit /\ p.base = heap
        /\ p.streams = <<>>
    <3> DEFINE r8 == HeapEnd + Len(files[f].data)
    <3>1. r8 \in Int /\ heap \in Nat
      BY <1>1, <2>2, CodeSize
    <3> HIDE DEF r8
    <3>2. p = [begin |-> HeapEnd, end |-> MemLimit, base |-> heap, r8 |-> r8,
               output |-> HeapEnd, outputLimit |-> HeapEnd, streams |-> <<>>]
      BY DEF Child, r8
    <3> HIDE DEF p
    <3>3. QED
      BY <2>2, <3>1, <3>2 DEF Process
  <2>4. Push(p) /\ procs' = Append(procs, p) /\ ProcessSize <= HeapUnits - heap
    BY <2>1
  <2> HIDE DEF p
  <2>5. /\ procs' \in Seq(Process) /\ Depth' = 1 /\ DOMAIN procs' = {1}
        /\ procs'[1] = p /\ Len(Append(procs, p)) = 1 /\ Append(procs, p)[1] = p
    <3> HIDE DEF Process
    <3> QED BY <1>1, <2>3, <2>4, AppendProperties DEF Depth
  <2>6. /\ userPages' = userPages \cup PagesOf(p)
        /\ userTables' = userTables \cup TablesOf(PagesOf(p))
    BY <2>4, <2>5 DEF Push, SetCurrentProcess, TablesOf
  <2>7. heap' = ProcessSize /\ files' = files
    BY <1>1, <2>4 DEF Push, ProcessSize
  <2>8. TypeOK'
    <3>1. userPages' \subseteq Pages /\ userTables' \subseteq TablesOf(Pages)
      BY <1>1, <2>6 DEF TypeOK, PagesOf, TablesOf
    <3>2. FS!StoreTypeOK'
      BY <1>1, <2>7 DEF TypeOK, FS!StoreTypeOK, FS!File
    <3>3. honest' \in BOOLEAN
      BY <1>1, Zenon DEF TypeOK
    <3>4. heap' \in Nat /\ ~ (Depth' = 0) /\ mode' = "user"
      BY <1>3, <2>5, <2>7 DEF ProcessSize
    <3>5. QED
      BY <2>5, <3>1, <3>2, <3>3, <3>4 DEF TypeOK, TablesOf
  <2>9. WriterExclusive' /\ StreamsSound'
    BY <2>3, <2>5 DEF WriterExclusive, StreamsSound, Streams
  <2>10. RegionsNested'
    BY <2>2, <2>3, <2>5 DEF RegionsNested
  <2>11. HeapExact'
    BY <1>1, <2>2, <2>3, <2>4, <2>5, <2>7
       DEF HeapExact, Streams, ProcessSize, StreamSize
  <2>12. UserBitsExact'
    <3>1. Depth' > 0 /\ Current' = p /\ userPages' = PagesOf(p)
          /\ PagesOf(Current)' = PagesOf(p)
      BY <1>1, <2>5, <2>6 DEF Current, PagesOf
    <3>2. PagesOf(p) \subseteq Accessible'
      BY <2>6, <3>1 DEF Accessible, TablesOf
    <3>3. \A a \in PagesOf(p) : HeapEnd <= a * PageSize
      BY <2>2, <2>3, PagesAbove
    <3>4. QED
      BY <3>1, <3>2, <3>3 DEF UserBitsExact
  <2>13. QED
    BY <2>8, <2>9, <2>10, <2>11, <2>12 DEF KernelInvariant
<1>4. QED
  BY <1>2, <1>3 DEF SpawnShell

-----------------------------------------------------------------------------
(***************************************************************************)
(* exit, exceptions and reboot.                                            *)
(***************************************************************************)

\* The pages of a process are among those of its parent.
LEMMA PagesNested ==
  ASSUME procs \in Seq(Process), RegionsNested, honest, Depth > 1
  PROVE  PagesOf(procs[Depth]) \subseteq PagesOf(procs[Depth - 1])
<1> DEFINE p == procs[Depth]
           q == procs[Depth - 1]
<1>1. p \in Process /\ q \in Process /\ Depth \in 2 .. Depth
  BY ProcsAreProcesses
<1>2. /\ q.begin <= p.output /\ p.output <= p.outputLimit
      /\ p.outputLimit <= p.begin /\ p.end <= q.end
  BY <1>1 DEF RegionsNested, Nested
<1> HIDE DEF p, q
<1>3. /\ p.begin \in Nat /\ p.end \in Nat /\ q.begin \in Nat /\ q.end \in Nat
      /\ p.output \in Nat /\ p.outputLimit \in Nat
  BY <1>1, ProcessFields
<1>4. q.begin <= p.begin /\ p.end <= q.end
  BY <1>2, <1>3
<1>5. ASSUME NEW a \in PagesOf(p)
      PROVE  a \in PagesOf(q)
  <2>1. PageSize \in Nat /\ a \in Nat /\ a \in Pages
    BY KernelAssumption DEF KernelAssumption, PagesOf
  <2>2. p.begin <= a * PageSize /\ a * PageSize < p.end
    BY DEF PagesOf
  <2>3. q.begin <= a * PageSize /\ a * PageSize < q.end
    <3> DEFINE at == a * PageSize
    <3>1. at \in Nat
      BY <2>1
    <3>2. p.begin <= at /\ at < p.end
      BY <2>2
    <3> HIDE DEF at
    <3>3. q.begin <= at /\ at < q.end
      BY <1>3, <1>4, <3>1, <3>2
    <3>4. QED
      BY <3>3 DEF at
  <2>4. QED
    BY <2>1, <2>3 DEF PagesOf
<1>6. QED
  BY <1>5 DEF p, q

LEMMA PopStep ==
  ASSUME KernelInvariant, Depth > 1, mode' = "user", NEW r \in Nat,
         OsExit(r), procs' = Pop(r), UNCHANGED honest
  PROVE  KernelInvariant'
<1>1. /\ TypeOK /\ WriterExclusive /\ StreamsSound /\ RegionsNested
      /\ UserBitsExact /\ HeapExact
  BY DEF KernelInvariant
<1>2. /\ procs \in Seq(Process) /\ DOMAIN procs = 1 .. Depth
      /\ Current = procs[Depth] /\ Depth \in Nat
      /\ \A i \in 1 .. Depth : procs[i] \in Process
  BY <1>1, ProcsAreProcesses DEF TypeOK, Current
<1>3. /\ procs' \in Seq(Process) /\ Depth' = Depth - 1
      /\ \A i \in 1 .. Depth - 2 : procs'[i] = procs[i]
      /\ procs'[Depth - 1] = [procs[Depth - 1] EXCEPT !.r8 = r]
  BY <1>2, StackAfterExit, Zenon DEF Depth
<1>4. DOMAIN procs' = 1 .. Depth - 1
  BY <1>3 DEF Depth
<1>5. ASSUME NEW i \in 1 .. Depth - 1
      PROVE  SameBut8(procs'[i], procs[i])
  <2>1. CASE i = Depth - 1
    <3>1. r \in Int /\ procs[Depth - 1] \in Process
      BY <1>2
    <3>2. SameBut8([procs[Depth - 1] EXCEPT !.r8 = r], procs[Depth - 1])
      BY <3>1 DEF Process, SameBut8
    <3>3. QED
      BY <1>3, <2>1, <3>2
  <2>2. CASE i # Depth - 1
    <3>1. procs'[i] = procs[i]
      BY <1>2, <1>3, <2>2
    <3>2. QED
      BY <3>1 DEF SameBut8
  <2>3. QED
    BY <2>1, <2>2
<1> DEFINE q == procs[Depth - 1]
<1>6. /\ q \in Process /\ PagesOf(procs'[Depth - 1]) = PagesOf(q)
      /\ procs'[Depth - 1] \in Process
  <2>1. Depth - 1 \in 1 .. Depth - 1 /\ Depth - 1 \in 1 .. Depth
    BY <1>2
  <2>2. QED
    BY <1>2, <1>3, <1>4, <1>5, <2>1 DEF SameBut8, PagesOf
<1>7. /\ heap' = Current.base /\ files' = files /\ SetCurrentProcess(procs')
  BY DEF OsExit
<1>8. honest => userPages \subseteq PagesOf(q)
  BY <1>1, <1>2, PagesNested DEF UserBitsExact
<1>9. /\ PagesOf(q) \subseteq userPages'
      /\ userPages' \subseteq userPages \cup PagesOf(q)
      /\ TablesOf(PagesOf(q)) \subseteq userTables'
      /\ userTables' \subseteq userTables \cup TablesOf(PagesOf(q))
  <2>1. Len(procs') = Depth - 1
    BY <1>3 DEF Depth
  <2> DEFINE off == IF Depth - 1 > 1 THEN PagesOf(procs'[Depth - 2]) ELSE {}
  <2>2. /\ userPages' = (userPages \ off) \cup PagesOf(q)
        /\ userTables' = (userTables \ TablesOf(off)) \cup TablesOf(PagesOf(q))
    <3>1. Depth - 1 - 1 = Depth - 2
      BY <1>2
    <3>2. QED
      BY <1>6, <1>7, <2>1, <3>1 DEF SetCurrentProcess
  <2> HIDE DEF off
  <2>3. QED
    BY <2>2
<1>10. TypeOK'
  <2>1. heap' \in Nat
    BY <1>2, <1>7, ProcessFields
  <2>2. userPages' \subseteq Pages /\ userTables' \subseteq TablesOf(Pages)
    BY <1>1, <1>9 DEF TypeOK, PagesOf, TablesOf
  <2>3. FS!StoreTypeOK'
    BY <1>1, <1>7 DEF TypeOK, FS!StoreTypeOK, FS!File
  <2>4. Depth' # 0
    BY <1>2, <1>3
  <2>5. honest' \in BOOLEAN
    BY <1>1, Zenon DEF TypeOK
  <2>6. QED
    BY <1>3, <2>1, <2>2, <2>3, <2>4, <2>5 DEF TypeOK, TablesOf
<1>11. ASSUME NEW i \in 1 .. Depth - 1
       PROVE  i \in 1 .. Depth /\ procs'[i].streams = procs[i].streams
  BY <1>2, <1>5 DEF SameBut8
<1>12. WriterExclusive'
  BY <1>1, <1>2, <1>4, <1>11 DEF WriterExclusive, Streams
<1>13. StreamsSound'
  BY <1>1, <1>2, <1>4, <1>7, <1>11 DEF StreamsSound, Streams
<1>14. RegionsNested'
  <2>1. ASSUME NEW i \in 1 .. Depth - 1
        PROVE  /\ HeapEnd <= procs'[i].begin
               /\ honest' => procs'[i].end <= MemLimit
    BY <1>1, <1>2, <1>5 DEF RegionsNested, SameBut8
  <2>2. ASSUME NEW i \in 2 .. Depth - 1
        PROVE  /\ procs'[i - 1].begin <= procs'[i].begin
               /\ procs'[i].begin <= procs'[i].end
               /\ honest' => Nested(procs'[i], procs'[i - 1])
    <3>1. i \in 2 .. Depth /\ i \in 1 .. Depth - 1 /\ i - 1 \in 1 .. Depth - 1
      BY <1>2
    <3>2. SameBut8(procs'[i], procs[i]) /\ SameBut8(procs'[i - 1], procs[i - 1])
      BY <1>5, <3>1
    <3>3. QED
      BY <1>1, <3>1, <3>2 DEF RegionsNested, SameBut8, Nested
  <2>3. QED
    BY <1>3, <1>4, <2>1, <2>2 DEF RegionsNested
<1>15. UserBitsExact'
  <2>1. Depth' # 0 /\ Current' = procs'[Depth - 1]
    BY <1>2, <1>3 DEF Current
  <2>2. PagesOf(Current)' = PagesOf(q)
    BY <1>6, <2>1 DEF PagesOf
  <2>3. \A a \in userPages' : HeapEnd <= a * PageSize
    <3>1. HeapEnd <= q.begin
      BY <1>1, <1>2 DEF RegionsNested
    <3>2. QED
      BY <1>1, <1>6, <1>9, <3>1, PagesAbove DEF UserBitsExact
  <2>4. PagesOf(q) \subseteq Accessible'
    BY <1>9 DEF Accessible, TablesOf
  <2>5. honest' => userPages' \subseteq PagesOf(q)
    BY <1>8, <1>9
  <2>6. QED
    BY <2>1, <2>2, <2>3, <2>4, <2>5 DEF UserBitsExact
<1>16. HeapExact'
  <2>1. heap' <= HeapUnits
    <3> DEFINE n == Len(Current.streams)
               base == Current.base
    <3>1. heap = base + ProcessSize + StreamSize * n
      BY <1>1, HeapTop, <1>2
    <3>2. base \in Nat /\ n \in Nat /\ HeapUnits \in Nat
      BY <1>2, ProcessFields, KernelAssumption DEF KernelAssumption
    <3>3. heap' = base /\ heap <= HeapUnits
      BY <1>1, <1>7 DEF HeapExact
    <3> HIDE DEF n, base
    <3>4. QED
      BY <3>1, <3>2, <3>3 DEF ProcessSize, StreamSize
  <2>2. procs'[1].base = 0
    BY <1>1, <1>2, <1>5 DEF HeapExact, SameBut8
  <2>3. ASSUME NEW i \in 1 .. Depth - 1
        PROVE  procs'[i].base + ProcessSize + StreamSize * Len(procs'[i].streams)
                 = IF i = Depth - 1 THEN heap' ELSE procs'[i + 1].base
    <3>1. i \in 1 .. Depth /\ i # Depth /\ SameBut8(procs'[i], procs[i])
      BY <1>2, <1>5
    <3>2. procs[i].base + ProcessSize + StreamSize * Len(procs[i].streams)
            = procs[i + 1].base
      BY <1>1, <1>2, <3>1 DEF HeapExact, Streams
    <3>3. CASE i = Depth - 1
      <4>1. procs[i + 1] = Current
        BY <1>2, <3>3
      <4>2. QED
        BY <1>7, <3>1, <3>2, <3>3, <4>1 DEF SameBut8
    <3>4. CASE i # Depth - 1
      <4>1. i + 1 \in 1 .. Depth - 1
        BY <1>2, <3>4
      <4>2. SameBut8(procs'[i + 1], procs[i + 1])
        BY <1>5, <4>1
      <4>3. QED
        BY <3>1, <3>2, <3>4, <4>2 DEF SameBut8
    <3>5. QED
      BY <3>3, <3>4
  <2>4. QED
    BY <1>2, <1>3, <1>4, <2>1, <2>2, <2>3 DEF HeapExact, Streams
<1>17. QED
  BY <1>10, <1>12, <1>13, <1>14, <1>15, <1>16 DEF KernelInvariant

LEMMA ExitStep ==
  ASSUME KernelInvariant, NEW r \in ExitCodes, Exit(r)
  PROVE  KernelInvariant'
<1>1. mode = "user" /\ ExitStatus(r) \in Nat /\ r \in Nat
  BY KernelAssumption
     DEF Exit, ExitStatus, OK, INVALID_STATE, INVALID_ARGUMENT, KernelAssumption
<1>2. CASE Fail(ExitStatus(r))
  BY <1>1, <1>2, FailCall
<1>3. CASE /\ ExitStatus(r) = OK
           /\ OsExit(r)
           /\ Return(Pop(r), Depth, OK)
           /\ UNCHANGED <<mode, honest>>
  <2>1. procs \in Seq(Process) /\ Depth \in Nat /\ Depth > 0
    BY <1>1, Facts
  <2>2. Depth > 1
    BY <1>3, <2>1 DEF ExitStatus, OK, INVALID_STATE
  <2>3. procs' = Pop(r)
    BY <1>1, <1>3, <2>1, <2>2, StackAfterExit
  <2>4. QED
    BY <1>1, <1>3, <2>2, <2>3, PopStep
<1>4. QED
  BY <1>2, <1>3 DEF Exit

LEMMA FaultStep ==
  ASSUME KernelInvariant, Fault
  PROVE  KernelInvariant'
  BY Facts, ModeStep DEF Fault

LEMMA HandleFaultStep ==
  ASSUME KernelInvariant, HandleFault
  PROVE  KernelInvariant'
<1>1. procs \in Seq(Process) /\ Depth \in Nat /\ Depth > 0
  BY DEF KernelInvariant, TypeOK, HandleFault, Depth
<1>2. CASE OsExit(INTERNAL_ERROR) /\ procs' = Pop(INTERNAL_ERROR) /\ Depth # 1
           /\ UNCHANGED honest
  BY <1>1, <1>2, PopStep DEF HandleFault, INTERNAL_ERROR
<1>3. CASE UNCHANGED <<procs, heap, userPages, userTables, honest, files>>
  BY <1>1, <1>3, ModeStep DEF HandleFault
<1>4. QED
  BY <1>2, <1>3 DEF HandleFault, ExitStatus, OK, INVALID_STATE

\* Without processes only the files matter.
LEMMA NoProcess ==
  ASSUME procs = <<>>, heap = 0, userPages = {}, userTables = {},
         mode \in {"boot", "halt"}, honest \in BOOLEAN, FS!StoreTypeOK
  PROVE  KernelInvariant
<1>1. Depth = 0 /\ DOMAIN procs = {} /\ procs \in Seq(Process)
  BY DEF Depth
<1>2. TypeOK
  BY <1>1 DEF TypeOK, TablesOf
<1>3. WriterExclusive /\ StreamsSound /\ RegionsNested /\ UserBitsExact
  BY <1>1 DEF WriterExclusive, StreamsSound, RegionsNested, UserBitsExact
<1>4. HeapExact
  BY <1>1, KernelAssumption DEF HeapExact, KernelAssumption
<1>5. QED
  BY <1>2, <1>3, <1>4 DEF KernelInvariant

LEMMA RebootStep ==
  ASSUME KernelInvariant, Reboot
  PROVE  KernelInvariant'
<1>1. FS!StoreTypeOK'
  BY DEF KernelInvariant, TypeOK, Reboot, FS!StoreTypeOK, FS!File
<1>2. /\ Depth' = 0 /\ DOMAIN procs' = {} /\ procs' \in Seq(Process)
      /\ heap' = 0 /\ userPages' = {} /\ userTables' = {} /\ mode' = "boot"
      /\ honest' \in BOOLEAN
  BY DEF Depth, Reboot
<1>3. TypeOK'
  BY <1>1, <1>2 DEF TypeOK, TablesOf
<1>4. WriterExclusive' /\ StreamsSound' /\ RegionsNested' /\ UserBitsExact'
  BY <1>2 DEF WriterExclusive, StreamsSound, RegionsNested, UserBitsExact
<1>5. HeapExact'
  BY <1>2, KernelAssumption DEF HeapExact, KernelAssumption
<1>6. QED
  BY <1>3, <1>4, <1>5 DEF KernelInvariant

-----------------------------------------------------------------------------
(***************************************************************************)
(* KernelInvariant holds in every reachable state of the kernel.           *)
(***************************************************************************)

LEMMA InitInvariant == Init => KernelInvariant
<1>1. Init => FS!StoreTypeOK
  BY KernelAssumption
     DEF Init, KernelAssumption, FS!StoreAssumption, FS!StoreTypeOK, FS!Init
<1>2. QED
  BY <1>1, NoProcess DEF Init

LEMMA NextInvariant == KernelInvariant /\ [Next]_vars => KernelInvariant'
<1> SUFFICES ASSUME KernelInvariant, [Next]_vars
             PROVE  KernelInvariant'
  OBVIOUS
<1>1. CASE SpawnShell
  BY <1>1, SpawnShellStep
<1>2. ASSUME NEW c \in SpawnCalls, Spawn(c)
      PROVE  KernelInvariant'
  BY <1>2, SpawnStep
<1>3. ASSUME NEW r \in ExitCodes, Exit(r)
      PROVE  KernelInvariant'
  BY <1>3, ExitStep
<1>4. CASE Fault
  BY <1>4, FaultStep
<1>5. CASE HandleFault
  BY <1>5, HandleFaultStep
<1>6. ASSUME NEW n \in Names \cup {EmptyName}, NEW b \in Buffers,
             NEW m \in {READ, WRITE, UNUSED}, Open(n, b, m)
      PROVE  KernelInvariant'
  BY <1>6, OpenStep DEF Modes
<1>7. ASSUME NEW id \in StreamIds, NEW b \in Buffers, Read(id, b)
      PROVE  KernelInvariant'
  BY <1>7, ReadStep
<1>8. ASSUME NEW id \in StreamIds, NEW b \in Buffers, Write(id, b)
      PROVE  KernelInvariant'
  BY <1>8, WriteStep
<1>9. ASSUME NEW id \in StreamIds, Close(id)
      PROVE  KernelInvariant'
  BY <1>9, CloseStep
<1>10. ASSUME NEW n \in Names \cup {EmptyName}, NEW b \in Buffers, Delete(n, b)
       PROVE  KernelInvariant'
  BY <1>10, DeleteStep
<1>11. ASSUME NEW n \in Names \cup {EmptyName}, NEW b \in Buffers, Stat(n, b)
       PROVE  KernelInvariant'
  BY <1>11, StatStep
<1>12. CASE Sleep
  BY <1>12, SleepStep
<1>13. CASE BadCall
  BY <1>13, BadCallStep
<1>14. CASE Reboot
  BY <1>14, RebootStep
<1>15. CASE Overwrite
  BY <1>15, LoseStep DEF Overwrite
<1>16. CASE Lost
  <2>1. Depth > 0 /\ mode' = "lost"
    BY <1>16 DEF KernelInvariant, TypeOK, Depth, Lost, vars
  <2>2. QED
    BY <1>16, <2>1, ModeStep DEF Lost, vars
<1>17. CASE UNCHANGED vars
  <2>1. CASE mode \in {"user", "fault", "lost"}
    <3>1. Depth > 0
      BY <2>1 DEF KernelInvariant, TypeOK, Depth
    <3>2. QED
      BY <1>17, <2>1, <3>1, ModeStep DEF vars
  <2>2. CASE mode \in {"boot", "halt"}
    <3>1. UNCHANGED <<mode, procs, heap, userPages, userTables, honest, files>>
      BY <1>17 DEF vars
    <3>2. QED
      BY <3>1 DEF KernelInvariant, TypeOK, WriterExclusive, StreamsSound,
           RegionsNested, Nested, UserBitsExact, HeapExact, Streams, Depth,
           Current, Accessible, PagesOf, TablesOf, FS!StoreTypeOK, FS!File
  <2>3. QED
    BY <2>1, <2>2 DEF KernelInvariant, TypeOK
<1>18. QED
  BY <1>1, <1>2, <1>3, <1>4, <1>5, <1>6, <1>7, <1>8, <1>9, <1>10, <1>11, <1>12,
     <1>13, <1>14, <1>15, <1>16, <1>17 DEF Next

\* The kernel keeps the parts of its invariant together, in every run.
THEOREM KernelInvariantHolds == Spec => []KernelInvariant
  BY InitInvariant, NextInvariant, PTL DEF Spec

\* The state of the kernel always has its type (processes.toy:6-47).
THEOREM TypeCorrect == Spec => []TypeOK
<1>1. KernelInvariant => TypeOK
  BY DEF KernelInvariant
<1>2. QED
  BY <1>1, KernelInvariantHolds, PTL

\* A file that a process writes has no other reader or writer, whatever the
\* processes of the stack open, close, delete or leave open when they exit.
THEOREM WritersAreExclusive == Spec => []WriterExclusive
<1>1. KernelInvariant => WriterExclusive
  BY DEF KernelInvariant
<1>2. QED
  BY <1>1, KernelInvariantHolds, PTL

\* No stream is left on a deleted file, or beyond the end of a file cleared
\* by another stream.
THEOREM StreamsStaySound == Spec => []StreamsSound
<1>1. KernelInvariant => StreamsSound
  BY DEF KernelInvariant
<1>2. QED
  BY <1>1, KernelInvariantHolds, PTL

\* Whatever arguments programs pass to spawn, and wherever their stack pointer
\* is, no process region reaches into the kernel or begins before that of the
\* parent (processes.toy:111-113); each is inside its parent and writes its
\* output out of its own region as long as each spawn was Honest.
THEOREM RegionsStayNested == Spec => []RegionsNested
<1>1. KernelInvariant => RegionsNested
  BY DEF KernelInvariant
<1>2. QED
  BY <1>1, KernelInvariantHolds, PTL

\* The records in the kernel heap never overlap.
THEOREM HeapStaysExact == Spec => []HeapExact
<1>1. KernelInvariant => HeapExact
  BY DEF KernelInvariant
<1>2. QED
  BY <1>1, KernelInvariantHolds, PTL

\* User code can access the pages of the current process and never those of
\* the kernel, whatever the calls; it can access no other page as long as each
\* spawn was Honest (processes.toy:67-90).
THEOREM MemoryStaysIsolated == Spec => []MemoryIsolated
<1>1. KernelInvariant => MemoryIsolated
  BY DEF KernelInvariant, TypeOK, UserBitsExact, MemoryIsolated, Accessible, Depth
<1>2. QED
  BY <1>1, KernelInvariantHolds, PTL

-----------------------------------------------------------------------------
(***************************************************************************)
(* How a step changes the files: by one operation of the store, on a file  *)
(* that no stream reads.                                                   *)
(***************************************************************************)
Unread(f) ==
  \A i \in DOMAIN procs : \A k \in DOMAIN procs[i].streams :
    procs[i].streams[k].mode = READ => procs[i].streams[k].file # f

Create(f) == \E n \in Names : FS!Create(f, n)

Change(f) ==
  \/ FS!Clear(f)
  \/ \E src \in Writes : FS!Extend(f, src) \/ FS!ExtendShort(f, src)

FilesMove ==
  \/ UNCHANGED files
  \/ \E f \in FileIds :
       Unread(f) /\ (Create(f) \/ Change(f) \/ FS!Delete(f))

\* The files that stay keep their name, and those other than f their bytes.
NamesKept == \A g \in FS!Live \cap FS!Live' : files'[g].name = files[g].name

OthersKept(f) == \A g \in FS!Live \ {f} : g \in FS!Live' /\ files'[g] = files[g]

LEMMA CreateKeeps ==
  ASSUME FS!StoreTypeOK, NEW f \in FileIds, Create(f)
  PROVE  /\ NamesKept /\ OthersKept(f) /\ FS!Live \subseteq FS!Live'
         /\ FS!UniqueNames => FS!UniqueNames'
<1>1. PICK n \in Names : FS!Create(f, n)
  BY DEF Create
<1>2. /\ FS!Live' = FS!Live \cup {f} /\ f \notin FS!Live
      /\ files'[f].name = n
      /\ \A g \in FS!Live : files'[g] = files[g] /\ files[g].name # n
  BY <1>1 DEF FS!Create, FS!Live
<1>3. QED
  BY <1>2 DEF NamesKept, OthersKept, FS!UniqueNames

LEMMA ChangeKeeps ==
  ASSUME FS!StoreTypeOK, NEW f \in FileIds, Change(f)
  PROVE  /\ NamesKept /\ OthersKept(f) /\ FS!Live \subseteq FS!Live'
         /\ FS!UniqueNames => FS!UniqueNames'
<1>1. ASSUME NEW data, f \in FS!Live, files' = [files EXCEPT ![f].data = data]
      PROVE  /\ FS!Live' = FS!Live
             /\ \A g \in FS!Live : files'[g].name = files[g].name
             /\ \A g \in FS!Live \ {f} : files'[g] = files[g]
  <2>1. files[f] \in FS!File
    BY <1>1, FileFields DEF FS!Live
  <2>2. files'[f].name = files[f].name
    BY <1>1, <2>1 DEF FS!File, FS!Live
  <2>3. FS!Live' = FS!Live /\ \A g \in FS!Live \ {f} : files'[g] = files[g]
    BY <1>1 DEF FS!Live
  <2>4. QED
    BY <2>2, <2>3
<1>2. \/ f \in FS!Live /\ UNCHANGED files
      \/ \E data : f \in FS!Live /\ files' = [files EXCEPT ![f].data = data]
  <2>1. ASSUME NEW more, f \in FS!Live, files' = [files EXCEPT ![f].data = @ \o more]
        PROVE  \E data : files' = [files EXCEPT ![f].data = data]
    <3>1. files' = [files EXCEPT ![f].data = files[f].data \o more]
      BY <2>1
    <3>2. QED
      BY <3>1
  <2>2. CASE FS!Clear(f)
    BY <2>2 DEF FS!Clear
  <2>3. ASSUME NEW src \in Writes, FS!Extend(f, src)
        PROVE  f \in FS!Live /\ \E data : files' = [files EXCEPT ![f].data = data]
    BY <2>1, <2>3 DEF FS!Extend
  <2>4. ASSUME NEW src \in Writes, FS!ExtendShort(f, src)
        PROVE  f \in FS!Live /\ (\/ UNCHANGED files
                                 \/ \E data : files' = [files EXCEPT ![f].data = data])
    <3>1. CASE f \in FS!Live /\ UNCHANGED files
      BY <3>1
    <3>2. CASE \E n \in 0 .. Len(src) - 1, junk \in [1 .. Chunk -> Bytes] :
                 /\ f \in FS!Live
                 /\ files' = [files EXCEPT ![f].data =
                                @ \o (SubSeq(src, 1, n) \o junk)]
      <4>1. PICK n \in 0 .. Len(src) - 1, junk \in [1 .. Chunk -> Bytes] :
                 /\ f \in FS!Live
                 /\ files' = [files EXCEPT ![f].data =
                                @ \o (SubSeq(src, 1, n) \o junk)]
        BY <3>2
      <4>2. QED
        BY <2>1, <4>1
    <3>3. QED
      BY <2>4, <3>1, <3>2 DEF FS!ExtendShort
  <2>5. QED
    BY <2>2, <2>3, <2>4 DEF Change
<1>3. /\ FS!Live' = FS!Live
      /\ \A g \in FS!Live : files'[g].name = files[g].name
      /\ \A g \in FS!Live \ {f} : files'[g] = files[g]
  BY <1>1, <1>2 DEF FS!Live
<1>4. QED
  BY <1>3 DEF NamesKept, OthersKept, FS!UniqueNames

LEMMA DeleteKeeps ==
  ASSUME NEW f, FS!Delete(f)
  PROVE  /\ NamesKept /\ OthersKept(f) /\ FS!Live' = FS!Live \ {f}
         /\ FS!UniqueNames => FS!UniqueNames'
<1>1. FS!Live' = FS!Live \ {f} /\ \A g \in FS!Live \ {f} : files'[g] = files[g]
  BY DEF FS!Delete, FS!Live
<1>2. QED
  BY <1>1 DEF NamesKept, OthersKept, FS!UniqueNames

LEMMA UnchangedKeeps ==
  ASSUME UNCHANGED files
  PROVE  NamesKept /\ FS!Live' = FS!Live /\ (FS!UniqueNames => FS!UniqueNames')
  BY DEF NamesKept, FS!Live, FS!UniqueNames

LEMMA FilesMoveKeeps ==
  ASSUME FS!StoreTypeOK, FilesMove
  PROVE  NamesKept /\ (FS!UniqueNames => FS!UniqueNames')
  BY CreateKeeps, ChangeKeeps, DeleteKeeps, UnchangedKeeps DEF FilesMove

\* A file that can be opened for writing is read by no process.
LEMMA CanOpenUnread ==
  ASSUME NEW f, CanOpen(f, WRITE)
  PROVE  Unread(f)
  BY DEF CanOpen, Unread, READ, LIST

\* Neither is one that a process writes.
LEMMA WrittenUnread ==
  ASSUME KernelInvariant, mode = "user", NEW k \in DOMAIN Current.streams,
         Current.streams[k].mode = WRITE
  PROVE  Unread(Current.streams[k].file)
<1>1. /\ DOMAIN procs = 1 .. Depth /\ Depth \in 1 .. Depth /\ Current = procs[Depth]
  BY Facts, StreamsBefore
<1>2. WriterExclusive
  BY DEF KernelInvariant
<1>3. ASSUME NEW i \in DOMAIN procs, NEW l \in DOMAIN procs[i].streams,
             procs[i].streams[l].mode = READ,
             procs[i].streams[l].file = Current.streams[k].file
      PROVE  FALSE
  <2>1. <<Depth, k>> = <<i, l>>
    BY <1>1, <1>2, <1>3 DEF WriterExclusive, Streams
  <2>2. QED
    BY <1>1, <1>3, <2>1 DEF READ, WRITE
<1>4. QED
  BY <1>3 DEF Unread

\* As long as a stream reads a file, the bytes of this file do not change.
LEMMA FrozenFiles ==
  ASSUME KernelInvariant, FilesMove
  PROVE  FrozenFilesStep
<1>1. ASSUME NEW i \in DOMAIN procs, NEW k \in DOMAIN Streams(i),
             IsStream(i, k, READ)
      PROVE  /\ Cursor(i, k) \in FS!Live'
             /\ files'[Cursor(i, k)] = files[Cursor(i, k)]
  <2>1. Streams(i)[k].mode = READ /\ Cursor(i, k) \in FS!Live
    BY <1>1 DEF KernelInvariant, StreamsSound, SoundIn, IsStream, Cursor, FS!Live
  <2>2. CASE UNCHANGED files
    BY <2>1, <2>2 DEF FS!Live
  <2>3. ASSUME NEW f \in FileIds, Unread(f), OthersKept(f)
        PROVE  /\ Cursor(i, k) \in FS!Live'
               /\ files'[Cursor(i, k)] = files[Cursor(i, k)]
    BY <2>1, <2>3 DEF Unread, OthersKept, Cursor, Streams
  <2>4. QED
    BY <2>2, <2>3, CreateKeeps, ChangeKeeps, DeleteKeeps
       DEF FilesMove, KernelInvariant, TypeOK
<1>2. QED
  BY <1>1 DEF FrozenFilesStep

-----------------------------------------------------------------------------
(***************************************************************************)
(* How a step moves the cursors of the listings.                           *)
(***************************************************************************)

\* A cursor stays on c, on a file that exists or at the end of the listing.
Stays(c, d) == d = c /\ c \in FS!Live' \cup {FS!NoFile}

\* A cursor moves from file c to the next one, d.
Advances(c, d) ==
  /\ c \in FS!Live /\ FS!IsFirst(FS!After(c), d)
  /\ d \in FS!Live' \cup {FS!NoFile}

\* A cursor advances because its file is deleted, or because the process
\* that makes the call reads its listing.
CursorMoves(i, k, d) ==
  \/ Stays(Cursor(i, k), d)
  \/ /\ Advances(Cursor(i, k), d)
     /\ Cursor(i, k) \in FS!Live' =>
          i = Depth /\ Depth' = Depth /\ procs'[i].r8 > 0

CursorsMove ==
  \A i \in DOMAIN procs \cap DOMAIN procs' : \A k \in DOMAIN Streams(i) :
    IsStream(i, k, LIST) /\ IsStream(i, k, LIST)' =>
      \E d : procs'[i].streams[k].file = d /\ CursorMoves(i, k, d)

AheadAfter(d) ==
  IF d = FS!NoFile THEN {}
  ELSE {d} \cup {g \in FS!Live' : files'[g].name > files'[d].name}

LEMMA NamesAreNumbers ==
  ASSUME FS!StoreTypeOK
  PROVE  \A g \in FS!Live : files[g].name \in Nat
  BY FileFields, KernelAssumption
     DEF KernelAssumption, FS!StoreAssumption, FS!Live

\* What is left of a listing whose cursor stays where it is.
LEMMA StaysAhead ==
  ASSUME NamesKept, NEW c, NEW d, Stays(c, d),
         c \in FS!Live \cup {FS!NoFile}
  PROVE  (Ahead(c) \cap FS!Live') \ {c} \subseteq AheadAfter(d)
<1>1. CASE c = FS!NoFile
  BY <1>1 DEF Ahead
<1>2. CASE c # FS!NoFile
  <2>1. c \in FS!Live /\ c \in FS!Live' /\ d = c
    BY <1>2 DEF Stays
  <2>2. files'[c].name = files[c].name
    BY <2>1 DEF NamesKept
  <2>3. ASSUME NEW g \in FS!After(c), g \in FS!Live'
        PROVE  g \in AheadAfter(c)
    <3>1. g \in FS!Live /\ files[g].name > files[c].name
      BY DEF FS!After
    <3>2. files'[g].name = files[g].name
      BY <2>3, <3>1 DEF NamesKept
    <3>3. QED
      BY <1>2, <2>2, <2>3, <3>1, <3>2 DEF AheadAfter
  <2>4. QED
    BY <1>2, <2>1, <2>3 DEF Ahead
<1>3. QED
  BY <1>1, <1>2

\* What is left of a listing whose cursor moves on to the next file.
LEMMA AdvancesAhead ==
  ASSUME FS!StoreTypeOK, FS!UniqueNames, NamesKept,
         NEW c, NEW d, Advances(c, d)
  PROVE  (Ahead(c) \cap FS!Live') \ {c} \subseteq AheadAfter(d)
<1>1. FS!NoFile \notin FS!Live
  BY FileIdsAreNumbers
<1>2. CASE FS!After(c) = {}
  BY <1>2 DEF Ahead
<1>3. CASE FS!After(c) # {}
  <2>1. d \in FS!After(c) /\ \A g \in FS!After(c) : files[d].name <= files[g].name
    BY <1>3 DEF Advances, FS!IsFirst
  <2>2. d \in FS!Live /\ d \in FS!Live' /\ d # FS!NoFile
    BY <1>1, <2>1 DEF FS!After, Advances
  <2>3. ASSUME NEW g \in FS!After(c), g \in FS!Live', g # d
        PROVE  g \in AheadAfter(d)
    <3>1. g \in FS!Live
      BY DEF FS!After
    <3>2. files'[g].name = files[g].name /\ files'[d].name = files[d].name
      BY <2>2, <2>3, <3>1 DEF NamesKept
    <3>3. files[g].name # files[d].name
      BY <2>2, <2>3, <3>1 DEF FS!UniqueNames
    <3>4. files[g].name > files[d].name
      BY <2>1, <2>2, <3>1, <3>3, NamesAreNumbers
    <3>5. QED
      BY <2>2, <2>3, <3>2, <3>4 DEF AheadAfter
  <2>4. QED
    BY <2>2, <2>3 DEF Ahead, AheadAfter
<1>4. QED
  BY <1>2, <1>3

\* A listing skips no file.
LEMMA ListingsFollow ==
  ASSUME KernelInvariant, FS!UniqueNames, FilesMove, CursorsMove
  PROVE  ListingsStep
<1>1. FS!StoreTypeOK /\ StreamsSound /\ NamesKept
  BY FilesMoveKeeps DEF KernelInvariant, TypeOK
<1>2. ASSUME NEW i \in DOMAIN procs \cap DOMAIN procs', NEW k \in DOMAIN Streams(i),
             IsStream(i, k, LIST), IsStream(i, k, LIST)'
      PROVE  /\ (ToList(i, k) \cap FS!Live') \ {Cursor(i, k)} \subseteq ToList(i, k)'
             /\ Cursor(i, k) \in FS!Live' /\ Cursor(i, k)' # Cursor(i, k) =>
                  i = Depth /\ Depth' = Depth /\ procs'[i].r8 > 0
  <2>1. PICK d : procs'[i].streams[k].file = d /\ CursorMoves(i, k, d)
    BY <1>2 DEF CursorsMove
  <2>2. Cursor(i, k)' = d /\ ToList(i, k)' = AheadAfter(d)
    BY <2>1 DEF Cursor, ToList, Ahead, AheadAfter, Streams, FS!After, FS!Live
  <2>3. PICK c : c = Cursor(i, k)
    OBVIOUS
  <2>4. c \in FS!Live \cup {FS!NoFile}
    BY <1>1, <1>2, <2>3 DEF StreamsSound, SoundIn, IsStream, Cursor, FS!Live
  <2>5. (Ahead(c) \cap FS!Live') \ {c} \subseteq AheadAfter(d)
    BY <1>1, <2>1, <2>3, <2>4, StaysAhead, AdvancesAhead DEF CursorMoves
  <2>6. Cursor(i, k) \in FS!Live' /\ d # Cursor(i, k) =>
          i = Depth /\ Depth' = Depth /\ procs'[i].r8 > 0
    BY <2>1 DEF CursorMoves, Stays
  <2>7. QED
    BY <2>2, <2>3, <2>5, <2>6 DEF ToList
<1>3. QED
  BY <1>2 DEF ListingsStep

-----------------------------------------------------------------------------
(***************************************************************************)
(* The actions, one after the other.                                       *)
(***************************************************************************)
Moves == FilesMove /\ CursorsMove /\ ResultsStep

\* The code passed to exit is the result of the parent, once its child is gone.
LEMMA ExitDelivers ==
  ASSUME KernelInvariant, NEW r \in ExitCodes, Exit(r), Pops
  PROVE  procs'[Depth - 1].r8 = r
<1>1. /\ mode = "user" /\ ExitStatus(r) \in Nat /\ r \in Nat
      /\ procs \in Seq(Process) /\ Depth \in Nat /\ Depth > 0
  BY KernelAssumption, Facts
     DEF Exit, ExitStatus, OK, INVALID_STATE, INVALID_ARGUMENT, KernelAssumption
<1>2. CASE Fail(ExitStatus(r))
  <2>1. PICK e \in Int : Succeed(Current, e) /\ Current \in Process
    BY <1>1, <1>2, ReturnError, Facts DEF Local
  <2>2. Depth' = Depth
    BY <1>1, <2>1, ReturnCurrent
  <2>3. QED
    BY <1>1, <2>2 DEF Pops, Depth
<1>3. CASE Return(Pop(r), Depth, OK)
  <2>1. Depth > 1
    BY DEF Pops
  <2>2. procs' = Pop(r) /\ Pop(r)[Depth - 1] = [procs[Depth - 1] EXCEPT !.r8 = r]
    BY <1>1, <1>3, <2>1, StackAfterExit
  <2>3. procs[Depth - 1] \in Process
    BY <1>1, <2>1, ProcsAreProcesses
  <2>4. QED
    BY <2>2, <2>3 DEF Process
<1>4. QED
  BY <1>2, <1>3 DEF Exit

LEMMA SameDepth ==
  ASSUME KernelInvariant, Depth \in Nat, Depth' = Depth
  PROVE  ResultsStep
<1>1. ~ Pops /\ Len(procs') # Depth + 1
  BY DEF Pops, Depth
<1>2. QED
  BY <1>1 DEF ResultsStep

\* A call that deletes no file and moves no cursor.
LEMMA CallMoves ==
  ASSUME KernelInvariant, mode = "user", NEW p \in Process, NEW r \in Int,
         Succeed(p, r), FilesMove, FS!Live \subseteq FS!Live',
         \A k \in DOMAIN p.streams \cap DOMAIN Current.streams :
           p.streams[k].mode = LIST /\ Current.streams[k].mode = LIST =>
             p.streams[k].file = Current.streams[k].file
  PROVE  Moves
<1>1. /\ procs \in Seq(Process) /\ Depth > 0 /\ Depth \in Nat
      /\ DOMAIN procs = 1 .. Depth /\ Current = procs[Depth]
  BY Facts, StreamsBefore
<1>2. /\ Depth' = Depth /\ procs'[Depth].streams = p.streams
      /\ \A i \in 1 .. Depth : i # Depth => procs'[i].streams = procs[i].streams
  BY <1>1, StreamsAfterCall
<1>3. ASSUME NEW i \in DOMAIN procs, NEW k \in DOMAIN Streams(i),
             IsStream(i, k, LIST), IsStream(i, k, LIST)'
      PROVE  Stays(Cursor(i, k), procs'[i].streams[k].file)
  <2>1. procs'[i].streams[k].file = procs[i].streams[k].file
    <3>1. CASE i = Depth
      BY <1>1, <1>2, <1>3, <3>1 DEF IsStream, Streams
    <3>2. CASE i # Depth
      BY <1>1, <1>2, <3>2
    <3>3. QED
      BY <3>1, <3>2
  <2>2. Cursor(i, k) \in FS!Live \cup {FS!NoFile}
    BY <1>3 DEF KernelInvariant, StreamsSound, SoundIn, IsStream, Cursor, FS!Live
  <2>3. QED
    BY <2>1, <2>2 DEF Stays, Cursor, Streams
<1>4. CursorsMove
  BY <1>3 DEF CursorsMove, CursorMoves
<1>5. QED
  BY <1>1, <1>2, <1>4, SameDepth DEF Moves

LEMMA LocalMoves ==
  ASSUME KernelInvariant, mode = "user", NEW p \in Process, NEW r \in Int,
         Local(p, r),
         \A k \in DOMAIN p.streams \cap DOMAIN Current.streams :
           p.streams[k].mode = LIST /\ Current.streams[k].mode = LIST =>
             p.streams[k].file = Current.streams[k].file
  PROVE  Moves
  BY CallMoves DEF Local, FilesMove, FS!Live

LEMMA ResultMoves ==
  ASSUME KernelInvariant, mode = "user", NEW r \in Int, Local(Current, r)
  PROVE  Moves
  BY Facts, LocalMoves

LEMMA FailMoves ==
  ASSUME KernelInvariant, mode = "user", NEW e \in Nat, Fail(e)
  PROVE  Moves
<1>1. Local(Current, Error(e)) /\ Error(e) \in Int
  BY Facts, ReturnError
<1>2. QED
  BY <1>1, ResultMoves

\* A call that sets an unused stream, or one that it does not move.
LEMMA SetStreamMoves ==
  ASSUME KernelInvariant, mode = "user", NEW id, IsOpen(id), NEW t \in Stream,
         t.mode = LIST => t.file = Current.streams[Slot(id)].file,
         NEW r \in Int, Local(SetStream(id, t), r)
  PROVE  Moves
<1> DEFINE k == Slot(id)
           ss == [Current.streams EXCEPT ![k] = t]
           p == [Current EXCEPT !.streams = ss]
<1>1. k \in 1 .. Len(Current.streams)
  BY Facts DEF IsOpen
<1>2. t.mode = LIST => t.file = Current.streams[k].file
  OBVIOUS
<1>3. Local(p, r)
  BY DEF SetStream
<1> HIDE DEF k
<1>4. /\ ss \in Seq(Stream) /\ ss[k] = t
      /\ \A l \in DOMAIN ss : l # k => ss[l] = Current.streams[l]
  BY <1>1, Facts, ExceptSeq
<1> HIDE DEF ss
<1>5. p \in Process /\ p.streams = ss
  BY <1>4, Facts, WithStreams
<1> HIDE DEF p
<1>6. \A l \in DOMAIN p.streams \cap DOMAIN Current.streams :
        p.streams[l].mode = LIST /\ Current.streams[l].mode = LIST =>
          p.streams[l].file = Current.streams[l].file
  BY <1>2, <1>4, <1>5
<1>7. QED
  BY <1>3, <1>5, <1>6, LocalMoves

LEMMA UseSlotMoves ==
  ASSUME KernelInvariant, mode = "user",
         NEW k \in 1 .. Len(Current.streams) + 1, IsFreeSlot(k),
         NEW s \in Stream, NEW r \in Int, UseSlot(k, s, r),
         FilesMove, FS!Live \subseteq FS!Live'
  PROVE  Moves
<1> DEFINE n == Len(Current.streams)
<1>1. n \in Nat /\ (NewSlot(k) <=> k > n) /\ DOMAIN Current.streams = 1 .. n
  BY Facts DEF NewSlot
<1>2. ASSUME NEW ss \in Seq(Stream), Succeed([Current EXCEPT !.streams = ss], r),
             \A l \in 1 .. n : l # k => ss[l] = Current.streams[l],
             k \in 1 .. n => Current.streams[k].mode = UNUSED
      PROVE  Moves
  <2> DEFINE p == [Current EXCEPT !.streams = ss]
  <2>1. p \in Process /\ p.streams = ss /\ Succeed(p, r)
    BY <1>2, Facts, WithStreams
  <2> HIDE DEF p, n
  <2>2. \A l \in DOMAIN p.streams \cap DOMAIN Current.streams :
          p.streams[l].mode = LIST /\ Current.streams[l].mode = LIST =>
            p.streams[l].file = Current.streams[l].file
    BY <1>1, <1>2, <2>1 DEF LIST, UNUSED
  <2>3. QED
    BY <2>1, <2>2, CallMoves
<1>3. CASE NewSlot(k)
  <2> DEFINE ss == Append(Current.streams, s)
  <2>1. Succeed([Current EXCEPT !.streams = ss], r)
    BY <1>3 DEF UseSlot
  <2>2. ss \in Seq(Stream) /\ \A l \in 1 .. n : ss[l] = Current.streams[l]
    BY Facts, AppendProperties
  <2>3. ~ k \in 1 .. n
    BY <1>1, <1>3
  <2> HIDE DEF ss, n
  <2>4. QED
    BY <1>2, <2>1, <2>2, <2>3
<1>4. CASE ~ NewSlot(k)
  <2> DEFINE ss == [Current.streams EXCEPT ![k] = s]
  <2>1. Succeed([Current EXCEPT !.streams = ss], r)
    BY <1>4 DEF UseSlot
  <2>2. k \in 1 .. n
    BY <1>1, <1>4
  <2>3. ss \in Seq(Stream) /\ \A l \in 1 .. n : l # k => ss[l] = Current.streams[l]
    BY <2>2, Facts, ExceptSeq
  <2>4. Current.streams[k].mode = UNUSED
    BY <2>2 DEF IsFreeSlot
  <2> HIDE DEF ss, n
  <2>5. QED
    BY <1>2, <2>1, <2>3, <2>4
<1>5. QED
  BY <1>3, <1>4

LEMMA OpenFailureMoves ==
  ASSUME KernelInvariant, mode = "user",
         NEW k \in 1 .. Len(Current.streams) + 1, IsFreeSlot(k),
         NEW e \in Nat, OpenFailure(k, e)
  PROVE  Moves
<1>1. Unused \in Stream /\ Error(e) \in Int
  BY DEF Unused, Stream, Modes, FS!NoFile, Error
<1>2. UseSlot(k, Unused, Error(e)) /\ FilesMove /\ FS!Live \subseteq FS!Live'
  BY DEF OpenFailure, FilesMove, FS!Live
<1>3. QED
  BY <1>1, <1>2, UseSlotMoves

LEMMA OpenSuccessMoves ==
  ASSUME KernelInvariant, mode = "user",
         NEW k \in 1 .. Len(Current.streams) + 1, IsFreeSlot(k),
         NEW m \in Modes, NEW f \in Nat, OpenSuccess(k, m, f),
         FilesMove, FS!Live \subseteq FS!Live'
  PROVE  Moves
<1> DEFINE s == [mode |-> m, file |-> f, offset |-> 0]
<1>1. s \in Stream /\ StreamId(k) \in Int
  BY Facts DEF Stream, StreamId, FIRST_FILE_STREAM_ID
<1>2. UseSlot(k, s, StreamId(k))
  BY DEF OpenSuccess
<1> HIDE DEF s
<1>3. QED
  BY <1>1, <1>2, UseSlotMoves

LEMMA OpenMoves ==
  ASSUME KernelInvariant, NEW n, NEW b, NEW m, Open(n, b, m)
  PROVE  Moves
<1>1. mode = "user"
  BY DEF Open
<1>2. CASE \E e \in {INVALID_ARGUMENT, OUT_OF_MEMORY} : Fail(e)
  BY <1>1, <1>2, FailMoves DEF INVALID_ARGUMENT, OUT_OF_MEMORY
<1>3. ASSUME NEW k \in 1 .. Len(Current.streams) + 1, IsFreeSlot(k),
             OpenList(k, m)
      PROVE  Moves
  <2>1. CASE OpenFailure(k, INVALID_ARGUMENT)
    BY <1>1, <1>3, <2>1, OpenFailureMoves DEF INVALID_ARGUMENT
  <2>2. ASSUME NEW f \in FS!Live \cup {FS!NoFile}, OpenSuccess(k, LIST, f),
               UNCHANGED files
        PROVE  Moves
    <3>1. f \in Nat /\ LIST \in Modes
      BY <1>1, Facts, FileIdsAreNumbers DEF FS!NoFile, Modes
    <3>2. FilesMove /\ FS!Live \subseteq FS!Live'
      BY <2>2 DEF FilesMove, FS!Live
    <3>3. QED
      BY <1>1, <1>3, <2>2, <3>1, <3>2, OpenSuccessMoves
  <2>3. QED
    BY <1>3, <2>1, <2>2 DEF OpenList
<1>4. ASSUME NEW k \in 1 .. Len(Current.streams) + 1, IsFreeSlot(k),
             OpenMissing(k, n, m)
      PROVE  Moves
  <2>1. CASE \E e \in {NOT_FOUND, INVALID_ARGUMENT, OUT_OF_MEMORY} : OpenFailure(k, e)
    BY <1>1, <1>4, <2>1, OpenFailureMoves
       DEF NOT_FOUND, INVALID_ARGUMENT, OUT_OF_MEMORY
  <2>2. ASSUME n \in ValidNames, NEW f \in FileIds, FS!Create(f, n),
               OpenSuccess(k, WRITE, f)
        PROVE  Moves
    <3>1. f \in Nat /\ f # FS!NoFile /\ f \notin DOMAIN files /\ WRITE \in Modes
      BY <1>1, <2>2, Facts, FileIdsAreNumbers DEF FS!Create, FS!Live, Modes
    <3>2. Create(f) /\ Unread(f)
      <4>1. n \in Names
        BY <2>2, KernelAssumption DEF KernelAssumption
      <4>2. QED
        BY <1>1, <2>2, <3>1, <4>1, NewFileCanOpen, CanOpenUnread DEF Create
    <3>3. FilesMove /\ FS!Live \subseteq FS!Live'
      BY <1>1, <3>2, Facts, CreateKeeps DEF FilesMove
    <3>4. QED
      BY <1>1, <1>4, <2>2, <3>1, <3>3, OpenSuccessMoves
  <2>3. QED
    BY <1>4, <2>1, <2>2 DEF OpenMissing
<1>5. ASSUME NEW k \in 1 .. Len(Current.streams) + 1, IsFreeSlot(k),
             NEW f \in FS!Live, m \in {READ, WRITE}, OpenExisting(k, f, m)
      PROVE  Moves
  <2>1. f \in Nat /\ f \in FileIds /\ m \in Modes
    BY <1>1, <1>5, Facts, FileIdsAreNumbers DEF Modes
  <2>2. CASE OpenFailure(k, INVALID_STATE)
    BY <1>1, <1>5, <2>2, OpenFailureMoves DEF INVALID_STATE
  <2>3. CASE CanOpen(f, WRITE) /\ OpenSuccess(k, m, f) /\ FS!Clear(f)
    <3>1. Change(f) /\ Unread(f)
      BY <2>3, CanOpenUnread DEF Change
    <3>2. FilesMove /\ FS!Live \subseteq FS!Live'
      BY <1>1, <2>1, <3>1, Facts, ChangeKeeps DEF FilesMove
    <3>3. QED
      BY <1>1, <1>5, <2>1, <2>3, <3>2, OpenSuccessMoves
  <2>4. CASE OpenSuccess(k, m, f) /\ UNCHANGED files
    <3>1. FilesMove /\ FS!Live \subseteq FS!Live'
      BY <2>4 DEF FilesMove, FS!Live
    <3>2. QED
      BY <1>1, <1>5, <2>1, <2>4, <3>1, OpenSuccessMoves
  <2>5. QED
    BY <1>5, <2>2, <2>3, <2>4 DEF OpenExisting
<1>6. \/ \E e \in {INVALID_ARGUMENT, OUT_OF_MEMORY} : Fail(e)
      \/ \E k \in 1 .. Len(Current.streams) + 1 :
           /\ IsFreeSlot(k) /\ m \in {READ, WRITE}
           /\ \/ OpenList(k, m)
              \/ OpenMissing(k, n, m)
              \/ \E f \in FS!Live : OpenExisting(k, f, m)
  BY DEF Open
<1>7. QED
  BY <1>2, <1>3, <1>4, <1>5, <1>6

\* The only call that moves the cursor of a listing onto the next file.
LEMMA ReadListMoves ==
  ASSUME KernelInvariant, mode = "user", NEW id, IsOpen(id), NEW size \in Nat \ {0},
         Current.streams[Slot(id)].mode = LIST,
         ReadList(id, Current.streams[Slot(id)], size)
  PROVE  Moves
<1> DEFINE k == Slot(id)
           s == Current.streams[k]
<1>1. CASE Local(Current, 0)
  BY <1>1, ResultMoves
<1>2. ASSUME s.file # FS!NoFile, NEW f \in FS!Live \cup {FS!NoFile},
             FS!IsFirst(FS!After(s.file), f),
             Local(SetStream(id, [s EXCEPT !.file = f]), Smaller(size, 1))
      PROVE  Moves
  <2> DEFINE t == [s EXCEPT !.file = f]
             ss == [Current.streams EXCEPT ![k] = t]
             p == [Current EXCEPT !.streams = ss]
             r == Smaller(size, 1)
  <2>1. k \in 1 .. Len(Current.streams)
    BY Facts DEF IsOpen
  <2>2. s \in Stream /\ s.mode = LIST /\ s.file \in FS!Live
    BY <1>2, OpenStream DEF SoundIn, FS!Live, LIST, UNUSED, READ, WRITE
  <2>3. f \in Nat /\ r \in Int /\ r > 0
    BY Facts, FileIdsAreNumbers DEF FS!NoFile, Smaller
  <2>4. Local(p, r)
    BY <1>2 DEF SetStream
  <2>5. FS!IsFirst(FS!After(s.file), f)
    BY <1>2
  <2> HIDE DEF s, k, r
  <2>6. t \in Stream /\ t.file = f
    BY <2>2, <2>3 DEF Stream
  <2> HIDE DEF t
  <2>7. /\ ss \in Seq(Stream) /\ ss[k] = t
        /\ \A l \in DOMAIN ss : l # k => ss[l] = Current.streams[l]
    BY <2>1, <2>6, Facts, ExceptSeq
  <2> HIDE DEF ss
  <2>8. p \in Process /\ p.streams = ss
    BY <2>7, Facts, WithStreams
  <2> HIDE DEF p
  <2>9. /\ Succeed(p, r) /\ FilesMove /\ FS!Live' = FS!Live
    BY <2>4 DEF Local, FilesMove, FS!Live
  <2>10. /\ procs \in Seq(Process) /\ Depth > 0 /\ Depth \in Nat
         /\ DOMAIN procs = 1 .. Depth /\ Current = procs[Depth]
    BY Facts, StreamsBefore
  <2>11. /\ Depth' = Depth /\ procs'[Depth].streams = p.streams
         /\ \A i \in 1 .. Depth : i # Depth => procs'[i].streams = procs[i].streams
         /\ procs'[Depth].r8 = r
    <3>1. Current' = [p EXCEPT !.r8 = r] /\ Depth' = Depth
      BY <2>3, <2>8, <2>9, <2>10, ReturnCurrent
    <3>2. procs'[Depth].r8 = r
      BY <2>8, <3>1 DEF Current, Process
    <3>3. QED
      BY <2>3, <2>8, <2>9, <2>10, <3>2, StreamsAfterCall
  <2>12. ASSUME NEW i \in DOMAIN procs, NEW l \in DOMAIN Streams(i),
                IsStream(i, l, LIST), IsStream(i, l, LIST)'
         PROVE  CursorMoves(i, l, procs'[i].streams[l].file)
    <3>1. Cursor(i, l) \in FS!Live \cup {FS!NoFile}
      BY <2>12 DEF KernelInvariant, StreamsSound, SoundIn, IsStream, Cursor, FS!Live
    <3>2. CASE i = Depth /\ l = k
      <4>1. Cursor(i, l) = s.file /\ procs'[i].streams[l].file = f
        BY <2>6, <2>7, <2>8, <2>10, <2>11, <3>2 DEF Cursor, Streams, s
      <4>2. Advances(s.file, f)
        BY <2>2, <2>5, <2>9 DEF Advances
      <4>3. QED
        BY <2>3, <2>11, <3>2, <4>1, <4>2 DEF CursorMoves
    <3>3. CASE ~ (i = Depth /\ l = k)
      <4>1. procs'[i].streams[l].file = Cursor(i, l)
        <5>1. CASE i = Depth
          BY <2>7, <2>8, <2>10, <2>11, <2>12, <3>3, <5>1 DEF IsStream, Cursor, Streams
        <5>2. CASE i # Depth
          BY <2>10, <2>11, <5>2 DEF Cursor, Streams
        <5>3. QED
          BY <5>1, <5>2
      <4>2. QED
        BY <2>9, <3>1, <4>1 DEF CursorMoves, Stays
    <3>4. QED
      BY <3>2, <3>3
  <2>13. CursorsMove
    BY <2>12 DEF CursorsMove
  <2>14. QED
    BY <2>9, <2>10, <2>11, <2>13, SameDepth DEF Moves
<1>3. QED
  BY <1>1, <1>2 DEF ReadList

LEMMA ReadMoves ==
  ASSUME KernelInvariant, NEW id \in StreamIds, NEW b \in Buffers, Read(id, b)
  PROVE  Moves
<1>1. mode = "user" /\ b.size \in Nat
  BY KernelAssumption DEF Read, KernelAssumption
<1>2. ReadStatus(id, b) \in Nat
  BY DEF ReadStatus, OK, INVALID_ARGUMENT, INVALID_STATE, NOT_FOUND
<1>3. CASE Fail(ReadStatus(id, b))
  BY <1>1, <1>2, <1>3, FailMoves
<1>4. CASE Local(Current, 1)
  BY <1>1, <1>4, ResultMoves
<1>5. ASSUME ReadStatus(id, b) = OK, id >= FIRST_FILE_STREAM_ID
      PROVE  IsOpen(id) /\ b.size # 0
  <2>1. id \in Nat
    BY KernelAssumption DEF KernelAssumption
  <2>2. QED
    BY <1>5, <2>1
       DEF ReadStatus, OK, INVALID_ARGUMENT, INVALID_STATE, NOT_FOUND, KEYBOARD,
           STANDARD_INPUT, STANDARD_OUTPUT, GPU, FIRST_FILE_STREAM_ID
<1>6. CASE /\ ReadStatus(id, b) = OK /\ id >= FIRST_FILE_STREAM_ID
           /\ Current.streams[Slot(id)].mode = LIST
           /\ ReadList(id, Current.streams[Slot(id)], b.size)
  BY <1>1, <1>5, <1>6, ReadListMoves
<1>7. CASE /\ ReadStatus(id, b) = OK /\ id >= FIRST_FILE_STREAM_ID
           /\ Current.streams[Slot(id)].mode = READ
           /\ ReadFile(id, Current.streams[Slot(id)], b.size)
  <2> DEFINE s == Current.streams[Slot(id)]
             last == FS!LastBlockStart(files[s.file].name, Len(files[s.file].data))
  <2>1. s \in Stream /\ SoundIn(files, s) /\ s.mode = READ /\ IsOpen(id)
    BY <1>1, <1>5, <1>7, OpenStream
  <2>2. s.file \in DOMAIN files /\ s.offset \in Nat
    BY <2>1 DEF SoundIn, Stream
  <2>3. Len(files[s.file].data) \in Nat /\ last \in Nat
    BY <1>1, <2>2, Facts, FileFields, LastBlockInFile
  <2>4. ASSUME NEW offset \in Nat, NEW r \in Int,
               Local(SetStream(id, [s EXCEPT !.offset = offset]), r)
        PROVE  Moves
    <3> DEFINE t == [s EXCEPT !.offset = offset]
    <3>1. Local(SetStream(id, t), r) /\ t \in Stream /\ t.file = s.file
      BY <2>1, <2>4 DEF Stream
    <3> HIDE DEF t
    <3>2. QED
      BY <1>1, <2>1, <3>1, SetStreamMoves
  <2>5. \/ Local(SetStream(id, [s EXCEPT !.offset = s.offset + b.size]), b.size)
        \/ Local(SetStream(id, [s EXCEPT !.offset = Larger(s.offset, last)]),
                 Len(files[s.file].data) - s.offset)
    BY <1>7 DEF ReadFile
  <2> HIDE DEF s, last
  <2>6. s.offset + b.size \in Nat /\ Larger(s.offset, last) \in Nat
        /\ b.size \in Int /\ Len(files[s.file].data) - s.offset \in Int
    BY <1>1, <2>2, <2>3 DEF Larger
  <2>7. QED
    BY <2>4, <2>5, <2>6
<1>8. QED
  BY <1>3, <1>4, <1>6, <1>7 DEF Read

LEMMA SameStreams ==
  ASSUME KernelInvariant, UNCHANGED files,
         \A i \in DOMAIN procs \cap DOMAIN procs' :
           procs'[i].streams = procs[i].streams
  PROVE  FilesMove /\ CursorsMove
<1>1. FilesMove /\ FS!Live' = FS!Live
  BY DEF FilesMove, FS!Live
<1>2. ASSUME NEW i \in DOMAIN procs \cap DOMAIN procs', NEW k \in DOMAIN Streams(i),
             IsStream(i, k, LIST)
      PROVE  CursorMoves(i, k, procs'[i].streams[k].file)
  <2>1. Cursor(i, k) \in FS!Live \cup {FS!NoFile}
    BY <1>2 DEF KernelInvariant, StreamsSound, SoundIn, IsStream, Cursor, FS!Live
  <2>2. procs'[i].streams[k].file = Cursor(i, k)
    BY DEF Cursor, Streams
  <2>3. QED
    BY <1>1, <2>1, <2>2 DEF CursorMoves, Stays
<1>3. QED
  BY <1>1, <1>2 DEF CursorsMove

\* The stack is unchanged.
LEMMA IdleMoves ==
  ASSUME KernelInvariant, UNCHANGED <<procs, files>>
  PROVE  Moves
<1>1. Depth \in Nat /\ Depth' = Depth
  BY DEF KernelInvariant, TypeOK, Depth
<1>2. QED
  BY <1>1, SameStreams, SameDepth DEF Moves

LEMMA KnownOutputMoves ==
  ASSUME KernelInvariant, mode = "user", NEW size \in Nat, OutputKnown,
         WriteOutput(size)
  PROVE  Moves
<1> DEFINE n == Smaller(size, Current.outputLimit - Current.output)
           p == [Current EXCEPT !.output = Current.output + n]
<1>1. Local(p, n)
  BY DEF WriteOutput
<1>2. Current.output \in Nat /\ Current.outputLimit \in Nat /\ Current \in Process
  BY Facts, ProcessFields
<1>3. /\ Current.output <= Current.outputLimit
  <2>1. Depth \in 2 .. Depth /\ RegionsNested /\ Current = procs[Depth] /\ honest
    BY Facts DEF KernelInvariant, Current, OutputKnown
  <2>2. QED
    BY <2>1 DEF RegionsNested, Nested
<1>4. n \in Nat
  BY <1>2, <1>3 DEF Smaller
<1> HIDE DEF n
<1>5. p \in Process /\ p.streams = Current.streams
  <2>1. Current.output + n \in Nat
    BY <1>2, <1>4
  <2>2. QED
    BY <1>2, <2>1 DEF Process
<1> HIDE DEF p
<1>6. QED
  BY <1>1, <1>4, <1>5, LocalMoves

LEMMA WriteMoves ==
  ASSUME KernelInvariant, NEW id \in StreamIds, NEW b \in Buffers, Write(id, b)
  PROVE  Moves
<1>1. mode = "user" /\ b.size \in Nat /\ id \in Nat
  BY KernelAssumption DEF Write, KernelAssumption
<1>2. WriteStatus(id, b) \in Nat
  BY DEF WriteStatus, OK, INVALID_ARGUMENT, INVALID_STATE, NOT_FOUND
<1>3. CASE Fail(WriteStatus(id, b))
  BY <1>1, <1>2, <1>3, FailMoves
<1>4. CASE WriteOutput(b.size)
  <2>1. ASSUME NEW n \in 0 .. b.size, Local(Current, n)
        PROVE  Moves
    BY <1>1, <2>1, ResultMoves
  <2>2. CASE Lose
    BY <2>2, IdleMoves DEF Lose
  <2>3. CASE OutputKnown
    BY <1>1, <1>4, <2>3, KnownOutputMoves
  <2>4. QED
    BY <1>4, <2>1, <2>2, <2>3 DEF WriteOutput
<1>5. CASE WriteGpu(b.size)
  <2>1. (b.size \div 3) * 3 \in Int
    BY <1>1
  <2>2. QED
    BY <1>1, <1>5, <2>1, ResultMoves DEF WriteGpu
<1>6. CASE WriteStatus(id, b) = OK /\ id >= FIRST_FILE_STREAM_ID
           /\ WriteFile(Current.streams[Slot(id)].file, b.size)
  <2>1. IsOpen(id) /\ Current.streams[Slot(id)].mode = WRITE
    BY <1>1, <1>6
       DEF WriteStatus, OK, INVALID_ARGUMENT, INVALID_STATE, NOT_FOUND, KEYBOARD,
           STANDARD_INPUT, STANDARD_OUTPUT, GPU, FIRST_FILE_STREAM_ID
  <2>2. PICK f : f = Current.streams[Slot(id)].file
    OBVIOUS
  <2>3. f \in FS!Live /\ f \in FileIds
    BY <1>1, <2>1, <2>2, OpenStream, Facts, FileIdsAreNumbers DEF SoundIn, FS!Live
  <2>4. Unread(f)
    BY <1>1, <2>1, <2>2, WrittenUnread DEF IsOpen
  <2>5. PICK src \in Writes :
          \/ FS!Extend(f, src) /\ Succeed(Current, b.size)
          \/ FS!ExtendShort(f, src) /\ Succeed(Current, Error(OUT_OF_MEMORY))
    BY <1>6, <2>2 DEF WriteFile
  <2>6. PICK r \in Int : Succeed(Current, r)
    BY <1>1, <2>5 DEF Error, OUT_OF_MEMORY
  <2>7. Change(f)
    BY <2>5 DEF Change
  <2>8. FilesMove /\ FS!Live \subseteq FS!Live'
    BY <1>1, <2>3, <2>4, <2>7, Facts, ChangeKeeps DEF FilesMove
  <2>9. QED
    BY <1>1, <2>6, <2>8, Facts, CallMoves
<1>7. QED
  BY <1>3, <1>4, <1>5, <1>6 DEF Write

LEMMA CloseMoves ==
  ASSUME KernelInvariant, NEW id, Close(id)
  PROVE  Moves
<1>1. mode = "user"
  BY DEF Close
<1>2. Unused \in Stream /\ Unused.mode # LIST
  BY DEF Unused, Stream, Modes, UNUSED, LIST, FS!NoFile
<1>3. CASE IsOpen(id) /\ Local(SetStream(id, Unused), OK)
  BY <1>1, <1>2, <1>3, SetStreamMoves DEF OK
<1>4. CASE Fail(NOT_FOUND)
  BY <1>1, <1>4, FailMoves DEF NOT_FOUND
<1>5. QED
  BY <1>3, <1>4 DEF Close

LEMMA StatMoves ==
  ASSUME KernelInvariant, NEW n, NEW b, Stat(n, b)
  PROVE  Moves
<1>1. PICK f \in FS!Live \cup {FS!NoFile} :
        IF StatStatus(f, b) = OK THEN Local(Current, Len(files[f].data))
                                 ELSE Fail(StatStatus(f, b))
  BY DEF Stat
<1>2. mode = "user" /\ StatStatus(f, b) \in Nat
  BY DEF Stat, StatStatus, OK, INVALID_ARGUMENT, NOT_FOUND
<1>3. CASE StatStatus(f, b) = OK
  <2>1. f \in DOMAIN files
    BY <1>3 DEF StatStatus, OK, INVALID_ARGUMENT, NOT_FOUND, FS!Live
  <2>2. QED
    BY <1>1, <1>2, <1>3, <2>1, Facts, FileFields, ResultMoves
<1>4. CASE StatStatus(f, b) # OK
  BY <1>1, <1>2, <1>4, FailMoves
<1>5. QED
  BY <1>3, <1>4

LEMMA DeleteMoves ==
  ASSUME KernelInvariant, NEW n, NEW b, Delete(n, b)
  PROVE  Moves
<1>1. PICK f \in FS!Live \cup {FS!NoFile} :
        LET status == DeleteStatus(f, b) IN
        \/ status # OK /\ Fail(status)
        \/ /\ status = OK
           /\ \E next \in FS!Live \cup {FS!NoFile} :
                /\ FS!IsFirst(FS!After(f), next)
                /\ Return(MoveCursors(f, next), Depth, OK)
           /\ FS!Delete(f)
           /\ UNCHANGED <<mode, heap, userPages, userTables, honest>>
  BY DEF Delete
<1>2. mode = "user" /\ DeleteStatus(f, b) \in Nat
  BY DEF Delete, DeleteStatus, OK, INVALID_ARGUMENT, INVALID_STATE, NOT_FOUND
<1>3. CASE Fail(DeleteStatus(f, b))
  BY <1>2, <1>3, FailMoves
<1>4. ASSUME DeleteStatus(f, b) = OK, FS!Delete(f),
             NEW next \in FS!Live \cup {FS!NoFile},
             FS!IsFirst(FS!After(f), next),
             Return(MoveCursors(f, next), Depth, OK)
      PROVE  Moves
  <2>1. f \in FS!Live /\ f \in FileIds /\ f # FS!NoFile /\ CanOpen(f, WRITE)
    BY <1>2, <1>4, Facts, FileIdsAreNumbers
       DEF DeleteStatus, OK, INVALID_ARGUMENT, INVALID_STATE, NOT_FOUND
  <2>2. next \in Nat /\ next \in (FS!Live \ {f}) \cup {FS!NoFile}
    BY <1>2, <1>4, <2>1, Facts, NextFile
  <2>3. /\ Depth' = Depth /\ Depth \in Nat /\ DOMAIN procs = 1 .. Depth
        /\ \A i \in 1 .. Depth :
             /\ procs[i] \in Process
             /\ procs'[i].streams = Moved(procs[i].streams, f, next)
    BY <1>2, <1>4, <2>2, Facts, StackAfterDelete
  <2>4. FilesMove /\ FS!Live' = FS!Live \ {f}
    BY <1>4, <2>1, CanOpenUnread, DeleteKeeps DEF FilesMove
  <2>5. ASSUME NEW i \in DOMAIN procs, NEW k \in DOMAIN Streams(i),
               IsStream(i, k, LIST)
        PROVE  CursorMoves(i, k, procs'[i].streams[k].file)
    <3>1. Cursor(i, k) \in FS!Live \cup {FS!NoFile}
      BY <2>5 DEF KernelInvariant, StreamsSound, SoundIn, IsStream, Cursor, FS!Live
    <3>2. procs'[i].streams[k].file = IF Cursor(i, k) = f THEN next ELSE Cursor(i, k)
      <4>1. procs[i].streams \in Seq(Stream)
        BY <2>3, ProcessFields
      <4>2. Streams(i)[k].mode = LIST
        BY <2>5 DEF IsStream
      <4>3. QED
        BY <2>2, <2>3, <4>1, <4>2, MovedStreams DEF Streams, Cursor
    <3>3. CASE Cursor(i, k) = f
      <4>1. Advances(f, next)
        BY <1>4, <2>1, <2>2, <2>4 DEF Advances
      <4>2. QED
        BY <2>4, <3>2, <3>3, <4>1 DEF CursorMoves
    <3>4. CASE Cursor(i, k) # f
      BY <2>4, <3>1, <3>2, <3>4 DEF CursorMoves, Stays
    <3>5. QED
      BY <3>3, <3>4
  <2>6. CursorsMove
    BY <2>5 DEF CursorsMove
  <2>7. QED
    BY <2>3, <2>4, <2>6, SameDepth DEF Moves
<1>5. QED
  BY <1>1, <1>3, <1>4

\* The streams of the processes that stay on the stack are unchanged.
LEMMA SpawnMoves ==
  ASSUME KernelInvariant, NEW c \in SpawnCalls, Spawn(c)
  PROVE  Moves
<1> DEFINE begin == PageUp(c.dst)
           end == PageDown(c.stackPointer)
<1>1. PICK f \in FS!Live \cup {FS!NoFile} :
        LET status == SpawnStatus(c, f, begin, end)
            p == Child(f, begin, end, c.output, c.dst)
        IN  \/ status # OK /\ Fail(status)
            \/ /\ status = OK
               /\ Push(p)
               /\ Return(Append(procs, p), Depth, OK)
               /\ honest' = (honest /\ Honest(c, begin, end))
               /\ UNCHANGED mode
            \/ Lose
  BY DEF Spawn
<1> DEFINE p == Child(f, begin, end, c.output, c.dst)
<1>2. mode = "user" /\ SpawnStatus(c, f, begin, end) \in Nat
  BY DEF Spawn, SpawnStatus, OK, OUT_OF_MEMORY, INVALID_ARGUMENT, NOT_FOUND
<1>3. CASE Fail(SpawnStatus(c, f, begin, end))
  BY <1>2, <1>3, FailMoves
<1>4. CASE /\ SpawnStatus(c, f, begin, end) = OK
           /\ Push(p)
           /\ Return(Append(procs, p), Depth, OK)
  <2>1. /\ c.dst \in Nat /\ c.stackPointer \in Nat /\ c.output \in Nat
    BY KernelAssumption DEF KernelAssumption
  <2>2. begin \in Nat /\ end \in Nat
    BY <2>1, PageBounds
  <2> HIDE DEF begin, end
  <2>3. f \in FS!Live
    BY <1>4 DEF SpawnStatus, OK, OUT_OF_MEMORY, INVALID_ARGUMENT, NOT_FOUND
  <2>4. p \in Process /\ p.r8 >= p.begin
    <3> DEFINE len == Len(files[f].data)
               r8 == begin + len
               output == c.output
               dst == c.dst
    <3>1. len \in Nat /\ heap \in Nat
      BY <1>2, <2>3, Facts, FileFields DEF FS!Live
    <3> HIDE DEF len, output, dst
    <3>2. r8 \in Int /\ r8 >= begin
      BY <2>2, <3>1
    <3> HIDE DEF r8
    <3>3. p = [begin |-> begin, end |-> end, base |-> heap, r8 |-> r8,
               output |-> output, outputLimit |-> dst, streams |-> <<>>]
      BY DEF Child, r8, len, output, dst
    <3>4. output \in Nat /\ dst \in Nat
      BY <2>1 DEF output, dst
    <3> HIDE DEF p
    <3>5. QED
      BY <2>2, <3>1, <3>2, <3>3, <3>4 DEF Process
  <2> HIDE DEF p
  <2>5. procs \in Seq(Process) /\ Depth > 0 /\ Depth \in Nat
        /\ DOMAIN procs = 1 .. Depth
        /\ \A i \in 1 .. Depth : procs[i] \in Process
    BY <1>2, Facts, ProcsAreProcesses
  <2>6. /\ Depth' = Depth + 1
        /\ \A i \in 1 .. Depth - 1 : procs'[i] = procs[i]
        /\ procs'[Depth] = [Current EXCEPT !.r8 = OK]
        /\ procs'[Depth + 1] = p
    BY <1>4, <2>4, <2>5, StackAfterSpawn
  <2>7. procs'[Depth].r8 = OK /\ procs'[Depth].streams = procs[Depth].streams
    BY <2>5, <2>6 DEF Current, Process
  <2>8. ASSUME NEW i \in DOMAIN procs
        PROVE  procs'[i].streams = procs[i].streams
    <3>1. CASE i = Depth
      BY <2>7, <3>1
    <3>2. CASE i # Depth
      <4>1. i \in 1 .. Depth - 1
        BY <2>5, <3>2
      <4>2. procs'[i] = procs[i]
        BY <2>6, <4>1
      <4>3. QED
        BY <4>2
    <3>3. QED
      BY <3>1, <3>2
  <2>9. UNCHANGED files
    BY <1>4 DEF Push
  <2>10. ResultsStep
    <3>1. procs'[Depth + 1].r8 >= procs'[Depth + 1].begin
      BY <2>4, <2>6
    <3>2. ~ (Len(procs') = Depth - 1)
      <4>1. Len(procs') = Depth + 1 /\ Depth \in Nat
        BY <2>5, <2>6 DEF Depth
      <4>2. QED
        BY ONLY <4>1
    <3>3. QED
      BY <2>7, <3>1, <3>2 DEF ResultsStep, Pops
  <2>11. QED
    BY <2>8, <2>9, <2>10, SameStreams DEF Moves
<1>5. CASE Lose
  BY <1>5, IdleMoves DEF Lose
<1>6. QED
  BY <1>1, <1>3, <1>4, <1>5

LEMMA PopMoves ==
  ASSUME KernelInvariant, Depth > 1, NEW r \in Nat,
         mode = "user" => r \in ExitCodes /\ r < ErrorBase /\ Exit(r),
         mode = "fault" => r = INTERNAL_ERROR,
         OsExit(r), procs' = Pop(r)
  PROVE  Moves
<1>1. procs \in Seq(Process) /\ Depth \in Nat /\ DOMAIN procs = 1 .. Depth
      /\ \A i \in 1 .. Depth : procs[i] \in Process
  BY ProcsAreProcesses DEF KernelInvariant, TypeOK
<1>2. /\ procs' \in Seq(Process) /\ Len(procs') = Depth - 1
      /\ \A i \in 1 .. Depth - 2 : procs'[i] = procs[i]
      /\ procs'[Depth - 1] = [procs[Depth - 1] EXCEPT !.r8 = r]
  BY <1>1, StackAfterExit, Zenon
<1>3. procs'[Depth - 1].r8 = r
      /\ procs'[Depth - 1].streams = procs[Depth - 1].streams
  BY <1>1, <1>2 DEF Process
<1>4. DOMAIN procs' = 1 .. Depth - 1
  BY <1>2
<1>5. ASSUME NEW i \in DOMAIN procs'
      PROVE  procs'[i].streams = procs[i].streams
  <2>1. CASE i = Depth - 1
    BY <1>3, <2>1
  <2>2. CASE i # Depth - 1
    <3>1. i \in 1 .. Depth - 2
      BY <1>1, <1>4, <2>2
    <3>2. procs'[i] = procs[i]
      BY <1>2, <3>1
    <3>3. QED
      BY <3>2
  <2>3. QED
    BY <2>1, <2>2
<1>6. UNCHANGED files
  BY DEF OsExit
<1>7. ResultsStep
  <2>1. ~ (Len(procs') = Depth + 1)
    BY <1>1, <1>2
  <2>2. QED
    BY <1>3, <2>1, ExitDelivers, Zenon DEF ResultsStep
<1>8. QED
  BY <1>5, <1>6, <1>7, SameStreams DEF Moves

LEMMA ExitMoves ==
  ASSUME KernelInvariant, NEW r \in ExitCodes, Exit(r)
  PROVE  Moves
<1>1. mode = "user" /\ ExitStatus(r) \in Nat /\ r \in Nat
  BY KernelAssumption
     DEF Exit, ExitStatus, OK, INVALID_STATE, INVALID_ARGUMENT, KernelAssumption
<1>2. CASE Fail(ExitStatus(r))
  BY <1>1, <1>2, FailMoves
<1>3. CASE /\ ExitStatus(r) = OK
           /\ OsExit(r)
           /\ Return(Pop(r), Depth, OK)
  <2>1. procs \in Seq(Process) /\ Depth \in Nat /\ Depth > 0
    BY <1>1, Facts
  <2>2. Depth > 1
    BY <1>3, <2>1 DEF ExitStatus, OK, INVALID_STATE
  <2>3. procs' = Pop(r)
    BY <1>1, <1>3, <2>1, <2>2, StackAfterExit
  <2>4. r < ErrorBase
    BY <1>1, <1>3, KernelAssumption
       DEF ExitStatus, OK, INVALID_STATE, INVALID_ARGUMENT, KernelAssumption
  <2>5. QED
    BY <1>1, <1>3, <2>2, <2>3, <2>4, PopMoves
<1>4. QED
  BY <1>2, <1>3 DEF Exit

LEMMA HandleFaultMoves ==
  ASSUME KernelInvariant, HandleFault
  PROVE  Moves
<1>1. procs \in Seq(Process) /\ Depth \in Nat /\ Depth > 0
  BY DEF KernelInvariant, TypeOK, HandleFault, Depth
<1>2. CASE OsExit(INTERNAL_ERROR) /\ procs' = Pop(INTERNAL_ERROR) /\ Depth # 1
  BY <1>1, <1>2, PopMoves DEF HandleFault, INTERNAL_ERROR
<1>3. CASE UNCHANGED <<procs, heap, userPages, userTables, honest, files>>
  BY <1>3, IdleMoves
<1>4. QED
  BY <1>2, <1>3 DEF HandleFault, ExitStatus, OK, INVALID_STATE

LEMMA SpawnShellMoves ==
  ASSUME KernelInvariant, SpawnShell
  PROVE  Moves
<1>1. Depth = 0 /\ DOMAIN procs = {}
  BY DEF KernelInvariant, TypeOK, SpawnShell, Depth
<1>2. UNCHANGED files
  BY DEF SpawnShell, Push
<1>3. ResultsStep
  BY <1>1, ExitDelivers DEF ResultsStep, Pops
<1>4. QED
  BY <1>1, <1>2, <1>3, SameStreams DEF Moves

\* The reboot of a root process leaves an empty stack.
LEMMA RebootMoves ==
  ASSUME KernelInvariant, Reboot
  PROVE  Moves
<1>1. procs' = <<>> /\ UNCHANGED files /\ DOMAIN procs' = {} /\ Len(procs') = 0
  BY DEF Reboot
<1>2. Depth \in Nat
  BY DEF KernelInvariant, TypeOK, Depth
<1>3. ResultsStep
  BY <1>1, <1>2, ExitDelivers DEF ResultsStep, Pops
<1>4. QED
  BY <1>1, <1>3, SameStreams DEF Moves

LEMMA NextMoves ==
  ASSUME KernelInvariant, [Next]_vars
  PROVE  Moves
<1>1. CASE SpawnShell
  BY <1>1, SpawnShellMoves
<1>2. ASSUME NEW c \in SpawnCalls, Spawn(c)
      PROVE  Moves
  BY <1>2, SpawnMoves
<1>3. ASSUME NEW r \in ExitCodes, Exit(r)
      PROVE  Moves
  BY <1>3, ExitMoves
<1>4. CASE Fault
  BY <1>4, IdleMoves DEF Fault
<1>5. CASE HandleFault
  BY <1>5, HandleFaultMoves
<1>6. ASSUME NEW n \in Names \cup {EmptyName}, NEW b \in Buffers,
             NEW m \in {READ, WRITE, UNUSED}, Open(n, b, m)
      PROVE  Moves
  BY <1>6, OpenMoves DEF Modes
<1>7. ASSUME NEW id \in StreamIds, NEW b \in Buffers, Read(id, b)
      PROVE  Moves
  BY <1>7, ReadMoves
<1>8. ASSUME NEW id \in StreamIds, NEW b \in Buffers, Write(id, b)
      PROVE  Moves
  BY <1>8, WriteMoves
<1>9. ASSUME NEW id \in StreamIds, Close(id)
      PROVE  Moves
  BY <1>9, CloseMoves
<1>10. ASSUME NEW n \in Names \cup {EmptyName}, NEW b \in Buffers, Delete(n, b)
       PROVE  Moves
  BY <1>10, DeleteMoves
<1>11. ASSUME NEW n \in Names \cup {EmptyName}, NEW b \in Buffers, Stat(n, b)
       PROVE  Moves
  BY <1>11, StatMoves
<1>12. CASE Sleep
  BY <1>12, ResultMoves DEF Sleep, OK
<1>13. CASE BadCall
  BY <1>13, FailMoves DEF BadCall, INVALID_ARGUMENT
<1>14. CASE Reboot
  BY <1>14, RebootMoves
<1>15. CASE Overwrite
  BY <1>15, IdleMoves DEF Overwrite, Lose
<1>16. CASE UNCHANGED vars
  BY <1>16, IdleMoves DEF vars
<1>17. QED
  BY <1>1, <1>2, <1>3, <1>4, <1>5, <1>6, <1>7, <1>8, <1>9, <1>10, <1>11, <1>12,
     <1>13, <1>14, <1>15, <1>16 DEF Next, Lost

-----------------------------------------------------------------------------
(***************************************************************************)
(* The theorems.                                                           *)
(***************************************************************************)

\* No two files have the same name, in any state of the kernel: open makes a
\* file only after it found no file with this name.
THEOREM NamesStayUnique == Spec => []FS!UniqueNames
<1>1. Init => FS!UniqueNames
  BY KernelAssumption
     DEF Init, FS!Init, KernelAssumption, FS!StoreAssumption, FS!UniqueNames, FS!Live
<1>2. KernelInvariant /\ FS!UniqueNames /\ [Next]_vars => FS!UniqueNames'
  BY NextMoves, FilesMoveKeeps DEF Moves, KernelInvariant, TypeOK
<1>3. QED
  BY <1>1, <1>2, KernelInvariantHolds, PTL DEF Spec

\* The kernel changes the disk by the operations of the file store only, one
\* in a system call: it implements the store that it is written on.
THEOREM KernelUsesStore == Spec => FS!Spec
<1>1. Init => FS!Init
  BY DEF Init
<1>2. KernelInvariant /\ [Next]_vars => [FS!Next]_files
  <2> SUFFICES ASSUME KernelInvariant, [Next]_vars, ~ UNCHANGED files
               PROVE  FS!Next
    OBVIOUS
  <2>1. PICK f \in FileIds : Create(f) \/ Change(f) \/ FS!Delete(f)
    BY NextMoves DEF Moves, FilesMove
  <2>2. f \in FS!Live \/ Create(f)
    BY <2>1 DEF Change, FS!Clear, FS!Extend, FS!ExtendShort, FS!Delete
  <2>3. QED
    BY <2>1, <2>2 DEF Create, Change, FS!Next
<1>3. QED
  BY <1>1, <1>2, KernelInvariantHolds, PTL DEF Spec, FS!Spec

\* As long as a process has a file open for reading, no other call of any
\* process changes its bytes or removes it (process_can_open).
THEOREM ReadersAreSafe == Spec => ReadersSeeFrozenFiles
<1>1. KernelInvariant /\ [Next]_vars => FrozenFilesStep
  BY NextMoves, FrozenFiles DEF Moves
<1>2. QED
  BY <1>1, KernelInvariantHolds, PTL DEF Spec, ReadersSeeFrozenFiles

\* A listing that stays open skips no file, whatever files are created or
\* deleted between two reads (os_delete moves the cursors).
THEOREM ListingsAreComplete == Spec => ListingsSkipNothing
<1>1. KernelInvariant /\ FS!UniqueNames /\ [Next]_vars => ListingsStep
  BY NextMoves, ListingsFollow DEF Moves
<1>2. QED
  BY <1>1, KernelInvariantHolds, NamesStayUnique, PTL DEF Spec, ListingsSkipNothing

\* spawn starts the child with its heap address, and the parent gets the exit
\* code of its child, never the result of the call that ended the child.
THEOREM ResultsAreDelivered == Spec => ResultsDelivered
<1>1. KernelInvariant /\ [Next]_vars => ResultsStep
  BY NextMoves DEF Moves
<1>2. QED
  BY <1>1, KernelInvariantHolds, PTL DEF Spec, ResultsDelivered
=============================================================================
