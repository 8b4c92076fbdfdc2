------------------------------ MODULE Programs ------------------------------
(***************************************************************************)
(* The programs copy, stat, list and delete (src/copy, src/stat, src/list, *)
(* src/delete), on the file system FileStore.  A state of the model is one *)
(* run of one program; the messages are left out.                          *)
(*                                                                         *)
(* A read past the end of a file gives what is left and leaves the stream  *)
(* in the last block, where the next read would begin again (see BlockFS). *)
(***************************************************************************)
EXTENDS FileStore, FiniteSets

CONSTANTS
  BufferSize,  \* buffer_size: the memory that copy and stat read into
  NewLine,     \* the byte NEW_LINE
  Text,        \* Text[n]: the characters of name n
  Slash,       \* the character '/'
  NameLimit,   \* MAX_NAME_LENGTH (256)
  Paths,       \* input: the argument of list, empty or with a final slash
  Reading,     \* the names of the files that the ancestors of the program
  Writing      \* read, and of those that they write

ProgramsAssumption ==
  /\ StoreAssumption
  /\ BufferSize \in Nat \ {0} /\ NameLimit \in Nat \ {0}
  /\ Text \in [Names -> Seq(Nat) \ {<<>>}]
  /\ NewLine \in Bytes
  /\ Paths \subseteq Seq(Nat) /\ \A p \in Paths : p # <<>> => p[Len(p)] = Slash
  /\ Reading \subseteq Names /\ Writing \subseteq Names

ASSUME ProgramsAssumption

\* The numbers of the names follow the order of their characters.
InOrder(s, t) ==
  \E k \in 0 .. Len(s) :
    /\ k <= Len(t) /\ SubSeq(s, 1, k) = SubSeq(t, 1, k)
    /\ IF k = Len(s) THEN k < Len(t) ELSE k < Len(t) /\ s[k + 1] < t[k + 1]

ASSUME NameOrder == \A m, n \in Names : m < n => InOrder(Text[m], Text[n])

VARIABLES
  pc,      \* "start", the program that runs, "hang" or "end"
  status,  \* the status it returns
  src, offset,  \* the file that is read, and where
  dst,     \* the file that is written
  bytes, lines, last,  \* the counters of stat and the last byte it read
  path, items,         \* the argument of list and what it has written
  before   \* history variable: the files when the program starts

reads == <<src, offset>>
counters == <<bytes, lines, last>>
listing == <<path, items>>
vars == <<files, pc, status, src, offset, dst, bytes, lines, last, path, items, before>>

OK == 0
INVALID_STATE == 2
NOT_FOUND == 3
OUT_OF_MEMORY == 5

-----------------------------------------------------------------------------
\* What read gives, and where it leaves the stream.
Left == Len(files[src].data) - offset
Size == IF BufferSize <= Left THEN BufferSize ELSE Left
Chars == SubSeq(files[src].data, offset + 1, offset + Size)
Advance ==
  LET start == LastBlockStart(files[src].name, Len(files[src].data))
  IN offset' = IF BufferSize <= Left THEN offset + BufferSize
               ELSE IF offset < start THEN start ELSE offset

Exit(s) == pc' = "end" /\ status' = s
Goto(label) == pc' = label /\ UNCHANGED status

\* The status of open(n, 'r'); the kernel may have no memory for a stream.
OpenStatus(f) ==
  {OUT_OF_MEMORY, IF f = NoFile THEN NOT_FOUND
                  ELSE IF files[f].name \in Writing THEN INVALID_STATE ELSE OK}

OpenToRead(n, label) ==
  /\ pc = "start"
  /\ \E f \in Live \cup {NoFile} :
       /\ IsFile(n, f)
       /\ \E s \in OpenStatus(f) :
            IF s = OK THEN Goto(label) /\ src' = f ELSE Exit(s) /\ UNCHANGED src
  /\ UNCHANGED <<files, offset, dst, counters, listing, before>>

-----------------------------------------------------------------------------
(***************************************************************************)
(* copy.  (The definitions whose name starts with Wrong are mutated forms  *)
(* of the next one.)                                                       *)
(***************************************************************************)
StartCopy(n) == OpenToRead(n, "open")

OpenToWrite(n) ==
  /\ pc = "open"
  /\ \/ Exit(OUT_OF_MEMORY) /\ UNCHANGED <<files, dst>>
     \/ \E f \in FileIds : IsFile(n, NoFile) /\ Create(f, n) /\ dst' = f /\ Goto("copy")
     \/ \E f \in Live :
          /\ files[f].name = n
          /\ IF f = src \/ n \in Reading \cup Writing
               THEN Exit(INVALID_STATE) /\ UNCHANGED <<files, dst>>
               ELSE Clear(f) /\ dst' = f /\ Goto("copy")
  /\ UNCHANGED <<reads, counters, listing, before>>

\* The copy ends when nothing is read.
WrongCopy ==
  /\ pc = "copy"
  /\ Advance
  /\ \/ Extend(dst, Chars) /\ IF Size = 0 THEN Exit(OK) ELSE Goto("copy")
     \/ ExtendShort(dst, Chars) /\ Exit(OUT_OF_MEMORY)
  /\ UNCHANGED <<src, dst, counters, listing, before>>

\* One iteration of the loop.
Copy ==
  /\ pc = "copy"
  /\ Advance
  /\ \/ Extend(dst, Chars) /\ IF Size < BufferSize THEN Exit(OK) ELSE Goto("copy")
     \/ ExtendShort(dst, Chars) /\ Exit(OUT_OF_MEMORY)
  /\ UNCHANGED <<src, dst, counters, listing, before>>

(***************************************************************************)
(* stat.                                                                   *)
(***************************************************************************)
StartStat(n) == OpenToRead(n, "stat")

\* line_count: the bytes of s that begin a line, after byte c.
line_count(c, s) ==
  Cardinality({i \in DOMAIN s : (IF i = 1 THEN c ELSE s[i - 1]) = NewLine})

\* Each buffer is taken to begin with a line.
WrongStat ==
  /\ pc = "stat"
  /\ Advance
  /\ bytes' = bytes + Size
  /\ lines' = lines + line_count(NewLine, Chars)
  /\ UNCHANGED last
  /\ IF Size < BufferSize THEN Exit(OK) ELSE Goto("stat")
  /\ UNCHANGED <<files, src, dst, listing, before>>

Stat ==
  /\ pc = "stat"
  /\ Advance
  /\ bytes' = bytes + Size
  /\ lines' = lines + line_count(last, Chars)
  /\ last' = IF Size = 0 THEN last ELSE Chars[Size]
  /\ IF Size < BufferSize THEN Exit(OK) ELSE Goto("stat")
  /\ UNCHANGED <<files, src, dst, listing, before>>

(***************************************************************************)
(* list.  When the listing can not be opened, the error that read returns  *)
(* is taken for a length, again and again.                                 *)
(***************************************************************************)
StartList ==
  /\ pc = "start"
  /\ path' \in Paths
  /\ \/ Goto("hang") /\ UNCHANGED src
     \/ \E f \in Live \cup {NoFile} : IsFirst(Live, f) /\ src' = f /\ Goto("list")
  /\ UNCHANGED <<files, offset, dst, counters, items, before>>

Prefix(s, n) == SubSeq(s, 1, IF n < Len(s) THEN n ELSE Len(s))
HasPath(s, p) == Len(s) > Len(p) /\ Prefix(s, Len(p)) = p

\* get_first_component_length, and the component: up to a slash included.
Component(s) ==
  LET slashes == {i \in DOMAIN s : s[i] = Slash}
  IN IF slashes = {} THEN s
     ELSE SubSeq(s, 1, CHOOSE i \in slashes : \A j \in slashes : i <= j)

\* An item is compared with the last one by its length only.
WrongList ==
  LET name == Prefix(Text[files[src].name], NameLimit)
      item == Component(SubSeq(name, Len(path) + 1, Len(name)))
  IN
  /\ pc = "list" /\ src # NoFile
  /\ \E f \in Live \cup {NoFile} : IsFirst(After(src), f) /\ src' = f
  /\ items' = IF HasPath(name, path)
                   /\ (items = <<>> \/ Len(items[Len(items)]) # Len(item))
                THEN Append(items, item) ELSE items
  /\ UNCHANGED <<files, pc, status, offset, dst, counters, path, before>>

\* A name that is not under the path is not passed.
WrongListNext ==
  LET name == Prefix(Text[files[src].name], NameLimit)
      item == Component(SubSeq(name, Len(path) + 1, Len(name)))
  IN
  /\ pc = "list" /\ src # NoFile
  /\ HasPath(name, path)
  /\ \E f \in Live \cup {NoFile} : IsFirst(After(src), f) /\ src' = f
  /\ items' = IF items = <<>> \/ items[Len(items)] # item
                THEN Append(items, item) ELSE items
  /\ UNCHANGED <<files, pc, status, offset, dst, counters, path, before>>

List ==
  LET name == Prefix(Text[files[src].name], NameLimit)
      item == Component(SubSeq(name, Len(path) + 1, Len(name)))
  IN
  /\ pc = "list" /\ src # NoFile
  /\ \E f \in Live \cup {NoFile} : IsFirst(After(src), f) /\ src' = f
  /\ items' = IF HasPath(name, path) /\ (items = <<>> \/ items[Len(items)] # item)
                THEN Append(items, item) ELSE items
  /\ UNCHANGED <<files, pc, status, offset, dst, counters, path, before>>

EndList ==
  /\ pc = "list" /\ src = NoFile
  /\ Exit(OK)
  /\ UNCHANGED <<files, reads, dst, counters, listing, before>>

(***************************************************************************)
(* delete.                                                                 *)
(***************************************************************************)
DeleteFile(n) ==
  /\ pc = "start"
  /\ \/ IsFile(n, NoFile) /\ Exit(NOT_FOUND) /\ UNCHANGED files
     \/ \E f \in Live :
          /\ files[f].name = n
          /\ IF n \in Reading \cup Writing THEN Exit(INVALID_STATE) /\ UNCHANGED files
             ELSE Delete(f) /\ Exit(OK)
  /\ UNCHANGED <<reads, dst, counters, listing, before>>

-----------------------------------------------------------------------------
Start ==
  /\ Init
  /\ pc = "start" /\ status = OK
  /\ src = NoFile /\ offset = 0 /\ dst = NoFile
  /\ bytes = 0 /\ lines = 0 /\ last = NewLine
  /\ path = <<>> /\ items = <<>>
  /\ before = files

Step ==
  \/ \E n \in Names : StartCopy(n) \/ OpenToWrite(n)
  \/ Copy
  \/ \E n \in Names : StartStat(n)
  \/ Stat
  \/ StartList \/ List \/ EndList
  \/ \E n \in Names : DeleteFile(n)

\* A program runs until it returns to its parent.
ProgramSpec == Start /\ [][Step]_vars /\ WF_vars(Step)

-----------------------------------------------------------------------------
(***************************************************************************)
(* Properties.                                                             *)
(***************************************************************************)

(***************************************************************************)
(* copy makes the destination equal to the source, although a read at the  *)
(* end of the source moves the stream back; it changes no other file, even *)
(* if it fails halfway.                                                    *)
(***************************************************************************)
CopyIsRight ==
  dst # NoFile =>
    /\ \A f \in Live \ {dst} : f \in DOMAIN before /\ files[f] = before[f]
    /\ DOMAIN before \subseteq Live
    /\ pc = "end" /\ status = OK => files[dst].data = files[src].data
    /\ pc = "copy" => files[dst].data = Prefix(files[src].data, offset)

(***************************************************************************)
(* stat counts the bytes of the file, and its lines, a last one without    *)
(* end of line included, wherever the buffers begin and end.               *)
(***************************************************************************)
StatIsRight ==
  LET data == files[src].data IN
  pc = "end" /\ bytes # 0 =>
    /\ bytes = Len(data)
    /\ lines = Cardinality({i \in DOMAIN data : data[i] = NewLine})
               + (IF data[Len(data)] = NewLine THEN 0 ELSE 1)

(***************************************************************************)
(* list writes the components that follow the path, each one once, in the  *)
(* order of names: equal components follow each other in the list of files.*)
(***************************************************************************)
ListIsRight ==
  LET names == {Prefix(Text[before[f].name], NameLimit) : f \in DOMAIN before}
      under == {s \in names : HasPath(s, path)}
  IN
  pc = "list" /\ src = NoFile =>
    /\ {items[i] : i \in DOMAIN items} =
         {Component(SubSeq(s, Len(path) + 1, Len(s))) : s \in under}
    /\ \A i, j \in DOMAIN items : i < j => InOrder(items[i], items[j])

(***************************************************************************)
(* Every program ends, but for list when it can not open the listing.      *)
(***************************************************************************)
ProgramsEnd == pc \in {"open", "copy", "stat", "list"} ~> pc = "end"
=============================================================================
