----------------------------- MODULE TextEditor -----------------------------
(***************************************************************************)
(* What a user of the text editor sees: a text, a position in it and a     *)
(* file.  The module Edit shows that src/edit/edit.toy is such an editor.  *)
(***************************************************************************)
EXTENDS Integers, Sequences, FiniteSets

CONSTANTS
  Chars, NewLine,  \* the characters of a text
  MaxLength,       \* the largest length of a text
  PageSize,        \* lines that page up and page down move by
  Files,           \* the files to edit: sequences of characters, or NoFile
  NoFile           \* when the file does not exist

VARIABLES
  text,   \* the text
  pos,    \* the number of characters before the position
  phase,  \* "open", "edit", "prompt", "save" or "end"
  file,   \* the file
  saved   \* whether the user is told that the text is saved

vars == <<text, pos, phase, file, saved>>

-----------------------------------------------------------------------------
\* The positions where a line of text t begins.
LineStarts(t) == {0} \cup {i \in DOMAIN t : t[i] = NewLine}

Count(S, i, j) == Cardinality({s \in S : i < s /\ s <= j})

\* The start of the line that is n lines above position p, or of the text.
Above(t, p, n) ==
  LET starts == {s \in LineStarts(t) : s = 0 \/ (s <= p /\ Count(LineStarts(t), s, p) >= n)}
  IN CHOOSE s \in starts : \A u \in starts : u <= s

\* The start of the line that is n lines below position p, or the end.
Below(t, p, n) ==
  LET starts == {s \in LineStarts(t) : s > p /\ Count(LineStarts(t), p, s) = n}
  IN IF starts = {} THEN Len(t) ELSE CHOOSE s \in starts : TRUE

-----------------------------------------------------------------------------
Init ==
  /\ file \in Files
  /\ text = <<>> /\ pos = 0
  /\ phase = "open"
  /\ saved = FALSE

\* A file that fills the memory is not edited.
Open ==
  LET contents == IF file = NoFile THEN <<>> ELSE file IN
  /\ phase = "open"
  /\ IF Len(contents) < MaxLength
       THEN phase' = "edit" /\ text' = contents /\ pos' \in 0 .. Len(contents)
       ELSE phase' = "end" /\ UNCHANGED <<text, pos>>
  /\ UNCHANGED <<file, saved>>

\* A character that does not fit is ignored.
Type(c) ==
  IF Len(text) < MaxLength
    THEN /\ text' = SubSeq(text, 1, pos) \o <<c>> \o SubSeq(text, pos + 1, Len(text))
         /\ pos' = pos + 1
    ELSE UNCHANGED <<text, pos>>

Backspace ==
  IF pos > 0
    THEN /\ text' = SubSeq(text, 1, pos - 1) \o SubSeq(text, pos + 1, Len(text))
         /\ pos' = pos - 1
    ELSE UNCHANGED <<text, pos>>

MoveTo(p) == pos' = p /\ UNCHANGED text

Edit ==
  /\ phase = "edit"
  /\ \/ \E c \in Chars : Type(c)
     \/ Backspace
     \/ pos > 0 /\ MoveTo(pos - 1)
     \/ pos < Len(text) /\ MoveTo(pos + 1)
     \/ \E n \in {1, PageSize} : MoveTo(Above(text, pos, n)) \/ MoveTo(Below(text, pos, n))
  /\ UNCHANGED <<phase, file, saved>>

Leave ==
  /\ phase = "edit" /\ phase' = "prompt"
  /\ pos' = Len(text)
  /\ UNCHANGED <<text, file, saved>>

\* The user does not want to save, or the file can not be written.
Discard ==
  /\ phase = "prompt" /\ phase' = "end"
  /\ UNCHANGED <<text, pos, file, saved>>

\* The old contents are lost before the new ones are written.
Clear ==
  /\ phase = "prompt" /\ phase' = "save"
  /\ file' = <<>>
  /\ UNCHANGED <<text, pos, saved>>

\* The file gets the text, or a part of it if the disk is full.
Save ==
  /\ phase = "save" /\ phase' = "end"
  /\ \E n \in 0 .. Len(text) :
       file' = SubSeq(text, 1, n) /\ saved' = (n = Len(text))
  /\ UNCHANGED <<text, pos>>

Next == Open \/ Edit \/ Leave \/ Discard \/ Clear \/ Save

Spec == Init /\ [][Next]_vars
=============================================================================
