-------------------------------- MODULE Edit --------------------------------
(***************************************************************************)
(* The text editor (src/edit/edit.toy) and what it draws on the screen.    *)
(* The text is in a buffer with a gap at the cursor: the characters before *)
(* the cursor, the gap, the other characters, up to the end of the buffer. *)
(* Addresses are counted from the begin of the text.                       *)
(*                                                                         *)
(* A missing file is the only reason for which the file can not be read    *)
(* that the model has.  A disk that is full when the text is saved is      *)
(* modelled by any part of the text being written.                         *)
(***************************************************************************)
EXTENDS Screen, Sequences, SequencesExt

CONSTANTS
  Chars,         \* the characters of a text,
  Enter, Tab,    \* among which ENTER_KEY and TAB_KEY
  MaxLength,     \* max_length: the size of the buffer
  Word,          \* characters that mem_copy moves at a time (8)
  HalfScreen,    \* lines drawn above the cursor, at most (15)
  PageSize,      \* lines that page up and page down move by (30)
  Files, NoFile  \* input: the files to edit, one that does not exist included

EditAssumption ==
  /\ {Enter, Tab} \subseteq Chars /\ Enter # Tab
  /\ MaxLength \in Nat \ {0} /\ Word \in Nat \ {0}
  /\ HalfScreen \in 0 .. NumRows - 1
  /\ PageSize \in Nat \ {0, 1}
  /\ Files \subseteq Seq(Chars) \cup {NoFile}

ASSUME EditAssumption

VARIABLES
  buffer,  \* the characters from begin to end
  cursor, gap,
  length,  \* *buffer: the length of the text, when it is not being edited
  pc,      \* "open", "edit", "prompt", "save" or "end"
  file,    \* the contents of the file
  saved,   \* whether main returned OK after it saved the text
  gpu      \* the screen

vars == <<buffer, cursor, gap, length, pc, file, saved, gpu>>

begin == 0
end == MaxLength

-----------------------------------------------------------------------------
(***************************************************************************)
(* mem_copy, between ranges of the buffer that may overlap: a word is read *)
(* and written at a time, then single characters; from the first one on if *)
(* dst < src, else from the last one back.                                 *)
(***************************************************************************)
Moved(b, src, dst, size) ==
  [a \in DOMAIN b |-> IF a \in dst .. dst + size - 1 THEN b[src + a - dst] ELSE b[a]]

\* The words and then the characters that are moved, in ascending order.
Forward(n) ==
  LET words == n \div Word
      moves == words + (n % Word)
  IN [k \in 1 .. moves |->
        IF k <= words THEN [at |-> (k - 1) * Word, size |-> Word]
        ELSE [at |-> n - moves + k - 1, size |-> 1]]

\* The same, in descending order.
Backward(n) ==
  LET words == n \div Word
      moves == words + (n % Word)
  IN [k \in 1 .. moves |->
        IF k <= words THEN [at |-> n - k * Word, size |-> Word]
        ELSE [at |-> moves - k, size |-> 1]]

\* The buffer after the moves.
Copied(b, src, dst, moves) ==
  LET after[k \in 0 .. Len(moves)] ==
        IF k = 0 THEN b
        ELSE Moved(after[k - 1], src + moves[k].at, dst + moves[k].at, moves[k].size)
  IN after[Len(moves)]

\* The characters are always copied from the first one on.
wrong_mem_copy(b, src, dst, n) == Copied(b, src, dst, Forward(n))

mem_copy(b, src, dst, n) ==
  Copied(b, src, dst, IF dst < src THEN Forward(n) ELSE Backward(n))

ted_set_cursor(b, c, g, new) ==
  IF new > c THEN mem_copy(b, c + g, c, new - c)
  ELSE mem_copy(b, new, new + g, c - new)

-----------------------------------------------------------------------------
(***************************************************************************)
(* ted_move_backward: one iteration of the loop for each character before  *)
(* the cursor, until the start of a line is found lines above.             *)
(***************************************************************************)
ted_move_backward(b, c, lines) ==
  LET Stops(s) == s.ptr = begin \/ (b[s.ptr - 1] = Enter /\ s.row = lines)
      Back(s) ==
        LET k == b[s.ptr - 1] IN
        [ptr |-> s.ptr - 1,
         row |-> IF k = Enter THEN s.row + 1 ELSE s.row,
         col |-> IF k = Enter \/ s.row # 0 THEN s.col
                 ELSE IF k = Tab THEN s.col + 2 ELSE s.col + 1]
      loop[i \in 0 .. c] ==
        IF i = 0 THEN [ptr |-> c, col |-> 0, row |-> 0]
        ELSE IF Stops(loop[i - 1]) THEN loop[i - 1]
        ELSE Back(loop[i - 1])
  IN loop[c]

\* The position of the number lines line feed after the cursor.
ted_move_forward(b, c, g, e, lines) ==
  LET Feeds(p) == Cardinality({q \in c .. p : b[q + g] = Enter})
      found == {p \in c .. e - g - 1 : b[p + g] = Enter /\ Feeds(p) = lines}
  IN IF found = {} THEN e - g ELSE 1 + CHOOSE p \in found : TRUE

-----------------------------------------------------------------------------
(***************************************************************************)
(* ted_draw.                                                               *)
(***************************************************************************)
ted_draw(b, c, g, e, screen) ==
  LET top == ted_move_backward(b, c, HalfScreen)
      Skip(p) == IF p = c THEN p + g ELSE p
      Draw(s) ==
        LET k == b[s.ptr] IN
        [ptr |-> Skip(s.ptr + 1),
         r |-> IF k = Enter THEN s.r + 1 ELSE s.r,
         gpu |-> CASE k = Enter -> gpu_set_cursor(s.gpu, 0, s.r + 1)
                   [] k = Tab -> gpu_draw_char(gpu_draw_char(s.gpu, Space), Space)
                   [] OTHER -> gpu_draw_char(s.gpu, k)]
      loop[i \in 0 .. e] ==
        IF i = 0
          THEN [ptr |-> Skip(top.ptr), r |-> 0,
                gpu |-> gpu_set_cursor(gpu_clear_screen(screen), 0, 0)]
          ELSE IF loop[i - 1].ptr < e /\ loop[i - 1].r < NumRows THEN Draw(loop[i - 1])
          ELSE loop[i - 1]
  IN gpu_switch_buffer(gpu_draw_cursor(loop[e].gpu, top.col, top.row))

-----------------------------------------------------------------------------
(***************************************************************************)
(* main and text_editor.                                                   *)
(***************************************************************************)
Init ==
  /\ buffer = [a \in begin .. end - 1 |-> Enter]
  /\ cursor = begin /\ gap = 0 /\ length = 0
  /\ pc = "open"
  /\ file \in Files
  /\ saved = FALSE
  /\ gpu = gpu_new

\* A new state of the buffer, drawn on the screen.
Show(b, c, g, screen) ==
  /\ buffer' = b /\ cursor' = c /\ gap' = g
  /\ gpu' = ted_draw(b, c, g, end, screen)

\* The file is read, and the cursor put at an offset in the text.
Open(offset) ==
  LET contents == IF file = NoFile THEN <<>> ELSE file
      n == Len(contents)
      b == [a \in DOMAIN buffer |-> IF a < n THEN contents[a + 1] ELSE buffer[a]]
      c == IF offset > n THEN n ELSE offset
  IN
  /\ pc = "open"
  /\ IF n >= MaxLength
       THEN pc' = "end" /\ UNCHANGED <<buffer, cursor, gap, gpu>>
       ELSE /\ pc' = "edit"
            /\ Show(ted_set_cursor(b, n, end - n, c), c, end - n,
                    gpu_set_color(gpu, Foreground(GREEN)))
  /\ UNCHANGED <<length, file, saved>>

Editing == pc = "edit" /\ UNCHANGED <<pc, length, file, saved>>

Insert(c) ==
  /\ Editing
  /\ IF gap > 0 THEN Show([buffer EXCEPT ![cursor] = c], cursor + 1, gap - 1, gpu)
     ELSE Show(buffer, cursor, gap, gpu)

Backspace ==
  /\ Editing
  /\ IF cursor > begin THEN Show(buffer, cursor - 1, gap + 1, gpu)
     ELSE Show(buffer, cursor, gap, gpu)

\* ted_handle_key and the move of the cursor.
MoveCursor(new) ==
  Editing /\ Show(ted_set_cursor(buffer, cursor, gap, new), new, gap, gpu)

HandleKey ==
  \/ cursor > begin /\ MoveCursor(cursor - 1)
  \/ cursor < end - gap /\ MoveCursor(cursor + 1)
  \/ \E lines \in {1, PageSize} :
       \/ MoveCursor(ted_move_backward(buffer, cursor, lines).ptr)
       \/ MoveCursor(ted_move_forward(buffer, cursor, gap, end, lines))

\* The prompt, drawn as a text of its own with the cursor at its end.
SAVE_PROMPT == [a \in 0 .. 0 |-> Space]

\* The escape key: the gap is moved after the text.
Escape ==
  /\ pc = "edit"
  /\ pc' = "prompt"
  /\ length' = end - gap
  /\ cursor' = end - gap
  /\ buffer' = ted_set_cursor(buffer, cursor, gap, end - gap)
  /\ gpu' = ted_draw(SAVE_PROMPT, 1, 0, 1, gpu)
  /\ UNCHANGED <<gap, file, saved>>

\* The answer is no, or the file can not be opened.
Leave ==
  /\ pc = "prompt"
  /\ pc' = "end"
  /\ UNCHANGED <<buffer, cursor, gap, length, file, saved, gpu>>

OpenToSave ==
  /\ pc = "prompt"
  /\ pc' = "save"
  /\ file' = <<>>
  /\ UNCHANGED <<buffer, cursor, gap, length, saved, gpu>>

Save ==
  /\ pc = "save"
  /\ pc' = "end"
  /\ \E n \in 0 .. length :
       /\ file' = [i \in 1 .. n |-> buffer[begin + i - 1]]
       /\ saved' = (n = length)
  /\ UNCHANGED <<buffer, cursor, gap, length, gpu>>

Next ==
  \/ \E offset \in 0 .. MaxLength : Open(offset)
  \/ \E c \in Chars : Insert(c)
  \/ Backspace
  \/ HandleKey
  \/ Escape
  \/ Leave
  \/ OpenToSave
  \/ Save

Spec == Init /\ [][Next]_vars

-----------------------------------------------------------------------------
(***************************************************************************)
(* Properties.                                                             *)
(***************************************************************************)

(***************************************************************************)
(* The text is what is before and after the gap: whatever the moves of the *)
(* cursor, which copy ranges that overlap, the program is the editor that  *)
(* TextEditor describes, and the file gets the text.                       *)
(***************************************************************************)
Text ==
  IF pc = "edit"
    THEN [i \in 1 .. end - gap |-> buffer[IF i <= cursor THEN i - 1 ELSE i - 1 + gap]]
    ELSE [i \in 1 .. length |-> buffer[i - 1]]

Editor == INSTANCE TextEditor WITH
  NewLine <- Enter, text <- Text, pos <- cursor, phase <- pc

EditorSpec == Editor!Spec

(***************************************************************************)
(* The lines of the text from the first one drawn, with their tabs drawn   *)
(* as two spaces.  Lines longer than a row are drawn over the next ones    *)
(* and are left out of the property below.                                 *)
(***************************************************************************)
Starts == Editor!LineStarts(Text)
Top == Editor!Above(Text, cursor, HalfScreen)
Line(k) ==
  LET first == Editor!Below(Text, Top, k)
      start == IF k = 0 THEN Top ELSE first
      stop == CHOOSE e \in start .. Len(Text) :
                /\ e = Len(Text) \/ Text[e + 1] = Enter
                /\ \A i \in start + 1 .. e : Text[i] # Enter
  IN SubSeq(Text, start + 1, stop)
NumLines == Cardinality({s \in Starts : s > Top}) + 1
Expanded(s) ==
  FlattenSeq([i \in DOMAIN s |-> IF s[i] = Tab THEN <<Space, Space>> ELSE <<s[i]>>])

(***************************************************************************)
(* While the text is edited the screen shows its lines around the cursor,  *)
(* and the cursor where the next character goes, when it is in a column of *)
(* the screen.                                                             *)
(***************************************************************************)
ScreenShowsText ==
  LET row == Cardinality({s \in Starts : Top < s /\ s <= cursor})
      start == Editor!Above(Text, cursor, 0)
      col == Len(Expanded(SubSeq(Text, start + 1, cursor)))
      lines == [k \in 0 .. NumRows - 1 |->
                  IF k < NumLines THEN Expanded(Line(k)) ELSE <<>>]
      Fit == \A k \in DOMAIN lines : Len(lines[k]) <= NumCols
  IN
  pc = "edit" /\ Fit =>
    /\ row <= HalfScreen
    /\ \A c \in 0 .. NumCols - 1, r \in 0 .. NumRows - 1 :
         LET cell == gpu.shown[At(c, r)] IN
         /\ cell.char = IF c < Len(lines[r]) THEN lines[r][c + 1] ELSE Space
         /\ <<c, r>> = <<col, row>> => cell.color = <<GREEN, BLACK>>
         /\ <<c, r>> # <<col, row>> =>
              cell.color = IF c < Len(lines[r]) THEN Foreground(GREEN) ELSE <<BLACK, BLACK>>
=============================================================================
