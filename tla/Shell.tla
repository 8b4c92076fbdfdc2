-------------------------------- MODULE Shell --------------------------------
(***************************************************************************)
(* The shell (src/shell/shell.toy): the command line and the history, the  *)
(* output of the programs it runs, what it draws, and scripts.             *)
(*                                                                         *)
(* A program is what the kernel says of it: it is not found, or does not   *)
(* start, or it writes in the output buffer, leaves the screen as it wants *)
(* and exits.  Messages are one character long.                            *)
(***************************************************************************)
EXTENDS Screen, Sequences, SequencesExt

CONSTANTS
  Chars,              \* the characters of a command,
  NewLine, Backslash, \* and those that a script may have besides
  NumCommands,        \* NUM_COMMANDS: the commands of the ring (4)
  MaxCommandLength,   \* MAX_COMMAND_LENGTH (196)
  MaxOutputSize,      \* MAX_OUTPUT_SIZE (512)
  Outputs,            \* input: what programs write
  Banners,            \* input: what the shell shows when it starts
  Scripts             \* input: the contents of the scripts

ShellAssumption ==
  /\ Chars # {} /\ NewLine \notin Chars \cup {Backslash, ">"}
  /\ NumCols > 1
  /\ NumCommands \in Nat \ {0, 1}
  /\ MaxCommandLength \in Nat \ {0} /\ MaxOutputSize \in Nat \ {0}
  /\ Outputs \cup Banners \subseteq Seq(Chars \cup {NewLine})
  /\ Scripts \subseteq Seq(Chars \cup {NewLine, Backslash})

ASSUME ShellAssumption

VARIABLES
  mode,      \* "start", "edit", "script" or "end"
  commands,  \* the lines of the ring of Command records
  current, history,  \* places in the ring
  output,    \* the output buffer, up to output_end
  gpu,       \* the screen
  script,    \* what is left to read of the script
  line,      \* the line of the script that is being read
  ran,       \* history variable: the lines of the script that were run
  input      \* history variable: the script

vars == <<mode, commands, current, history, output, gpu, script, line, ran, input>>
scripting == <<script, line, ran, input>>
editing == <<commands, current, history>>

Ring == 0 .. NumCommands - 1
next(c) == (c + 1) % NumCommands
previous(c) == (c + NumCommands - 1) % NumCommands

-----------------------------------------------------------------------------
(***************************************************************************)
(* Running a command.  (The definitions whose name starts with wrong or    *)
(* Wrong are mutated forms of the next one.)                               *)
(***************************************************************************)
CANT_FIND == <<"can't find">>
CANT_LAUNCH == <<"can't launch">>
NOT_ENOUGH_MEMORY == <<"out of memory">>
CRASHED == <<"crashed">>

OK == 0
NOT_FOUND == 3
OUT_OF_MEMORY == 5
INTERNAL_ERROR == 6

\* What spawn returns: a status and, if it is OK, the result of the program.
Spawned ==
  [status : {OK}, result : {OK, OUT_OF_MEMORY, INTERNAL_ERROR}, text : Outputs]
    \cup [status : {NOT_FOUND, OUT_OF_MEMORY}, result : {OK}, text : {<<>>}]

\* sh_read_token: the first word of a line, empty if there is none.
sh_read_token(s) ==
  LET begin == {i \in DOMAIN s : s[i] # Space /\ \A j \in 1 .. i - 1 : s[j] = Space}
      Word(i) == {j \in i .. Len(s) : \A k \in i .. j : s[k] # Space}
  IN  IF begin = {} THEN <<>>
      ELSE LET i == CHOOSE i \in begin : TRUE
           IN SubSeq(s, i, i + Cardinality(Word(i)) - 1)

\* What does not fit is lost; the kernel does the same for programs.
sh_print(out, s) ==
  LET room == MaxOutputSize - Len(out)
  IN out \o SubSeq(s, 1, IF Len(s) > room THEN room ELSE Len(s))

Message(name, p) ==
  CASE p.status = NOT_FOUND -> CANT_FIND \o name
    [] p.status # OK /\ p.status # NOT_FOUND -> CANT_LAUNCH \o name
    [] p.status = OK /\ p.result = OUT_OF_MEMORY -> NOT_ENOUGH_MEMORY
    [] p.status = OK /\ p.result = INTERNAL_ERROR -> name \o CRASHED
    [] OTHER -> <<>>

\* The end of the line is added before the message.
wrong_sh_run(out, src, p) ==
  LET name == sh_read_token(src)
      written == sh_print(out, p.text)
      ended == IF Len(written) > Len(out) /\ written[Len(written)] # NewLine
                 THEN sh_print(written, <<NewLine>>) ELSE written
  IN IF name = <<>> THEN out ELSE sh_print(ended, Message(name, p))

\* The output once line src was run, with what spawn returned.
sh_run(out, src, p) ==
  LET name == sh_read_token(src)
      written == sh_print(sh_print(out, p.text), Message(name, p))
  IN  IF name = <<>> THEN out
      ELSE IF Len(written) > Len(out) /\ written[Len(written)] # NewLine
        THEN sh_print(written, <<NewLine>>)
      ELSE written

-----------------------------------------------------------------------------
(***************************************************************************)
(* Drawing.                                                                *)
(***************************************************************************)
sh_draw_string(pen, s) ==
  LET Draw(q, c) ==
        LET g == IF c = NewLine THEN q.gpu ELSE gpu_draw_char(q.gpu, c)
            col == IF c = NewLine THEN q.col ELSE q.col + 1
        IN IF c = NewLine \/ col = NumCols
             THEN [gpu |-> gpu_set_cursor(g, 0, q.row + 1), col |-> 0, row |-> q.row + 1]
             ELSE [q EXCEPT !.gpu = g, !.col = col]
      drawn[k \in 0 .. Len(s)] == IF k = 0 THEN pen ELSE Draw(drawn[k - 1], s[k])
  IN drawn[Len(s)]

\* A command, from the start of a row.
sh_draw_command(g, command, row) ==
  sh_draw_string([gpu |-> gpu_draw_char(g, ">"), col |-> 1, row |-> row], command)

\* The row after what was drawn is not set.
wrong_sh_draw(g, ring, c, out) ==
  LET clear == gpu_set_color(gpu_clear_screen(g), Foreground(GREEN))
      last == ring[previous(c)]
      first == IF last = <<>> THEN [gpu |-> clear, row |-> 0]
               ELSE LET q == sh_draw_command(clear, last, 0)
                    IN [gpu |-> gpu_set_cursor(q.gpu, 0, q.row + 1), row |-> q.row + 1]
      second == IF out = <<>> THEN first
                ELSE LET q == sh_draw_string([gpu |-> gpu_set_color(first.gpu, Foreground(YELLOW)),
                                              col |-> 0, row |-> first.row], out)
                     IN [gpu |-> gpu_set_color(gpu_set_cursor(q.gpu, 0, q.row), Foreground(GREEN)),
                         row |-> q.row]
      third == sh_draw_command(second.gpu, ring[c], second.row)
  IN gpu_switch_buffer(gpu_draw_cursor(third.gpu, third.col, third.row))

\* The last command, the output and the current line, on a clear screen.
sh_draw(g, ring, c, out) ==
  LET clear == gpu_set_color(gpu_set_cursor(gpu_clear_screen(g), 0, 0), Foreground(GREEN))
      last == ring[previous(c)]
      first == IF last = <<>> THEN [gpu |-> clear, row |-> 0]
               ELSE LET q == sh_draw_command(clear, last, 0)
                    IN [gpu |-> gpu_set_cursor(q.gpu, 0, q.row + 1), row |-> q.row + 1]
      second == IF out = <<>> THEN first
                ELSE LET q == sh_draw_string([gpu |-> gpu_set_color(first.gpu, Foreground(YELLOW)),
                                              col |-> 0, row |-> first.row], out)
                     IN [gpu |-> gpu_set_color(gpu_set_cursor(q.gpu, 0, q.row), Foreground(GREEN)),
                         row |-> q.row]
      third == sh_draw_command(second.gpu, ring[c], second.row)
  IN gpu_switch_buffer(gpu_draw_cursor(third.gpu, third.col, third.row))

-----------------------------------------------------------------------------
(***************************************************************************)
(* sh_run_editor: one action for each key, and the screen drawn next.      *)
(***************************************************************************)
Init ==
  /\ mode = "start"
  /\ commands = [c \in Ring |-> <<>>]
  /\ current = 0 /\ history = 0
  /\ output = <<>>
  /\ gpu = gpu_new
  /\ script = <<>> /\ line = <<>> /\ ran = <<>> /\ input = <<>>

\* The state of the command line after a key.
Show(ring, c, h, g, out) ==
  /\ commands' = ring /\ current' = c /\ history' = h
  /\ output' = out
  /\ gpu' = sh_draw(g, ring, c, out)
  /\ UNCHANGED <<scripting>>

StartEditor ==
  /\ mode = "start"
  /\ mode' = "edit"
  /\ \E banner \in Banners : Show(commands, current, history, gpu, sh_print(<<>>, banner))

Key == mode = "edit" /\ UNCHANGED mode

Edit(s, h) == Show([commands EXCEPT ![current] = s], current, h, gpu, output)

\* The screen as a program leaves it.
Drawn ==
  {gpu, [gpu EXCEPT !.col = NumCols - 1, !.row = NumRows - 1,
                    !.color = Foreground(YELLOW), !.draw[0].char = CHOOSE c \in Chars : TRUE]}

EnterKey ==
  LET used == next(current) IN
  /\ Key
  /\ \E p \in Spawned, g \in Drawn :
       Show([commands EXCEPT ![used] = <<>>], used, used, g,
            sh_run(<<>>, commands[current], p))

\* The ring is turned without end.
WrongArrowUp ==
  LET h == previous(history) IN
  Key /\ Edit(commands[h], h)

ArrowUp ==
  LET h == previous(history) IN
  Key /\ h # current /\ Edit(commands[h], h)

ArrowDown ==
  LET h == next(history) IN
  Key /\ history # current /\ Edit(IF h = current THEN <<>> ELSE commands[h], h)

Backspace ==
  LET s == commands[current] IN
  Key /\ s # <<>> /\ Edit(SubSeq(s, 1, Len(s) - 1), history)

Insert(c) ==
  LET s == commands[current] IN
  Key /\ Len(s) < MaxCommandLength /\ Edit(Append(s, c), history)

Escape ==
  /\ mode = "edit"
  /\ mode' = "end"
  /\ UNCHANGED <<editing, output, gpu, scripting>>

-----------------------------------------------------------------------------
(***************************************************************************)
(* sh_run_script: one action for each character read.                      *)
(***************************************************************************)
StartScript ==
  /\ mode = "start"
  /\ mode' = "script"
  /\ input' \in Scripts
  /\ script' = input'
  /\ UNCHANGED <<editing, output, gpu, line, ran>>

Reading == mode = "script" /\ UNCHANGED <<editing, gpu, input>>

RunLine ==
  /\ ran' = Append(ran, line)
  /\ \E p \in Spawned : output' = sh_run(output, line, p)

ReadEnd ==
  /\ Reading /\ script = <<>>
  /\ mode' = "end"
  /\ RunLine
  /\ UNCHANGED <<script, line>>

\* The line that goes on is run up to now.
WrongReadNewLine ==
  /\ Reading /\ script # <<>> /\ Head(script) = NewLine
  /\ script' = Tail(script)
  /\ RunLine /\ line' = <<>>
  /\ UNCHANGED mode

\* A line that ends with a backslash goes on.
ReadNewLine ==
  LET n == Len(line) IN
  /\ Reading /\ script # <<>> /\ Head(script) = NewLine
  /\ script' = Tail(script)
  /\ UNCHANGED mode
  /\ IF n > 0 /\ line[n] = Backslash
       THEN line' = SubSeq(line, 1, n - 1) /\ UNCHANGED <<output, ran>>
       ELSE RunLine /\ line' = <<>>

\* A character that does not fit is ignored.
ReadChar ==
  /\ Reading /\ script # <<>> /\ Head(script) # NewLine
  /\ script' = Tail(script)
  /\ line' = IF Len(line) < MaxCommandLength THEN Append(line, Head(script)) ELSE line
  /\ UNCHANGED <<mode, output, ran>>

Next ==
  \/ StartEditor \/ EnterKey \/ ArrowUp \/ ArrowDown \/ Backspace \/ Escape
  \/ \E c \in Chars : Insert(c)
  \/ StartScript \/ ReadEnd \/ ReadNewLine \/ ReadChar

Spec == Init /\ [][Next]_vars

-----------------------------------------------------------------------------
(***************************************************************************)
(* Properties.                                                             *)
(***************************************************************************)

(***************************************************************************)
(* The ring is a history: the commands behind the current one are the last *)
(* ones, the arrows bring them back one after the other and never reach    *)
(* the line that is edited by going around.                                *)
(***************************************************************************)
PastOf(ring, c) == [i \in 1 .. NumCommands - 1 |-> ring[(c + i) % NumCommands]]
BackOf(c, h) == (c + NumCommands - h) % NumCommands

Line == INSTANCE ShellHistory WITH
  MaxLength <- MaxCommandLength,
  Depth <- NumCommands - 1,
  past <- PastOf(commands, current),
  line <- commands[current],
  back <- BackOf(current, history)

HistorySpec == Line!Spec

(***************************************************************************)
(* What commands print always ends with the end of a line, unless the      *)
(* output buffer is full.                                                  *)
(***************************************************************************)
OutputEndsLine ==
  output \notin Banners \cup {<<>>} /\ Len(output) < MaxOutputSize =>
    output[Len(output)] = NewLine

\* The rows of the screen that a line takes.
RowsOf(s, color) ==
  [k \in 1 .. Len(s) \div NumCols + 1 |->
     [i \in 1 .. (IF k * NumCols <= Len(s) THEN NumCols ELSE Len(s) % NumCols) |->
        [char |-> s[(k - 1) * NumCols + i], color |-> Foreground(color)]]]

\* The lines of a text: the last one is what follows the last end of a line.
LinesOf(s) ==
  LET lines[k \in 0 .. Len(s)] ==
        LET t == lines[k - 1] IN
        IF k = 0 THEN <<<<>>>>
        ELSE IF s[k] = NewLine THEN Append(t, <<>>)
        ELSE [t EXCEPT ![Len(t)] = Append(@, s[k])]
  IN lines[Len(s)]

(***************************************************************************)
(* The screen shows the last command, its output, and the line with the    *)
(* cursor at its end, each on rows of its own, when they fit; whatever a   *)
(* program left on the screen.  An output buffer that is full may not end  *)
(* with the end of a line; the line is then drawn over the last row.       *)
(***************************************************************************)
ScreenShowsShell ==
  LET last == commands[previous(current)]
      edited == <<">">> \o commands[current]
      rows == (IF last = <<>> THEN <<>> ELSE RowsOf(<<">">> \o last, GREEN))
              \o FlattenSeq([k \in DOMAIN Front(LinesOf(output)) |->
                   RowsOf(LinesOf(output)[k], YELLOW)])
              \o RowsOf(edited, GREEN)
      cursor == <<Len(edited) % NumCols, Len(rows) - 1>>
  IN
  /\ mode = "edit"
  /\ Len(rows) <= NumRows
  /\ output = <<>> \/ output[Len(output)] = NewLine
  => \A c \in 0 .. NumCols - 1, r \in 0 .. NumRows - 1 :
       LET cell == gpu.shown[At(c, r)]
           inside == r < Len(rows) /\ c < Len(rows[r + 1])
       IN IF <<c, r>> = cursor THEN cell = [char |-> Space, color |-> <<GREEN, BLACK>>]
          ELSE IF inside THEN cell = rows[r + 1][c + 1]
          ELSE cell = Blank[At(c, r)]

(***************************************************************************)
(* A script runs its lines, once those that end with a backslash are       *)
(* joined with the next one: that is, once each pair of a backslash and an *)
(* end of line is removed, and the pairs that this makes.  A line that is  *)
(* longer than a command is cut, and not joined; this is left out.         *)
(***************************************************************************)
Join(s) ==
  LET join[k \in 0 .. Len(s)] ==
        LET r == join[k - 1] IN
        IF k = 0 THEN <<>>
        ELSE IF s[k] = NewLine /\ r # <<>> /\ r[Len(r)] = Backslash
          THEN SubSeq(r, 1, Len(r) - 1)
        ELSE Append(r, s[k])
  IN join[Len(s)]

\* No line of s is longer than a command.
Short(s) == \A i \in DOMAIN LinesOf(s) : Len(LinesOf(s)[i]) <= MaxCommandLength

ScriptRunsLines ==
  /\ mode = "end" /\ ran # <<>>
  /\ \A k \in DOMAIN input : Short(Join(SubSeq(input, 1, k)))
  => ran = LinesOf(Join(input))
=============================================================================
