---------------------------- MODULE ShellHistory ----------------------------
(***************************************************************************)
(* The command line as a user of the shell sees it: a line that is edited, *)
(* and the last commands, which the arrow keys bring back.  The module     *)
(* Shell shows that src/shell/shell.toy works like this.                   *)
(***************************************************************************)
EXTENDS Integers, Sequences

CONSTANTS
  Chars,      \* the characters of a line
  MaxLength,  \* the largest length of a line
  Depth       \* number of commands that are remembered

VARIABLES
  past,  \* the last commands, the latest one last
  line,  \* the line
  back   \* how many commands back the line was taken from, 0 if it is new

Init ==
  /\ past = [i \in 1 .. Depth |-> <<>>]
  /\ line = <<>>
  /\ back = 0

Type(c) ==
  /\ Len(line) < MaxLength
  /\ line' = Append(line, c)
  /\ UNCHANGED <<past, back>>

Backspace ==
  /\ line # <<>>
  /\ line' = SubSeq(line, 1, Len(line) - 1)
  /\ UNCHANGED <<past, back>>

Enter ==
  /\ past' = Append(Tail(past), line)
  /\ line' = <<>>
  /\ back' = 0

\* Number 0 is a new line: what was typed there is not kept.
Recall(k) ==
  /\ back' = k
  /\ line' = IF k = 0 THEN <<>> ELSE past[Depth + 1 - k]
  /\ UNCHANGED past

Next ==
  \/ \E c \in Chars : Type(c)
  \/ Backspace
  \/ Enter
  \/ back < Depth /\ Recall(back + 1)
  \/ back > 0 /\ Recall(back - 1)

Spec == Init /\ [][Next]_<<past, line, back>>
=============================================================================
