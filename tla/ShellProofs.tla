----------------------------- MODULE ShellProofs -----------------------------
(***************************************************************************)
(* Theorems about the shell, for every number of commands in its ring and  *)
(* every size of its buffers and of the screen: the ring is a history of   *)
(* the last commands, what is in the output buffer ends with the end of a  *)
(* line, a script runs its lines, and the screen shows the last command,   *)
(* its output and the line that is edited.                                 *)
(***************************************************************************)
EXTENDS Shell, Induction, SequenceTheorems, FiniteSetTheorems

-----------------------------------------------------------------------------
(***************************************************************************)
(* Places in the ring.                                                     *)
(***************************************************************************)
LEMMA RingModulo ==
  ASSUME NEW a \in 0 .. 2 * NumCommands - 1
  PROVE  a % NumCommands = IF a < NumCommands THEN a ELSE a - NumCommands
<1>1. NumCommands \in Nat \ {0}
  BY ShellAssumption DEF ShellAssumption
<1> DEFINE N == NumCommands
<1>2. N \in Nat \ {0} /\ a \in 0 .. 2 * N - 1
  BY <1>1
<1>3. CASE a < N
  <2>1. a \in 0 .. N - 1
    BY <1>2, <1>3
  <2> HIDE DEF N
  <2>2. (a + 0 * N) % N = a
    BY <1>2, <2>1, DivModUnique
  <2>3. QED
    BY <1>2, <1>3, <2>2 DEF N
<1>4. CASE ~ a < N
  <2>1. a - N \in 0 .. N - 1 /\ a \in Nat
    BY <1>2, <1>4
  <2> HIDE DEF N
  <2>2. ((a - N) + 1 * N) % N = a - N
    BY <1>2, <2>1, DivModUnique
  <2>3. (a - N) + 1 * N = a
    BY <1>2, <2>1
  <2>4. QED
    BY <1>4, <2>2, <2>3 DEF N
<1>5. QED
  BY <1>3, <1>4

\* The place i after c, and the number of places from h to c.
Place(c, i) == IF c + i < NumCommands THEN c + i ELSE c + i - NumCommands
Behind(c, h) == IF h <= c THEN c - h ELSE c + NumCommands - h

LEMMA Places ==
  ASSUME NEW c \in Ring, NEW h \in Ring
  PROVE  /\ next(c) = Place(c, 1) /\ previous(c) = Place(c, NumCommands - 1)
         /\ (c + NumCommands - h) % NumCommands = Behind(c, h)
         /\ \A i \in 0 .. NumCommands - 1 :
              /\ (c + i) % NumCommands = Place(c, i)
              /\ Place(c, i) \in Ring /\ (Place(c, i) = c <=> i = 0)
         /\ NumCommands \in Nat /\ NumCommands > 1
<1>1. NumCommands \in Nat /\ NumCommands > 1
  BY ShellAssumption DEF ShellAssumption
<1>2. c \in 0 .. NumCommands - 1 /\ h \in 0 .. NumCommands - 1
  BY DEF Ring
<1>3. ASSUME NEW i \in 0 .. NumCommands - 1
      PROVE  /\ (c + i) % NumCommands = Place(c, i)
             /\ Place(c, i) \in Ring /\ (Place(c, i) = c <=> i = 0)
  BY <1>1, <1>2, RingModulo DEF Place, Ring
<1>4. next(c) = Place(c, 1)
  BY <1>1, <1>3 DEF next
<1>5. previous(c) = Place(c, NumCommands - 1)
  <2>1. c + NumCommands - 1 = c + (NumCommands - 1)
    BY <1>1, <1>2
  <2>2. QED
    BY <1>1, <1>3, <2>1 DEF previous
<1>6. (c + NumCommands - h) % NumCommands = Behind(c, h)
  BY <1>1, <1>2, RingModulo DEF Behind
<1>7. QED
  BY <1>1, <1>3, <1>4, <1>5, <1>6

-----------------------------------------------------------------------------
(***************************************************************************)
(* The types.                                                              *)
(***************************************************************************)
OutputChars ==
  Chars \cup {NewLine, Backslash, "can't find", "can't launch", "out of memory", "crashed"}

ScriptChars == Chars \cup {NewLine, Backslash}

\* The lines are texts, the places are in the ring, and the output fits.
ShellTypeOK ==
  /\ mode \in {"start", "edit", "script", "end"}
  /\ commands \in [Ring -> Seq(Chars)]
  /\ current \in Ring /\ history \in Ring
  /\ output \in Seq(OutputChars) /\ Len(output) <= MaxOutputSize
  /\ script \in Seq(ScriptChars) /\ line \in Seq(ScriptChars)

-----------------------------------------------------------------------------
(***************************************************************************)
(* The command line: each key is a step of ShellHistory.                   *)
(***************************************************************************)
Lines == [Ring -> Seq(Chars)]

LEMMA PastCommands ==
  ASSUME NEW ring \in Lines, NEW c \in Ring
  PROVE  /\ PastOf(ring, c) \in Seq(Seq(Chars))
         /\ Len(PastOf(ring, c)) = NumCommands - 1
         /\ \A i \in 1 .. NumCommands - 1 : PastOf(ring, c)[i] = ring[Place(c, i)]
<1>1. NumCommands \in Nat /\ NumCommands > 1
  BY Places
<1>2. ASSUME NEW i \in 1 .. NumCommands - 1
      PROVE  (c + i) % NumCommands = Place(c, i) /\ Place(c, i) \in Ring
             /\ i \in 0 .. NumCommands - 1
  BY <1>1, Places
<1>3. PastOf(ring, c) \in [1 .. NumCommands - 1 -> Seq(Chars)]
  BY <1>2 DEF PastOf, Lines
<1>4. \A i \in 1 .. NumCommands - 1 : PastOf(ring, c)[i] = ring[Place(c, i)]
  BY <1>2 DEF PastOf
<1>5. NumCommands - 1 \in Nat
  BY <1>1
<1> DEFINE T == Seq(Chars)
           t == PastOf(ring, c)
           n == NumCommands - 1
<1>6. t \in [1 .. n -> T] /\ n \in Nat
  BY <1>3, <1>5
<1> HIDE DEF T, t, n
<1>7. t \in Seq(T) /\ Len(t) = n
  BY <1>6
<1>8. QED
  BY <1>4, <1>7 DEF T, t, n

\* Editing the line does not change the past.
LEMMA PastOfEdited ==
  ASSUME NEW ring \in Lines, NEW c \in Ring, NEW s \in Seq(Chars)
  PROVE  /\ [ring EXCEPT ![c] = s] \in Lines
         /\ PastOf([ring EXCEPT ![c] = s], c) = PastOf(ring, c)
         /\ [ring EXCEPT ![c] = s][c] = s
<1>1. ASSUME NEW i \in 1 .. NumCommands - 1
      PROVE  [ring EXCEPT ![c] = s][(c + i) % NumCommands] = ring[(c + i) % NumCommands]
  <2>1. i \in 0 .. NumCommands - 1 /\ i # 0
    BY Places
  <2>2. (c + i) % NumCommands # c
    BY <2>1, Places
  <2>3. QED
    BY <2>2 DEF Lines
<1>2. QED
  BY <1>1 DEF PastOf, Lines

\* The line becomes the last command of the past, and the oldest one is lost.
LEMMA PastOfEntered ==
  ASSUME NEW ring \in Lines, NEW c \in Ring
  PROVE  LET used == next(c)
             after == [ring EXCEPT ![used] = <<>>]
         IN  /\ used \in Ring /\ after \in Lines /\ after[used] = <<>>
             /\ PastOf(after, used) = Append(Tail(PastOf(ring, c)), ring[c])
<1> DEFINE used == next(c)
           after == [ring EXCEPT ![used] = <<>>]
           p == PastOf(ring, c)
           q == PastOf(after, used)
           n == NumCommands - 1
<1>1. /\ NumCommands \in Nat /\ NumCommands > 1 /\ n \in Nat /\ n > 0
      /\ used = Place(c, 1) /\ used \in Ring
  BY Places
<1>2. after \in Lines /\ after[used] = <<>>
      /\ \A d \in Ring : d # used => after[d] = ring[d]
  BY <1>1 DEF Lines
<1> HIDE DEF after
<1>3. /\ p \in Seq(Seq(Chars)) /\ Len(p) = n
      /\ \A i \in 1 .. n : p[i] = ring[Place(c, i)]
  BY PastCommands
<1>4. /\ q \in Seq(Seq(Chars)) /\ Len(q) = n
      /\ \A i \in 1 .. n : q[i] = after[Place(used, i)]
  BY <1>1, <1>2, PastCommands
<1>5. ASSUME NEW i \in 1 .. n
      PROVE  q[i] = IF i < n THEN p[i + 1] ELSE ring[c]
  <2>1. /\ Place(used, i) \in Ring /\ Place(used, i) # used
    BY <1>1, Places
  <2>2. q[i] = ring[Place(used, i)]
    BY <1>2, <1>4, <2>1
  <2>3. CASE i < n
    <3>1. i + 1 \in 1 .. n
      BY <1>1, <2>3
    <3>2. Place(used, i) = Place(c, i + 1)
      BY <1>1, <2>3 DEF Place, Ring
    <3>3. QED
      BY <1>3, <2>2, <2>3, <3>1, <3>2
  <2>4. CASE ~ i < n
    <3>1. Place(used, i) = c
      BY <1>1, <2>4 DEF Place, Ring
    <3>2. QED
      BY <2>2, <2>4, <3>1
  <2>5. QED
    BY <2>3, <2>4
<1>6. ring[c] \in Seq(Chars)
  BY DEF Lines
<1> DEFINE T == Seq(Chars)
           last == ring[c]
           t == Tail(p)
<1> HIDE DEF p, q, n, T, last
<1>7. t \in Seq(T) /\ Len(t) = n - 1 /\ \A i \in 1 .. n - 1 : t[i] = p[i + 1]
  <2>1. p # <<>> /\ p \in Seq(T)
    BY <1>1, <1>3, EmptySeq DEF T
  <2>2. QED
    BY <1>3, <2>1, HeadTailProperties
<1> HIDE DEF t
<1>8. /\ Append(t, last) \in Seq(T) /\ Len(Append(t, last)) = n
      /\ \A i \in 1 .. n : Append(t, last)[i] = IF i < n THEN p[i + 1] ELSE last
  <2>1. last \in T
    BY <1>6 DEF last, T
  <2>2. /\ Append(t, last) \in Seq(T) /\ Len(Append(t, last)) = Len(t) + 1
        /\ \A i \in 1 .. Len(t) : Append(t, last)[i] = t[i]
        /\ Append(t, last)[Len(t) + 1] = last
    BY <1>7, <2>1, AppendProperties
  <2>3. ASSUME NEW i \in 1 .. n
        PROVE  Append(t, last)[i] = IF i < n THEN p[i + 1] ELSE last
    <3>1. CASE i < n
      <4>1. i \in 1 .. n - 1 /\ i \in 1 .. Len(t)
        BY <1>1, <1>7, <3>1
      <4>2. QED
        BY <1>7, <2>2, <3>1, <4>1
    <3>2. CASE ~ i < n
      BY <1>1, <1>7, <2>2, <3>2
    <3>3. QED
      BY <3>1, <3>2
  <2>4. QED
    BY <1>1, <1>7, <2>2, <2>3
<1>9. q = Append(t, last)
  <2>1. q \in Seq(T) /\ \A i \in 1 .. Len(q) : q[i] = Append(t, last)[i]
    BY <1>4, <1>5, <1>8 DEF T, last
  <2>2. QED
    BY <1>4, <1>8, <2>1, SeqEqual
<1>10. QED
  BY <1>1, <1>2, <1>9 DEF after, p, q, last, t

-----------------------------------------------------------------------------
(***************************************************************************)
(* The output of a command.                                                *)
(***************************************************************************)
LEMMA ReadToken ==
  ASSUME NEW S, NEW s \in Seq(S)
  PROVE  sh_read_token(s) \in Seq(S)
<1> DEFINE begin == {i \in DOMAIN s : s[i] # Space /\ \A j \in 1 .. i - 1 : s[j] = Space}
           Word(i) == {j \in i .. Len(s) : \A k \in i .. j : s[k] # Space}
           first == CHOOSE i \in begin : TRUE
           word == Cardinality(Word(first))
<1>1. CASE begin = {}
  <2>1. sh_read_token(s) = <<>>
    BY <1>1 DEF sh_read_token
  <2>2. QED
    BY <2>1
<1>2. CASE begin # {}
  <2>1. first \in 1 .. Len(s) /\ Len(s) \in Nat
    BY <1>2
  <2>2. sh_read_token(s) = SubSeq(s, first, first + word - 1)
    BY <1>2 DEF sh_read_token
  <2>3. Word(first) \in SUBSET (first .. Len(s))
    OBVIOUS
  <2> HIDE DEF first
  <2>4. /\ IsFiniteSet(first .. Len(s))
        /\ Cardinality(first .. Len(s)) = Len(s) - first + 1
    BY <2>1, FS_Interval
  <2>5. IsFiniteSet(Word(first)) /\ word <= Len(s) - first + 1
    BY <2>3, <2>4, FS_Subset
  <2>6. word \in Nat
    BY <2>5, FS_CardinalityType
  <2> HIDE DEF word, begin
  <2>7. \A i \in first .. first + word - 1 : s[i] \in S
    BY <2>1, <2>5, <2>6
  <2>8. first \in Int /\ first + word - 1 \in Int
    BY <2>1, <2>6
  <2>9. QED
    BY <2>2, <2>7, <2>8, SubSeqProperties
<1>3. QED
  BY <1>1, <1>2

\* r is out with more characters at its end, as many as the buffer can hold.
Extends(out, r) ==
  /\ r \in Seq(OutputChars) /\ Len(out) <= Len(r) /\ Len(r) <= MaxOutputSize
  /\ Len(out) = Len(r) => r = out

LEMMA ExtendsTwice ==
  ASSUME NEW a \in Seq(OutputChars), NEW b, NEW c, Extends(a, b), Extends(b, c)
  PROVE  Extends(a, c)
  BY DEF Extends

LEMMA OneCharacter ==
  ASSUME NEW S, NEW x \in S
  PROVE  <<x>> \in Seq(S) /\ Len(<<x>>) = 1 /\ <<x>>[1] = x
OBVIOUS

\* What does not fit in the buffer is lost, and only that.
LEMMA PrintedText ==
  ASSUME NEW out \in Seq(OutputChars), Len(out) <= MaxOutputSize,
         NEW s \in Seq(OutputChars)
  PROVE  /\ Extends(out, sh_print(out, s))
         /\ Len(out) < MaxOutputSize /\ Len(s) = 1 =>
              sh_print(out, s)[Len(sh_print(out, s))] = s[1]
         /\ out = <<>> /\ Len(s) <= MaxOutputSize => sh_print(out, s) = s
         /\ Len(out) + Len(s) >= MaxOutputSize => Len(sh_print(out, s)) = MaxOutputSize
<1> DEFINE room == MaxOutputSize - Len(out)
           n == IF Len(s) > room THEN room ELSE Len(s)
           t == SubSeq(s, 1, n)
           r == sh_print(out, s)
<1>1. MaxOutputSize \in Nat /\ Len(out) \in Nat /\ Len(s) \in Nat
  BY ShellAssumption DEF ShellAssumption
<1>2. n \in 0 .. Len(s) /\ Len(out) + n <= MaxOutputSize
      /\ (Len(out) + Len(s) >= MaxOutputSize => Len(out) + n = MaxOutputSize)
      /\ (Len(out) + Len(s) <= MaxOutputSize => n = Len(s))
  BY <1>1
<1>3. r = out \o t
  BY DEF sh_print
<1> HIDE DEF n, r
<1>4. \A i \in 1 .. n : s[i] \in OutputChars
  BY <1>1, <1>2
<1>5. t \in Seq(OutputChars) /\ Len(t) = n /\ \A i \in 1 .. n : t[i] = s[i]
  <2>1. /\ t \in Seq(OutputChars)
        /\ Len(t) = IF 1 <= n THEN n - 1 + 1 ELSE 0
        /\ \A i \in 1 .. n - 1 + 1 : t[i] = s[1 + i - 1]
    BY <1>2, <1>4, SubSeqProperties
  <2> HIDE DEF t
  <2>2. QED
    BY <1>2, <2>1
<1>6. n = Len(s) => t = s
  BY <1>5, SeqEqual
<1>7. n = 0 => t = <<>>
  BY SubSeqEmpty
<1> HIDE DEF t
<1>8. /\ r \in Seq(OutputChars) /\ Len(r) = Len(out) + n
      /\ \A i \in 1 .. Len(out) + n : r[i] = IF i <= Len(out) THEN out[i] ELSE t[i - Len(out)]
  BY <1>3, <1>5, ConcatProperties
<1>9. Extends(out, r)
  <2>1. n = 0 => r = out
    BY <1>3, <1>7, ConcatEmptySeq
  <2>2. QED
    BY <1>1, <1>2, <1>8, <2>1 DEF Extends
<1>10. Len(out) < MaxOutputSize /\ Len(s) = 1 => r[Len(r)] = s[1]
  <2>1. SUFFICES ASSUME Len(out) < MaxOutputSize, Len(s) = 1
                 PROVE  r[Len(r)] = s[1]
    OBVIOUS
  <2>2. n = 1
    BY <1>1, <1>2, <2>1
  <2>3. r[Len(out) + 1] = t[Len(out) + 1 - Len(out)]
    BY <1>1, <1>8, <2>2
  <2>4. QED
    BY <1>1, <1>5, <1>8, <2>2, <2>3
<1>11. out = <<>> /\ Len(s) <= MaxOutputSize => r = s
  <2>1. SUFFICES ASSUME out = <<>>, Len(s) <= MaxOutputSize
                 PROVE  r = s
    OBVIOUS
  <2>2. Len(out) = 0
    BY <2>1
  <2>3. t = s
    BY <1>1, <1>2, <1>6, <2>1, <2>2
  <2>4. QED
    BY <1>3, <2>1, <2>3, ConcatEmptySeq
<1>12. Len(out) + Len(s) >= MaxOutputSize => Len(r) = MaxOutputSize
  BY <1>1, <1>2, <1>8
<1>13. QED
  BY <1>9, <1>10, <1>11, <1>12 DEF r

LEMMA MessageIsText ==
  ASSUME NEW name \in Seq(OutputChars), NEW p \in Spawned
  PROVE  Message(name, p) \in Seq(OutputChars) /\ p.text \in Seq(OutputChars)
<1>1. /\ CANT_FIND \in Seq(OutputChars) /\ CANT_LAUNCH \in Seq(OutputChars)
      /\ NOT_ENOUGH_MEMORY \in Seq(OutputChars) /\ CRASHED \in Seq(OutputChars)
      /\ <<>> \in Seq(OutputChars)
  <2>1. /\ "can't find" \in OutputChars /\ "can't launch" \in OutputChars
        /\ "out of memory" \in OutputChars /\ "crashed" \in OutputChars
    BY Zenon DEF OutputChars
  <2>2. CANT_FIND \in Seq(OutputChars)
    BY <2>1, OneCharacter, Zenon DEF CANT_FIND
  <2>3. CANT_LAUNCH \in Seq(OutputChars)
    BY <2>1, OneCharacter, Zenon DEF CANT_LAUNCH
  <2>4. NOT_ENOUGH_MEMORY \in Seq(OutputChars)
    BY <2>1, OneCharacter, Zenon DEF NOT_ENOUGH_MEMORY
  <2>5. CRASHED \in Seq(OutputChars)
    BY <2>1, OneCharacter, Zenon DEF CRASHED
  <2>6. QED
    BY <2>2, <2>3, <2>4, <2>5, EmptySeq
<1>2. /\ CANT_FIND \o name \in Seq(OutputChars)
      /\ CANT_LAUNCH \o name \in Seq(OutputChars)
      /\ name \o CRASHED \in Seq(OutputChars)
  BY <1>1, ConcatProperties
<1>3. Message(name, p) \in Seq(OutputChars)
  <2>1. p.status \in {OK, NOT_FOUND, OUT_OF_MEMORY}
    BY DEF Spawned
  <2>2. QED
    BY <1>1, <1>2, <2>1
       DEF Message, OK, NOT_FOUND, OUT_OF_MEMORY, INTERNAL_ERROR
<1>4. p.text \in Seq(OutputChars)
  <2>1. p.text \in Outputs \cup {<<>>}
    BY DEF Spawned
  <2>2. CASE p.text \in Outputs
    <3>1. p.text \in Seq(Chars \cup {NewLine})
      BY <2>2, ShellAssumption DEF ShellAssumption
    <3>2. Chars \cup {NewLine} \subseteq OutputChars
      BY DEF OutputChars
    <3>3. QED
      BY <3>1, <3>2, SeqMonotonic
  <2>3. CASE p.text = <<>>
    BY <1>1, <2>3
  <2>4. QED
    BY <2>1, <2>2, <2>3
<1>5. QED
  BY <1>3, <1>4

\* What is printed by a command is at the end, and ends a line if it fits.
RunsOn(out, r) ==
  /\ Extends(out, r)
  /\ r = out \/ Len(r) = MaxOutputSize \/ r[Len(r)] = NewLine

LEMMA RunExtends ==
  ASSUME NEW out \in Seq(OutputChars), Len(out) <= MaxOutputSize,
         NEW src \in Seq(ScriptChars), NEW p \in Spawned
  PROVE  RunsOn(out, sh_run(out, src, p))
<1> DEFINE name == sh_read_token(src)
           first == sh_print(out, p.text)
           message == Message(name, p)
           written == sh_print(first, message)
           ended == sh_print(written, <<NewLine>>)
           r == sh_run(out, src, p)
<1>1. name \in Seq(OutputChars)
  <2>1. name \in Seq(ScriptChars) /\ ScriptChars \subseteq OutputChars
    BY ReadToken DEF ScriptChars, OutputChars
  <2>2. QED
    BY <2>1, SeqMonotonic
<1>2. message \in Seq(OutputChars) /\ p.text \in Seq(OutputChars)
      /\ <<NewLine>> \in Seq(OutputChars)
  <2>1. NewLine \in OutputChars
    BY DEF OutputChars
  <2>2. <<NewLine>> \in Seq(OutputChars)
    BY <2>1, OneCharacter, Zenon
  <2>3. QED
    BY <1>1, <2>2, MessageIsText
<1>3. \/ name = <<>> /\ r = out
      \/ Len(written) > Len(out) /\ written[Len(written)] # NewLine /\ r = ended
      \/ ~ (Len(written) > Len(out) /\ written[Len(written)] # NewLine) /\ r = written
  BY DEF sh_run
<1> HIDE DEF r, name, message
<1>4. Extends(out, first)
  BY <1>2, PrintedText
<1>5. first \in Seq(OutputChars) /\ Len(first) <= MaxOutputSize
  BY <1>4 DEF Extends
<1> HIDE DEF first
<1>6. Extends(first, written)
  BY <1>2, <1>5, PrintedText
<1>7. Extends(out, written)
  BY <1>4, <1>6, ExtendsTwice
<1>8. written \in Seq(OutputChars) /\ Len(written) <= MaxOutputSize
  BY <1>7 DEF Extends
<1> HIDE DEF written
<1> DEFINE nl == <<NewLine>>
<1>9. nl \in Seq(OutputChars) /\ Len(nl) = 1 /\ nl[1] = NewLine /\ ended = sh_print(written, nl)
  BY <1>2
<1> HIDE DEF nl
<1>10. /\ Extends(written, ended)
       /\ Len(written) < MaxOutputSize => ended[Len(ended)] = NewLine
       /\ Len(written) + 1 >= MaxOutputSize => Len(ended) = MaxOutputSize
  <2> HIDE DEF ended
  <2>1. /\ Extends(written, sh_print(written, nl))
        /\ Len(written) < MaxOutputSize /\ Len(nl) = 1 =>
             sh_print(written, nl)[Len(sh_print(written, nl))] = nl[1]
        /\ Len(written) + Len(nl) >= MaxOutputSize =>
             Len(sh_print(written, nl)) = MaxOutputSize
    BY <1>8, <1>9, PrintedText, Zenon
  <2>2. QED
    BY <1>9, <2>1, Zenon
<1> HIDE DEF ended
<1>11. Extends(out, ended)
  BY <1>7, <1>10, ExtendsTwice
<1>12. CASE r = out
  BY <1>12 DEF Extends, RunsOn, r
<1>13. CASE r = ended
  <2>1. Len(ended) = MaxOutputSize \/ ended[Len(ended)] = NewLine
    BY <1>8, <1>10, ShellAssumption DEF ShellAssumption
  <2>2. QED
    BY <1>11, <1>13, <2>1 DEF r, RunsOn
<1>14. CASE ~ (Len(written) > Len(out) /\ written[Len(written)] # NewLine) /\ r = written
  <2>1. Len(written) = Len(out) => written = out
    BY <1>7 DEF Extends
  <2>2. Len(written) > Len(out) \/ Len(written) = Len(out)
    BY <1>7, <1>8 DEF Extends
  <2>3. QED
    BY <1>7, <1>14, <2>1, <2>2 DEF r, RunsOn
<1>15. QED
  BY <1>3, <1>12, <1>13, <1>14

-----------------------------------------------------------------------------
(***************************************************************************)
(* The types hold after each step.                                         *)
(***************************************************************************)
\* What a key makes of the command line.
Edited(s, h) ==
  /\ commands' = [commands EXCEPT ![current] = s] /\ current' = current /\ history' = h
  /\ output' = output /\ mode' = mode /\ scripting' = scripting

Entered ==
  LET used == next(current) IN
  /\ commands' = [commands EXCEPT ![used] = <<>>] /\ current' = used /\ history' = used
  /\ \E p \in Spawned : output' = sh_run(<<>>, commands[current], p)
  /\ mode' = mode /\ scripting' = scripting

\* A step is one of these, as far as the lines and the output are concerned.
LEMMA Steps ==
  ASSUME ShellTypeOK, [Next]_vars
  PROVE  \/ StartEditor
         \/ Entered
         \/ previous(history) # current
            /\ Edited(commands[previous(history)], previous(history))
         \/ history # current
            /\ Edited(IF next(history) = current THEN <<>> ELSE commands[next(history)],
                      next(history))
         \/ commands[current] # <<>>
            /\ Edited(SubSeq(commands[current], 1, Len(commands[current]) - 1), history)
         \/ \E c \in Chars : Len(commands[current]) < MaxCommandLength
                             /\ Edited(Append(commands[current], c), history)
         \/ Escape \/ StartScript \/ ReadEnd \/ ReadNewLine \/ ReadChar
         \/ UNCHANGED vars
<1>1. EnterKey => Entered
  BY DEF EnterKey, Entered, Show, Key
<1>2. ASSUME NEW s, NEW h, Key, Edit(s, h)
      PROVE  Edited(s, h)
  BY <1>2 DEF Key, Edit, Show, Edited
<1>3. CASE ArrowUp
  BY <1>2, <1>3 DEF ArrowUp
<1>4. CASE ArrowDown
  BY <1>2, <1>4 DEF ArrowDown
<1>5. CASE Backspace
  BY <1>2, <1>5 DEF Backspace
<1>6. ASSUME NEW c \in Chars, Insert(c)
      PROVE  Len(commands[current]) < MaxCommandLength
             /\ Edited(Append(commands[current], c), history)
  BY <1>2, <1>6 DEF Insert
<1>7. QED
  BY <1>1, <1>3, <1>4, <1>5, <1>6 DEF Next

LEMMA Shortened ==
  ASSUME NEW S, NEW s \in Seq(S), s # <<>>
  PROVE  SubSeq(s, 1, Len(s) - 1) \in Seq(S)
<1>1. Len(s) \in Nat /\ Len(s) - 1 \in Int /\ \A i \in 1 .. Len(s) - 1 : s[i] \in S
  OBVIOUS
<1>2. 1 \in Int
  OBVIOUS
<1>3. QED
  BY <1>1, <1>2, SubSeqProperties

LEMMA ShellTypesStart ==
  ASSUME Init
  PROVE  ShellTypeOK
<1>1. 0 \in Ring
  BY ShellAssumption DEF ShellAssumption, Ring
<1>2. MaxOutputSize \in Nat /\ Len(<<>>) = 0
  BY ShellAssumption DEF ShellAssumption
<1>3. QED
  BY <1>1, <1>2, EmptySeq DEF Init, ShellTypeOK

LEMMA ShellTypesKept ==
  ASSUME ShellTypeOK, [Next]_vars
  PROVE  ShellTypeOK'
<1>1. /\ current \in Ring /\ history \in Ring /\ commands \in Lines
      /\ next(current) \in Ring /\ next(history) \in Ring /\ previous(history) \in Ring
  <2>1. current \in Ring /\ history \in Ring /\ commands \in Lines
    BY DEF ShellTypeOK, Lines
  <2>2. 1 \in 0 .. NumCommands - 1 /\ NumCommands - 1 \in 0 .. NumCommands - 1
    BY ShellAssumption DEF ShellAssumption
  <2>3. QED
    BY <2>1, <2>2, Places
<1>2. ASSUME NEW s \in Seq(Chars), NEW h \in Ring, Edited(s, h)
      PROVE  ShellTypeOK'
  <2>1. [commands EXCEPT ![current] = s] \in Lines
    BY <1>1, PastOfEdited
  <2>2. QED
    BY <1>1, <1>2, <2>1 DEF ShellTypeOK, Edited, Lines, scripting
<1>3. ASSUME NEW out \in Seq(OutputChars), Len(out) <= MaxOutputSize,
             NEW src \in Seq(ScriptChars),
             \E p \in Spawned : output' = sh_run(out, src, p)
      PROVE  output' \in Seq(OutputChars) /\ Len(output') <= MaxOutputSize
  BY <1>3, RunExtends, Zenon DEF RunsOn, Extends
<1>4. commands[current] \in Seq(Chars) /\ commands[current] \in Seq(ScriptChars)
  <2>1. commands[current] \in Seq(Chars)
    BY <1>1 DEF Lines
  <2>2. Chars \subseteq ScriptChars
    BY DEF ScriptChars
  <2>3. QED
    BY <2>1, <2>2, SeqMonotonic
<1>5. <<>> \in Seq(OutputChars) /\ Len(<<>>) <= MaxOutputSize /\ <<>> \in Seq(Chars)
      /\ <<>> \in Seq(ScriptChars)
  BY ShellAssumption DEF ShellAssumption
<1>6. CASE StartEditor
  <2>1. PICK banner \in Banners : output' = sh_print(<<>>, banner)
    BY <1>6 DEF StartEditor, Show
  <2>2. banner \in Seq(OutputChars)
    <3>1. banner \in Seq(Chars \cup {NewLine})
      BY ShellAssumption DEF ShellAssumption
    <3>2. Chars \cup {NewLine} \subseteq OutputChars
      BY DEF OutputChars
    <3>3. QED
      BY <3>1, <3>2, SeqMonotonic
  <2>3. Extends(<<>>, output')
    BY <1>5, <2>1, <2>2, PrintedText
  <2>4. output' \in Seq(OutputChars) /\ Len(output') <= MaxOutputSize
    BY <2>3 DEF Extends
  <2>5. QED
    BY <1>6, <2>4 DEF StartEditor, Show, ShellTypeOK, scripting
<1>7. CASE Entered
  <2>1. [commands EXCEPT ![next(current)] = <<>>] \in Lines
    BY <1>1, PastOfEntered
  <2>2. output' \in Seq(OutputChars) /\ Len(output') <= MaxOutputSize
    BY <1>3, <1>4, <1>5, <1>7 DEF Entered
  <2>3. QED
    BY <1>1, <1>7, <2>1, <2>2 DEF Entered, ShellTypeOK, Lines, scripting
<1>8. CASE previous(history) # current
           /\ Edited(commands[previous(history)], previous(history))
  BY <1>1, <1>2, <1>8 DEF Lines
<1>9. CASE history # current
           /\ Edited(IF next(history) = current THEN <<>> ELSE commands[next(history)],
                     next(history))
  BY <1>1, <1>2, <1>5, <1>9 DEF Lines
<1>10. CASE commands[current] # <<>>
            /\ Edited(SubSeq(commands[current], 1, Len(commands[current]) - 1), history)
  BY <1>1, <1>2, <1>4, <1>10, Shortened
<1>11. ASSUME NEW c \in Chars, Edited(Append(commands[current], c), history)
       PROVE  ShellTypeOK'
  BY <1>1, <1>2, <1>4, <1>11, AppendProperties
<1>12. CASE Escape
  BY <1>12 DEF Escape, ShellTypeOK, editing, scripting
<1>13. CASE StartScript
  <2>1. script' \in Seq(ScriptChars)
    BY <1>13, ShellAssumption DEF StartScript, ShellAssumption, ScriptChars
  <2>2. QED
    BY <1>13, <2>1 DEF StartScript, ShellTypeOK, editing
<1>14. RunLine => output' \in Seq(OutputChars) /\ Len(output') <= MaxOutputSize
  BY <1>3 DEF RunLine, ShellTypeOK
<1>15. CASE ReadEnd
  BY <1>14, <1>15 DEF ReadEnd, Reading, ShellTypeOK, editing
<1>16. script # <<>> => Tail(script) \in Seq(ScriptChars) /\ Head(script) \in ScriptChars
  BY HeadTailProperties DEF ShellTypeOK
<1>17. CASE ReadNewLine
  <2>1. CASE Len(line) > 0 /\ line[Len(line)] = Backslash
    <3>1. line # <<>> /\ line \in Seq(ScriptChars)
      BY <2>1 DEF ShellTypeOK
    <3>2. SubSeq(line, 1, Len(line) - 1) \in Seq(ScriptChars)
      BY <3>1, Shortened
    <3>3. QED
      BY <1>16, <1>17, <2>1, <3>2 DEF ReadNewLine, Reading, ShellTypeOK, editing
  <2>2. CASE ~ (Len(line) > 0 /\ line[Len(line)] = Backslash)
    BY <1>5, <1>14, <1>16, <1>17, <2>2 DEF ReadNewLine, Reading, ShellTypeOK, editing
  <2>3. QED
    BY <2>1, <2>2
<1>18. CASE ReadChar
  <2>1. Append(line, Head(script)) \in Seq(ScriptChars)
    BY <1>16, <1>18, AppendProperties DEF ReadChar, ShellTypeOK
  <2>2. QED
    BY <1>16, <1>18, <2>1 DEF ReadChar, Reading, ShellTypeOK, editing
<1>19. CASE UNCHANGED vars
  BY <1>19 DEF vars, ShellTypeOK
<1>20. QED
  BY <1>6, <1>7, <1>8, <1>9, <1>10, <1>11, <1>12, <1>13, <1>15, <1>17, <1>18, <1>19, Steps

-----------------------------------------------------------------------------
(***************************************************************************)
(* The output ends with the end of a line.                                 *)
(***************************************************************************)
LEMMA OutputStart ==
  ASSUME Init
  PROVE  OutputEndsLine
  BY DEF Init, OutputEndsLine

LEMMA OutputKept ==
  ASSUME ShellTypeOK, OutputEndsLine, [Next]_vars
  PROVE  OutputEndsLine'
<1>1. ASSUME output' = output
      PROVE  OutputEndsLine'
  BY <1>1 DEF OutputEndsLine
<1>2. ASSUME NEW out \in Seq(OutputChars), Len(out) <= MaxOutputSize,
             NEW src \in Seq(ScriptChars), out = output \/ out = <<>>,
             \E p \in Spawned : output' = sh_run(out, src, p)
      PROVE  OutputEndsLine'
  <2>1. RunsOn(out, output')
    BY <1>2, RunExtends, Zenon
  <2>2. CASE output' = out
    BY <1>1, <1>2, <2>2 DEF OutputEndsLine
  <2>3. CASE Len(output') = MaxOutputSize
    BY <2>3, ShellAssumption DEF OutputEndsLine, ShellAssumption
  <2>4. CASE output'[Len(output')] = NewLine
    BY <2>4 DEF OutputEndsLine
  <2>5. QED
    BY <2>1, <2>2, <2>3, <2>4 DEF RunsOn
<1>3. output \in Seq(OutputChars) /\ Len(output) <= MaxOutputSize /\ line \in Seq(ScriptChars)
  BY DEF ShellTypeOK
<1>4. <<>> \in Seq(OutputChars) /\ Len(<<>>) <= MaxOutputSize
  BY ShellAssumption DEF ShellAssumption
<1>5. CASE StartEditor
  <2>1. PICK banner \in Banners : output' = sh_print(<<>>, banner)
    BY <1>5 DEF StartEditor, Show
  <2>2. banner \in Seq(OutputChars)
    <3>1. banner \in Seq(Chars \cup {NewLine})
      BY ShellAssumption DEF ShellAssumption
    <3>2. Chars \cup {NewLine} \subseteq OutputChars
      BY DEF OutputChars
    <3>3. QED
      BY <3>1, <3>2, SeqMonotonic
  <2>3. /\ Len(banner) <= MaxOutputSize => output' = banner
        /\ Len(<<>>) + Len(banner) >= MaxOutputSize => Len(output') = MaxOutputSize
    BY <1>4, <2>1, <2>2, PrintedText
  <2>4. Len(banner) \in Nat /\ MaxOutputSize \in Nat /\ Len(<<>>) = 0
    BY <2>2, ShellAssumption DEF ShellAssumption
  <2>5. output' = banner \/ Len(output') = MaxOutputSize
    BY <2>3, <2>4
  <2>6. QED
    BY <2>4, <2>5 DEF OutputEndsLine
<1>6. CASE Entered
  <2>1. commands[current] \in Seq(ScriptChars)
    <3>1. commands[current] \in Seq(Chars)
      BY DEF ShellTypeOK
    <3>2. Chars \subseteq ScriptChars
      BY DEF ScriptChars
    <3>3. QED
      BY <3>1, <3>2, SeqMonotonic
  <2>2. QED
    BY <1>2, <1>4, <1>6, <2>1 DEF Entered
<1>7. RunLine => OutputEndsLine'
  BY <1>2, <1>3 DEF RunLine
<1>8. CASE ReadEnd
  BY <1>7, <1>8 DEF ReadEnd
<1>9. CASE ReadNewLine
  BY <1>1, <1>7, <1>9 DEF ReadNewLine
<1>10. Escape \/ StartScript \/ ReadChar \/ UNCHANGED vars => output' = output
  BY DEF Escape, StartScript, ReadChar, vars
<1>11. ASSUME NEW s, NEW h, Edited(s, h)
       PROVE  OutputEndsLine'
  BY <1>1, <1>11 DEF Edited
<1>12. QED
  BY <1>1, <1>5, <1>6, <1>8, <1>9, <1>10, <1>11, Steps

-----------------------------------------------------------------------------
(***************************************************************************)
(* Each key is a step of ShellHistory.                                     *)
(***************************************************************************)
\* The distance to the command that the line was taken from.
LEMMA Distance ==
  ASSUME NEW c \in Ring, NEW h \in Ring
  PROVE  /\ BackOf(c, c) = 0
         /\ BackOf(c, h) \in 0 .. NumCommands - 1
         /\ h # c => BackOf(c, h) > 0
         /\ previous(h) # c => BackOf(c, previous(h)) = BackOf(c, h) + 1
                               /\ BackOf(c, h) < NumCommands - 1
         /\ h # c => BackOf(c, next(h)) = BackOf(c, h) - 1
         /\ BackOf(c, h) > 0 => h = Place(c, NumCommands - BackOf(c, h))
<1>1. /\ NumCommands \in Nat /\ NumCommands > 1
      /\ BackOf(c, c) = Behind(c, c) /\ BackOf(c, h) = Behind(c, h)
      /\ next(h) = Place(h, 1) /\ previous(h) = Place(h, NumCommands - 1)
  BY Places DEF BackOf
<1>2. 1 \in 0 .. NumCommands - 1 /\ NumCommands - 1 \in 0 .. NumCommands - 1
  BY <1>1
<1>3. Place(h, 1) \in Ring /\ Place(h, NumCommands - 1) \in Ring
  BY <1>2, Places
<1>4. /\ BackOf(c, previous(h)) = Behind(c, Place(h, NumCommands - 1))
      /\ BackOf(c, next(h)) = Behind(c, Place(h, 1))
  BY <1>1, <1>3, Places DEF BackOf
<1>5. c \in 0 .. NumCommands - 1 /\ h \in 0 .. NumCommands - 1
  BY DEF Ring
<1>6. QED
  BY <1>1, <1>4, <1>5 DEF Behind, Place

\* The command that is a number of places behind the line.
LEMMA PastBehind ==
  ASSUME NEW ring \in Lines, NEW c \in Ring, NEW h \in Ring, h # c
  PROVE  PastOf(ring, c)[NumCommands - 1 + 1 - BackOf(c, h)] = ring[h]
<1>1. /\ BackOf(c, h) \in 0 .. NumCommands - 1 /\ BackOf(c, h) > 0
      /\ h = Place(c, NumCommands - BackOf(c, h))
  BY Distance
<1>2. NumCommands \in Nat /\ NumCommands > 1
  BY Places
<1>3. /\ NumCommands - BackOf(c, h) \in 1 .. NumCommands - 1
      /\ NumCommands - 1 + 1 - BackOf(c, h) = NumCommands - BackOf(c, h)
  BY <1>1, <1>2
<1>4. QED
  BY <1>1, <1>3, PastCommands

LEMMA HistoryStart ==
  ASSUME Init
  PROVE  Line!Init
<1>1. NumCommands \in Nat /\ NumCommands > 1 /\ 0 \in Ring
  BY ShellAssumption DEF ShellAssumption, Ring
<1>2. commands \in [Ring -> {<<>>}] /\ current = 0 /\ history = 0
  BY DEF Init
<1>3. ASSUME NEW i \in 1 .. NumCommands - 1
      PROVE  commands[(0 + i) % NumCommands] = <<>>
  <2>1. i \in 0 .. NumCommands - 1
    BY <1>1
  <2>2. (0 + i) % NumCommands \in Ring
    BY <1>1, <2>1, Places
  <2>3. QED
    BY <1>2, <2>2
<1>4. PastOf(commands, current) = [i \in 1 .. NumCommands - 1 |-> <<>>]
  BY <1>2, <1>3 DEF PastOf
<1>5. BackOf(current, history) = 0
  BY <1>1, <1>2, Distance
<1>6. QED
  BY <1>1, <1>2, <1>4, <1>5 DEF Line!Init

HistoryVars == <<PastOf(commands, current), commands[current], BackOf(current, history)>>

LEMMA HistoryStep ==
  ASSUME ShellTypeOK, [Next]_vars
  PROVE  [Line!Next]_HistoryVars
<1>1. /\ current \in Ring /\ history \in Ring /\ commands \in Lines
      /\ next(history) \in Ring /\ previous(history) \in Ring /\ next(current) \in Ring
      /\ NumCommands \in Nat /\ NumCommands > 1 /\ commands[current] \in Seq(Chars)
  <2>1. current \in Ring /\ history \in Ring /\ commands \in Lines
    BY DEF ShellTypeOK, Lines
  <2>2. 1 \in 0 .. NumCommands - 1 /\ NumCommands - 1 \in 0 .. NumCommands - 1
    BY ShellAssumption DEF ShellAssumption
  <2>3. QED
    BY <2>1, <2>2, Places DEF Lines
<1>2. ASSUME UNCHANGED editing
      PROVE  UNCHANGED HistoryVars
  BY <1>2 DEF editing, HistoryVars
<1>3. ASSUME NEW s \in Seq(Chars), NEW h, Edited(s, h)
      PROVE  /\ PastOf(commands, current)' = PastOf(commands, current)
             /\ (commands[current])' = s
             /\ BackOf(current, history)' = BackOf(current, h)
  BY <1>1, <1>3, PastOfEdited DEF Edited
<1>4. CASE Entered
  <2>1. /\ PastOf(commands, current)' = Append(Tail(PastOf(commands, current)), commands[current])
        /\ (commands[current])' = <<>>
    BY <1>1, <1>4, PastOfEntered DEF Entered
  <2>2. BackOf(current, history)' = 0
    BY <1>1, <1>4, Distance DEF Entered
  <2>3. Line!Enter
    BY <2>1, <2>2 DEF Line!Enter
  <2>4. QED
    BY <2>3 DEF Line!Next
<1>5. CASE previous(history) # current
           /\ Edited(commands[previous(history)], previous(history))
  <2> DEFINE h == previous(history)
             b == BackOf(current, history)
  <2>1. BackOf(current, h) = b + 1 /\ b \in 0 .. NumCommands - 1 /\ b < NumCommands - 1
    BY <1>1, <1>5, Distance
  <2>2. PastOf(commands, current)[NumCommands - 1 + 1 - (b + 1)] = commands[h]
    BY <1>1, <1>5, <2>1, PastBehind
  <2>3. commands[h] \in Seq(Chars)
    BY <1>1 DEF Lines
  <2>4. /\ PastOf(commands, current)' = PastOf(commands, current)
        /\ (commands[current])' = commands[h]
        /\ BackOf(current, history)' = b + 1
    BY <1>3, <1>5, <2>1, <2>3
  <2>5. b + 1 # 0
    BY <2>1
  <2>6. Line!Recall(b + 1)
    BY <2>2, <2>4, <2>5 DEF Line!Recall
  <2>7. QED
    BY <2>1, <2>6 DEF Line!Next
<1>6. CASE history # current
           /\ Edited(IF next(history) = current THEN <<>> ELSE commands[next(history)],
                     next(history))
  <2> DEFINE h == next(history)
             b == BackOf(current, history)
             s == IF h = current THEN <<>> ELSE commands[h]
  <2>1. BackOf(current, h) = b - 1 /\ b \in 0 .. NumCommands - 1 /\ b > 0
    BY <1>1, <1>6, Distance
  <2>2. s \in Seq(Chars)
    BY <1>1, EmptySeq DEF Lines
  <2>3. /\ PastOf(commands, current)' = PastOf(commands, current)
        /\ (commands[current])' = s
        /\ BackOf(current, history)' = b - 1
    BY <1>3, <1>6, <2>1, <2>2
  <2>4. h = current => b - 1 = 0
    BY <1>1, <2>1, Distance
  <2>5. h # current => b - 1 # 0
    BY <1>1, <2>1, Distance
  <2>6. h # current =>
          PastOf(commands, current)[NumCommands - 1 + 1 - (b - 1)] = commands[h]
    BY <1>1, <2>1, PastBehind
  <2>7. Line!Recall(b - 1)
    BY <2>3, <2>4, <2>5, <2>6 DEF Line!Recall
  <2>8. QED
    BY <2>1, <2>7 DEF Line!Next
<1>7. CASE commands[current] # <<>>
           /\ Edited(SubSeq(commands[current], 1, Len(commands[current]) - 1), history)
  <2>1. SubSeq(commands[current], 1, Len(commands[current]) - 1) \in Seq(Chars)
    BY <1>1, <1>7, Shortened
  <2>2. Line!Backspace
    BY <1>3, <1>7, <2>1 DEF Line!Backspace
  <2>3. QED
    BY <2>2 DEF Line!Next
<1>8. ASSUME NEW c \in Chars, Len(commands[current]) < MaxCommandLength,
             Edited(Append(commands[current], c), history)
      PROVE  Line!Next
  <2>1. Append(commands[current], c) \in Seq(Chars)
    BY <1>1, AppendProperties
  <2>2. Line!Type(c)
    BY <1>3, <1>8, <2>1 DEF Line!Type
  <2>3. QED
    BY <2>2 DEF Line!Next
<1>9. StartEditor => UNCHANGED editing
  BY DEF StartEditor, Show, editing
<1>10. Escape \/ StartScript \/ ReadEnd \/ ReadNewLine \/ ReadChar \/ UNCHANGED vars
         => UNCHANGED editing
  BY DEF Escape, StartScript, ReadEnd, ReadNewLine, ReadChar, Reading, vars, editing
<1>11. QED
  BY <1>2, <1>4, <1>5, <1>6, <1>7, <1>8, <1>9, <1>10, Steps

-----------------------------------------------------------------------------
(***************************************************************************)
(* Scripts: what one more character makes of the lines of a text.          *)
(***************************************************************************)
JoinWith(r, c) ==
  IF c = NewLine /\ r # <<>> /\ r[Len(r)] = Backslash THEN SubSeq(r, 1, Len(r) - 1)
  ELSE Append(r, c)

LinesWith(t, c) ==
  IF c = NewLine THEN Append(t, <<>>) ELSE [t EXCEPT ![Len(t)] = Append(@, c)]

Texts == Seq(OutputChars)
TextLines == Seq(Texts) \ {<<>>}
NoLine == <<<<>>>>

\* f gives, for each prefix of s, what its characters make of a.
Follows(f, s, V, a, With(_, _)) ==
  f \in [0 .. Len(s) -> V] /\ f[0] = a
  /\ \A k \in 1 .. Len(s) : f[k] = With(f[k - 1], s[k])

LEMMA JoinedKept ==
  ASSUME NEW r \in Texts, NEW c \in OutputChars
  PROVE  JoinWith(r, c) \in Texts
<1>1. CASE c = NewLine /\ r # <<>> /\ r[Len(r)] = Backslash
  <2>1. SubSeq(r, 1, Len(r) - 1) \in Seq(OutputChars)
    BY <1>1, Shortened DEF Texts
  <2>2. QED
    BY <1>1, <2>1 DEF JoinWith, Texts
<1>2. CASE ~ (c = NewLine /\ r # <<>> /\ r[Len(r)] = Backslash)
  <2>1. Append(r, c) \in Seq(OutputChars)
    BY AppendProperties DEF Texts
  <2>2. JoinWith(r, c) = Append(r, c)
    BY <1>2, Zenon DEF JoinWith
  <2>3. QED
    BY <2>1, <2>2 DEF Texts
<1>3. QED
  BY <1>1, <1>2

LEMMA LinesKept ==
  ASSUME NEW t \in TextLines, NEW c \in OutputChars
  PROVE  LinesWith(t, c) \in TextLines
<1>1. t \in Seq(Texts) /\ Len(t) \in 1 .. Len(t) /\ t[Len(t)] \in Texts
  <2>1. t \in Seq(Texts) /\ t # <<>>
    BY DEF TextLines
  <2>2. Len(t) \in Nat /\ Len(t) # 0 /\ \A i \in 1 .. Len(t) : t[i] \in Texts
    BY <2>1
  <2>3. QED
    BY <2>1, <2>2
<1>2. Append(t, <<>>) \in TextLines
  <2>1. <<>> \in Texts
    BY DEF Texts
  <2>2. QED
    BY <1>1, <2>1, AppendProperties DEF TextLines
<1>3. Append(t[Len(t)], c) \in Texts
  BY <1>1, AppendProperties DEF Texts
<1>4. [t EXCEPT ![Len(t)] = Append(@, c)] \in TextLines
  <2> DEFINE T == Texts
             x == Append(t[Len(t)], c)
  <2>1. t \in Seq(T) /\ x \in T /\ Len(t) \in 1 .. Len(t)
    BY <1>1, <1>3
  <2> HIDE DEF T, x
  <2>2. [t EXCEPT ![Len(t)] = x] \in Seq(T) /\ Len([t EXCEPT ![Len(t)] = x]) = Len(t)
    BY <2>1, ExceptSeq
  <2>3. [t EXCEPT ![Len(t)] = x] # <<>>
    BY <2>1, <2>2
  <2>4. QED
    BY <2>2, <2>3 DEF T, x, TextLines
<1>5. QED
  BY <1>2, <1>4 DEF LinesWith

LEMMA JoinIs ==
  ASSUME NEW s \in Texts
  PROVE  \E f \in [0 .. Len(s) -> Texts] :
           /\ Join(s) = f[Len(s)] /\ f[0] = <<>>
           /\ \A k \in 1 .. Len(s) : f[k] = JoinWith(f[k - 1], s[k])
<1> DEFINE n == Len(s)
           V == Texts
           P(f) == f = [k \in 0 .. n |->
                     LET r == f[k - 1] IN
                     IF k = 0 THEN <<>>
                     ELSE IF s[k] = NewLine /\ r # <<>> /\ r[Len(r)] = Backslash
                       THEN SubSeq(r, 1, Len(r) - 1)
                     ELSE Append(r, s[k])]
           loop == CHOOSE f : P(f)
           step == [p \in (1 .. n) \X V |-> JoinWith(p[2], s[p[1]])]
<1>1. n \in Nat /\ <<>> \in V /\ \A k \in 1 .. n : s[k] \in OutputChars
  BY DEF Texts, TextLines
<1>2. step \in [(1 .. n) \X V -> V]
  <2>1. ASSUME NEW p \in (1 .. n) \X V PROVE JoinWith(p[2], s[p[1]]) \in V
    <3>1. p[1] \in 1 .. n /\ p[2] \in V
      OBVIOUS
    <3>2. QED
      BY <1>1, <3>1, JoinedKept
  <2>2. QED
    BY <2>1
<1>3. PICK g : Recursive(g, n, V, <<>>, step)
  <2> HIDE DEF n, V, step
  <2>1. QED
    BY <1>1, <1>2, Recursion
<1>4. \A k \in 1 .. n : g[k] = JoinWith(g[k - 1], s[k])
  <2> TAKE k \in 1 .. n
  <2>1. g[k - 1] \in V /\ g[k] = step[<<k, g[k - 1]>>]
    <3> HIDE DEF V, step
    <3>1. k - 1 \in 0 .. n
      BY <1>1
    <3>2. QED
      BY <1>3, <3>1 DEF Recursive
  <2>2. QED
    BY <2>1
<1>5. P(g)
  <2>1. g \in [0 .. n -> V] /\ g[0] = <<>>
    BY <1>3 DEF Recursive
  <2>2. ASSUME NEW k \in 0 .. n
        PROVE  g[k] = IF k = 0 THEN <<>> ELSE JoinWith(g[k - 1], s[k])
    <3>1. k = 0 \/ k \in 1 .. n
      BY <1>1
    <3>2. k \in 1 .. n => k # 0
      OBVIOUS
    <3>3. QED
      BY <1>4, <2>1, <3>1, <3>2
  <2>3. QED
    BY <2>1, <2>2 DEF JoinWith
<1>6. Join(s) = loop[n] /\ P(loop)
  BY <1>5 DEF Join
<1> HIDE DEF loop
<1>7. \A k \in 0 .. n : loop[k] = IF k = 0 THEN <<>> ELSE JoinWith(loop[k - 1], s[k])
  BY <1>6 DEF JoinWith
<1> HIDE DEF n, P
<1>8. Repeats(loop, n, V, <<>>, step)
  <2>1. 0 \in 0 .. n /\ \A k \in 1 .. n : k \in 0 .. n /\ k # 0
    BY <1>1
  <2> HIDE DEF V
  <2>2. QED
    BY <1>7, <2>1 DEF Repeats
<1> HIDE DEF V, step
<1>9. \A k \in 0 .. n : loop[k] = g[k]
  <2>1. PICK a : a = <<>>
    OBVIOUS
  <2>2. Recursive(g, n, V, a, step) /\ Repeats(loop, n, V, a, step)
    BY <1>3, <1>8, <2>1
  <2>3. BothRepeat(loop, g, n, V, a, step)
    BY <1>1, <2>2 DEF BothRepeat
  <2>4. QED
    BY <2>3, RecursionIsOne
<1>10. g \in [0 .. n -> V] /\ n \in 0 .. n /\ g[0] = <<>>
  BY <1>1, <1>3 DEF Recursive
<1>11. Join(s) = g[n]
  BY <1>6, <1>9, <1>10
<1>12. QED
  BY <1>4, <1>10, <1>11 DEF n, V

LEMMA LinesAre ==
  ASSUME NEW s \in Texts
  PROVE  \E f \in [0 .. Len(s) -> TextLines] :
           /\ LinesOf(s) = f[Len(s)] /\ f[0] = NoLine
           /\ \A k \in 1 .. Len(s) : f[k] = LinesWith(f[k - 1], s[k])
<1> DEFINE n == Len(s)
           V == TextLines
           P(f) == f = [k \in 0 .. n |->
                     LET t == f[k - 1] IN
                     IF k = 0 THEN NoLine
                     ELSE IF s[k] = NewLine THEN Append(t, <<>>)
                     ELSE [t EXCEPT ![Len(t)] = Append(@, s[k])]]
           loop == CHOOSE f : P(f)
           step == [p \in (1 .. n) \X V |-> LinesWith(p[2], s[p[1]])]
<1>1. n \in Nat /\ NoLine \in V /\ \A k \in 1 .. n : s[k] \in OutputChars
  BY DEF Texts, TextLines, NoLine
<1>2. step \in [(1 .. n) \X V -> V]
  <2>1. ASSUME NEW p \in (1 .. n) \X V PROVE LinesWith(p[2], s[p[1]]) \in V
    <3>1. p[1] \in 1 .. n /\ p[2] \in V
      OBVIOUS
    <3>2. QED
      BY <1>1, <3>1, LinesKept
  <2>2. QED
    BY <2>1
<1>3. PICK g : Recursive(g, n, V, NoLine, step)
  <2> HIDE DEF n, V, step
  <2>1. QED
    BY <1>1, <1>2, Recursion
<1>4. \A k \in 1 .. n : g[k] = LinesWith(g[k - 1], s[k])
  <2> TAKE k \in 1 .. n
  <2>1. g[k - 1] \in V /\ g[k] = step[<<k, g[k - 1]>>]
    <3> HIDE DEF V, step
    <3>1. k - 1 \in 0 .. n
      BY <1>1
    <3>2. QED
      BY <1>3, <3>1 DEF Recursive
  <2>2. QED
    BY <2>1
<1>5. P(g)
  <2>1. g \in [0 .. n -> V] /\ g[0] = NoLine
    BY <1>3 DEF Recursive
  <2>2. ASSUME NEW k \in 0 .. n
        PROVE  g[k] = IF k = 0 THEN NoLine ELSE LinesWith(g[k - 1], s[k])
    <3>1. k = 0 \/ k \in 1 .. n
      BY <1>1
    <3>2. k \in 1 .. n => k # 0
      OBVIOUS
    <3>3. QED
      BY <1>4, <2>1, <3>1, <3>2
  <2>3. QED
    BY <2>1, <2>2 DEF LinesWith
<1>6. LinesOf(s) = loop[n] /\ P(loop)
  BY <1>5 DEF LinesOf, NoLine
<1> HIDE DEF loop
<1>7. \A k \in 0 .. n : loop[k] = IF k = 0 THEN NoLine ELSE LinesWith(loop[k - 1], s[k])
  BY <1>6 DEF LinesWith
<1> HIDE DEF n, P
<1>8. Repeats(loop, n, V, NoLine, step)
  <2>1. 0 \in 0 .. n /\ \A k \in 1 .. n : k \in 0 .. n /\ k # 0
    BY <1>1
  <2> HIDE DEF V
  <2>2. QED
    BY <1>7, <2>1 DEF Repeats
<1> HIDE DEF V, step
<1>9. \A k \in 0 .. n : loop[k] = g[k]
  <2>1. BothRepeat(loop, g, n, V, NoLine, step)
    BY <1>1, <1>3, <1>8 DEF BothRepeat
  <2>2. QED
    BY <2>1, RecursionIsOne
<1>10. g \in [0 .. n -> V] /\ n \in 0 .. n /\ g[0] = NoLine
  BY <1>1, <1>3 DEF Recursive
<1>11. LinesOf(s) = g[n]
  BY <1>6, <1>9, <1>10
<1>12. QED
  BY <1>4, <1>10, <1>11 DEF n, V

LEMMA JoinAppends ==
  /\ Join(<<>>) = <<>>
  /\ \A s \in Texts : Join(s) \in Texts
  /\ \A s \in Texts, c \in OutputChars : Join(Append(s, c)) = JoinWith(Join(s), c)
<1>1. Join(<<>>) = <<>>
  <2>1. <<>> \in Texts /\ Len(<<>>) = 0
    BY DEF Texts
  <2>2. QED
    BY <2>1, JoinIs
<1>2. ASSUME NEW s \in Texts PROVE Join(s) \in Texts
  <2>1. Len(s) \in 0 .. Len(s)
    BY DEF Texts
  <2>2. QED
    BY <2>1, JoinIs
<1>3. ASSUME NEW s \in Texts, NEW c \in OutputChars
      PROVE  Join(Append(s, c)) = JoinWith(Join(s), c)
  <2> DEFINE u == Append(s, c)
             n == Len(s)
             step == [p \in (1 .. n) \X Texts |-> JoinWith(p[2], s[p[1]])]
  <2>1. u \in Texts /\ n \in Nat /\ Len(u) = n + 1 /\ u[n + 1] = c
        /\ \A i \in 1 .. n : u[i] = s[i]
    BY AppendProperties DEF Texts
  <2>2. PICK f \in [0 .. n -> Texts] :
          Join(s) = f[n] /\ f[0] = <<>> /\ \A k \in 1 .. n : f[k] = JoinWith(f[k - 1], s[k])
    BY JoinIs
  <2> HIDE DEF u
  <2>3. PICK g \in [0 .. Len(u) -> Texts] :
          Join(u) = g[Len(u)] /\ g[0] = <<>>
          /\ \A k \in 1 .. Len(u) : g[k] = JoinWith(g[k - 1], u[k])
    BY <2>1, JoinIs
  <2> HIDE DEF n
  <2>4. \A k \in 1 .. n : k \in 1 .. n + 1 /\ k - 1 \in 0 .. n
    BY <2>1
  <2>5. Recursive(f, n, Texts, <<>>, step)
    BY <2>2, <2>4 DEF Recursive
  <2>6. Repeats(g, n, Texts, <<>>, step)
    BY <2>1, <2>3, <2>4 DEF Repeats
  <2> HIDE DEF step
  <2>7. \A k \in 0 .. n : g[k] = f[k]
    <3>1. PICK a : a = <<>>
      OBVIOUS
    <3>2. Recursive(f, n, Texts, a, step) /\ Repeats(g, n, Texts, a, step)
      BY <2>5, <2>6, <3>1
    <3>3. BothRepeat(g, f, n, Texts, a, step)
      BY <2>1, <3>2 DEF BothRepeat
    <3>4. QED
      BY <3>3, RecursionIsOne
  <2>8. g[n] = f[n] /\ n + 1 \in 1 .. n + 1 /\ (n + 1) - 1 = n
    BY <2>1, <2>7
  <2>9. Join(u) = JoinWith(Join(s), c)
    BY <2>1, <2>2, <2>3, <2>8
  <2>10. QED
    BY <2>9 DEF u
<1>4. QED
  BY <1>1, <1>2, <1>3

LEMMA LinesAppend ==
  /\ LinesOf(<<>>) = NoLine
  /\ \A s \in Texts : LinesOf(s) \in TextLines
  /\ \A s \in Texts, c \in OutputChars : LinesOf(Append(s, c)) = LinesWith(LinesOf(s), c)
<1>1. LinesOf(<<>>) = NoLine
  <2>1. <<>> \in Texts /\ Len(<<>>) = 0
    BY DEF Texts
  <2>2. QED
    BY <2>1, LinesAre
<1>2. ASSUME NEW s \in Texts PROVE LinesOf(s) \in TextLines
  <2>1. Len(s) \in 0 .. Len(s)
    BY DEF Texts
  <2>2. QED
    BY <2>1, LinesAre
<1>3. ASSUME NEW s \in Texts, NEW c \in OutputChars
      PROVE  LinesOf(Append(s, c)) = LinesWith(LinesOf(s), c)
  <2> DEFINE u == Append(s, c)
             n == Len(s)
             step == [p \in (1 .. n) \X TextLines |-> LinesWith(p[2], s[p[1]])]
  <2>1. u \in Texts /\ n \in Nat /\ Len(u) = n + 1 /\ u[n + 1] = c
        /\ \A i \in 1 .. n : u[i] = s[i]
    BY AppendProperties DEF Texts
  <2>2. PICK f \in [0 .. n -> TextLines] :
          LinesOf(s) = f[n] /\ f[0] = NoLine /\ \A k \in 1 .. n : f[k] = LinesWith(f[k - 1], s[k])
    BY LinesAre
  <2> HIDE DEF u
  <2>3. PICK g \in [0 .. Len(u) -> TextLines] :
          LinesOf(u) = g[Len(u)] /\ g[0] = NoLine
          /\ \A k \in 1 .. Len(u) : g[k] = LinesWith(g[k - 1], u[k])
    BY <2>1, LinesAre
  <2> HIDE DEF n
  <2>4. \A k \in 1 .. n : k \in 1 .. n + 1 /\ k - 1 \in 0 .. n
    BY <2>1
  <2>5. Recursive(f, n, TextLines, NoLine, step)
    BY <2>2, <2>4 DEF Recursive
  <2>6. Repeats(g, n, TextLines, NoLine, step)
    BY <2>1, <2>3, <2>4 DEF Repeats
  <2> HIDE DEF step
  <2>7. \A k \in 0 .. n : g[k] = f[k]
    <3>1. BothRepeat(g, f, n, TextLines, NoLine, step)
      BY <2>1, <2>5, <2>6 DEF BothRepeat
    <3>2. QED
      BY <3>1, RecursionIsOne
  <2>8. g[n] = f[n] /\ n + 1 \in 1 .. n + 1 /\ (n + 1) - 1 = n
    BY <2>1, <2>7
  <2>9. LinesOf(u) = LinesWith(LinesOf(s), c)
    BY <2>1, <2>2, <2>3, <2>8
  <2>10. QED
    BY <2>9 DEF u
<1>4. QED
  BY <1>1, <1>2, <1>3

-----------------------------------------------------------------------------
(***************************************************************************)
(* sh_run_script: the lines that were run and the line that is being read  *)
(* are those of what was read, joined; as long as they are short.          *)
(***************************************************************************)
ReadUpTo(k) == Join(SubSeq(input, 1, k))

ScriptInvariant ==
  /\ mode \in {"start", "edit"} => ran = <<>> /\ line = <<>>
  /\ mode = "script" =>
       /\ input \in Texts /\ ran \in Seq(Texts)
       /\ \E k \in 0 .. Len(input) :
            /\ script = SubSeq(input, k + 1, Len(input))
            /\ (\A i \in 1 .. k : Short(ReadUpTo(i))) => LinesOf(ReadUpTo(k)) = Append(ran, line)
  /\ mode = "end" => ScriptRunsLines

LEMMA LastLine ==
  ASSUME NEW S, NEW s \in Seq(S), s # <<>>
  PROVE  /\ SubSeq(s, 1, Len(s) - 1) \in Seq(S) /\ s[Len(s)] \in S
         /\ s = Append(SubSeq(s, 1, Len(s) - 1), s[Len(s)])
<1> DEFINE t == SubSeq(s, 1, Len(s) - 1)
<1>1. Len(s) \in Nat \ {0} /\ \A i \in 1 .. Len(s) : s[i] \in S
  OBVIOUS
<1>2. t \in Seq(S) /\ s[Len(s)] \in S
  BY <1>1, Shortened
<1>3. Len(t) = Len(s) - 1 /\ \A i \in 1 .. Len(s) - 1 : t[i] = s[i]
  <2>1. PICK n \in Nat : n = Len(s) - 1 /\ \A i \in 1 .. n : s[i] \in S
    BY <1>1
  <2>2. 1 \in Int /\ n \in Int /\ Len(SubSeq(s, 1, n)) = n
        /\ \A i \in 1 .. n : SubSeq(s, 1, n)[i] = s[1 + i - 1]
    BY <2>1, SubSeqProperties
  <2>3. \A i \in 1 .. n : 1 + i - 1 = i
    OBVIOUS
  <2>4. QED
    BY <2>1, <2>2, <2>3
<1> HIDE DEF t
<1>4. Append(t, s[Len(s)]) \in Seq(S) /\ Len(Append(t, s[Len(s)])) = Len(s)
      /\ \A i \in 1 .. Len(s) : Append(t, s[Len(s)])[i] = s[i]
  BY <1>1, <1>2, <1>3, AppendProperties
<1>5. s = Append(t, s[Len(s)])
  BY <1>4, SeqEqual
<1>6. QED
  BY <1>2, <1>5 DEF t

\* Two sequences with a last element.
LEMMA SameAppended ==
  ASSUME NEW S, NEW s \in Seq(S), NEW t \in Seq(S), NEW x \in S, NEW y \in S,
         Append(s, x) = Append(t, y)
  PROVE  s = t /\ x = y
<1>1. Len(Append(s, x)) = Len(s) + 1 /\ Len(Append(t, y)) = Len(t) + 1
      /\ Append(s, x)[Len(s) + 1] = x /\ Append(t, y)[Len(t) + 1] = y
      /\ (\A i \in 1 .. Len(s) : Append(s, x)[i] = s[i])
      /\ (\A i \in 1 .. Len(t) : Append(t, y)[i] = t[i])
  BY AppendProperties
<1>2. Len(s) = Len(t) /\ Len(s) \in Nat
  BY <1>1
<1>3. x = y /\ \A i \in 1 .. Len(s) : s[i] = t[i]
  BY <1>1, <1>2
<1>4. QED
  BY <1>2, <1>3, SeqEqual

\* What a character makes of the last line.
LEMMA LastLineWith ==
  ASSUME NEW lines \in Seq(Texts), NEW last \in Texts, NEW c \in OutputChars,
         c # NewLine
  PROVE  LinesWith(Append(lines, last), c) = Append(lines, Append(last, c))
<1> DEFINE t == Append(lines, last)
           n == Len(lines) + 1
           x == Append(last, c)
           u == [t EXCEPT ![n] = x]
           v == Append(lines, x)
<1>1. x \in Texts
  BY AppendProperties DEF Texts
<1>2. t \in Seq(Texts) /\ Len(t) = n /\ t[n] = last /\ n \in 1 .. Len(t)
      /\ \A i \in 1 .. Len(lines) : t[i] = lines[i]
  BY AppendProperties
<1>3. v \in Seq(Texts) /\ Len(v) = n /\ v[n] = x
      /\ \A i \in 1 .. Len(lines) : v[i] = lines[i]
  BY <1>1, AppendProperties
<1>4. LinesWith(t, c) = u
  <2> HIDE DEF t, n
  <2>1. QED
    BY <1>2 DEF LinesWith
<1>5. u \in Seq(Texts) /\ Len(u) = n /\ u[n] = x
      /\ \A i \in 1 .. Len(lines) : u[i] = lines[i]
  <2>1. \A i \in 1 .. Len(lines) : i # n /\ i \in 1 .. n
    BY DEF n
  <2> HIDE DEF t, n, x
  <2>2. u \in Seq(Texts) /\ Len(u) = Len(t)
        /\ \A i \in 1 .. Len(t) : u[i] = IF i = n THEN x ELSE t[i]
    BY <1>1, <1>2, ExceptSeq
  <2>3. QED
    BY <1>2, <2>1, <2>2
<1>6. \A i \in 1 .. n : i = n \/ i \in 1 .. Len(lines)
  OBVIOUS
<1> HIDE DEF u, v, n, x
<1>7. u = v
  BY <1>3, <1>5, <1>6, SeqEqual
<1>8. QED
  BY <1>4, <1>7 DEF t, v, x

\* A text ends with the characters of its last line, or with the end of a line.
LEMMA TextEnds ==
  ASSUME NEW r \in Texts, NEW lines \in Seq(Texts), NEW last \in Texts,
         LinesOf(r) = Append(lines, last)
  PROVE  /\ r # <<>> /\ r[Len(r)] # NewLine =>
              /\ last # <<>> /\ last[Len(last)] = r[Len(r)]
              /\ LinesOf(SubSeq(r, 1, Len(r) - 1))
                 = Append(lines, SubSeq(last, 1, Len(last) - 1))
         /\ last # <<>> => r # <<>> /\ r[Len(r)] # NewLine
<1>1. ASSUME r # <<>>
      PROVE  /\ SubSeq(r, 1, Len(r) - 1) \in Texts /\ r[Len(r)] \in OutputChars
             /\ r = Append(SubSeq(r, 1, Len(r) - 1), r[Len(r)])
  BY <1>1, LastLine DEF Texts
<1>2. ASSUME r # <<>>, r[Len(r)] # NewLine
      PROVE  /\ last # <<>> /\ last[Len(last)] = r[Len(r)]
             /\ LinesOf(SubSeq(r, 1, Len(r) - 1)) = Append(lines, SubSeq(last, 1, Len(last) - 1))
  <2> DEFINE s == SubSeq(r, 1, Len(r) - 1)
             c == r[Len(r)]
             t == LinesOf(s)
  <2>1. s \in Texts /\ c \in OutputChars /\ r = Append(s, c)
    BY <1>1, <1>2
  <2> HIDE DEF s, c
  <2>2. t \in TextLines /\ LinesOf(r) = LinesWith(t, c)
    BY <2>1, LinesAppend
  <2> HIDE DEF t
  <2>3. t \in Seq(Texts) /\ t # <<>>
    BY <2>2 DEF TextLines
  <2>4. PICK u \in Seq(Texts), w \in Texts : t = Append(u, w)
    <3>1. SubSeq(t, 1, Len(t) - 1) \in Seq(Texts) /\ t[Len(t)] \in Texts
          /\ t = Append(SubSeq(t, 1, Len(t) - 1), t[Len(t)])
      BY <2>3, LastLine
    <3>2. QED
      BY <3>1
  <2>5. LinesOf(r) = Append(u, Append(w, c)) /\ Append(w, c) \in Texts
    <3>1. c # NewLine
      BY <1>2 DEF c
    <3>2. Append(w, c) \in Texts
      BY <2>1, <2>4, AppendProperties DEF Texts
    <3>3. QED
      BY <2>1, <2>2, <2>4, <3>1, <3>2, LastLineWith
  <2>6. u = lines /\ last = Append(w, c)
    <3> DEFINE z == Append(w, c)
    <3>1. z \in Texts /\ Append(u, z) = Append(lines, last)
      BY <2>5
    <3> HIDE DEF z
    <3>2. u = lines /\ last = z
      BY <2>4, <3>1, SameAppended
    <3>3. QED
      BY <3>2 DEF z
  <2>7. last # <<>> /\ last[Len(last)] = c /\ SubSeq(last, 1, Len(last) - 1) = w
    <3>1. last # <<>> /\ last[Len(last)] = c
      BY <2>1, <2>4, <2>6, AppendProperties DEF Texts
    <3>2. SubSeq(last, 1, Len(last) - 1) \in Seq(OutputChars)
          /\ last[Len(last)] \in OutputChars
          /\ last = Append(SubSeq(last, 1, Len(last) - 1), last[Len(last)])
      BY <3>1, LastLine DEF Texts
    <3>3. w \in Seq(OutputChars) /\ c \in OutputChars
      BY <2>1, <2>4 DEF Texts
    <3>4. QED
      BY <2>6, <3>1, <3>2, <3>3, SameAppended
  <2>8. QED
    BY <2>4, <2>6, <2>7 DEF s, c, t
<1>3. ASSUME last # <<>>
      PROVE  r # <<>> /\ r[Len(r)] # NewLine
  <2>1. ASSUME NEW t \in Seq(Texts), Append(lines, last) = Append(t, <<>>)
        PROVE  FALSE
    <3>1. <<>> \in Texts
      BY DEF Texts
    <3>2. QED
      BY <1>3, <2>1, <3>1, SameAppended
  <2>2. r # <<>>
    <3>1. <<>> \in Seq(Texts) /\ Append(<<>>, <<>>) = NoLine
      BY DEF NoLine
    <3>2. QED
      BY <2>1, <3>1, LinesAppend
  <2>3. ASSUME r[Len(r)] = NewLine
        PROVE  FALSE
    <3>1. PICK s \in Texts : r = Append(s, NewLine)
      BY <1>1, <2>2, <2>3
    <3>2. NewLine \in OutputChars
      BY DEF OutputChars
    <3>3. LinesOf(r) = Append(LinesOf(s), <<>>) /\ LinesOf(s) \in Seq(Texts)
      BY <3>1, <3>2, LinesAppend DEF LinesWith, TextLines
    <3>4. QED
      BY <2>1, <3>3
  <2>4. QED
    BY <2>2, <2>3
<1>4. QED
  BY <1>2, <1>3

\* What was read, and what is left to read, of s.
LEMMA ReadUpToEnds ==
  ASSUME NEW s \in Texts
  PROVE  SubSeq(s, 1, 0) = <<>> /\ SubSeq(s, 1, Len(s)) = s
         /\ \A k \in 0 .. Len(s) : SubSeq(s, 1, k) \in Texts
<1>1. s \in Seq(OutputChars) /\ Len(s) \in Nat
  BY DEF Texts
<1>2. SubSeq(s, 1, 0) = <<>>
  BY SubSeqEmpty
<1>3. SubSeq(s, 1, Len(s)) = s
  BY <1>1
<1>4. ASSUME NEW k \in 0 .. Len(s) PROVE SubSeq(s, 1, k) \in Seq(OutputChars)
  <2>1. \A i \in 1 .. k : s[i] \in OutputChars
    BY <1>1
  <2>2. 1 \in Int /\ k \in Int
    OBVIOUS
  <2>3. QED
    BY <2>1, <2>2, SubSeqProperties
<1>5. QED
  BY <1>2, <1>3, <1>4 DEF Texts

LEMMA ReadOneMore ==
  ASSUME NEW s \in Texts, NEW k \in 0 .. Len(s) - 1
  PROVE  SubSeq(s, 1, k + 1) = Append(SubSeq(s, 1, k), s[k + 1]) /\ s[k + 1] \in OutputChars
<1> DEFINE u == SubSeq(s, 1, k + 1)
           v == SubSeq(s, 1, k)
<1>1. s \in Seq(OutputChars) /\ Len(s) \in Nat /\ k \in Nat /\ k + 1 \in 1 .. Len(s)
      /\ s[k + 1] \in OutputChars
  BY DEF Texts
<1>2. (\A i \in 1 .. k : s[i] \in OutputChars) /\ (\A i \in 1 .. k + 1 : s[i] \in OutputChars)
  BY <1>1
<1>3. u \in Seq(OutputChars) /\ Len(u) = k + 1 /\ \A i \in 1 .. k + 1 : u[i] = s[i]
  <2>1. PICK n \in Nat : n = k + 1
    BY <1>1
  <2>2. 1 \in Int /\ n \in Int /\ \A i \in 1 .. n : s[i] \in OutputChars /\ 1 + i - 1 = i
    BY <1>2, <2>1
  <2>3. SubSeq(s, 1, n) \in Seq(OutputChars) /\ Len(SubSeq(s, 1, n)) = n
        /\ \A i \in 1 .. n : SubSeq(s, 1, n)[i] = s[1 + i - 1]
    BY <2>2, SubSeqProperties
  <2>4. QED
    BY <2>1, <2>2, <2>3
<1>4. v \in Seq(OutputChars) /\ Len(v) = k /\ \A i \in 1 .. k : v[i] = s[i]
  <2>1. 1 \in Int /\ k \in Int /\ \A i \in 1 .. k : s[i] \in OutputChars /\ 1 + i - 1 = i
    BY <1>2
  <2>2. SubSeq(s, 1, k) \in Seq(OutputChars) /\ Len(SubSeq(s, 1, k)) = k
        /\ \A i \in 1 .. k : SubSeq(s, 1, k)[i] = s[1 + i - 1]
    BY <2>1, SubSeqProperties
  <2>3. QED
    BY <2>1, <2>2
<1> HIDE DEF u, v
<1>5. Append(v, s[k + 1]) \in Seq(OutputChars) /\ Len(Append(v, s[k + 1])) = k + 1
      /\ \A i \in 1 .. k + 1 : Append(v, s[k + 1])[i] = s[i]
  BY <1>1, <1>4, AppendProperties
<1>6. u = Append(v, s[k + 1])
  BY <1>3, <1>5, SeqEqual
<1>7. QED
  BY <1>1, <1>6 DEF u, v

LEMMA LeftToRead ==
  ASSUME NEW s \in Texts, NEW k \in 0 .. Len(s)
  PROVE  LET left == SubSeq(s, k + 1, Len(s)) IN
         /\ left = <<>> <=> k = Len(s)
         /\ k # Len(s) => Head(left) = s[k + 1] /\ Tail(left) = SubSeq(s, k + 2, Len(s))
<1> DEFINE n == Len(s)
           Left(i) == SubSeq(s, i + 1, n)
<1>1. n \in Nat /\ k \in 0 .. n /\ \A i \in 1 .. n : s[i] \in OutputChars
  BY DEF Texts
<1>2. ASSUME NEW i \in 0 .. n
      PROVE  /\ Left(i) \in Seq(OutputChars) /\ Len(Left(i)) = n - i
             /\ \A j \in 1 .. n - i : Left(i)[j] = s[i + j]
  <2>1. PICK m \in Nat : m = i + 1
    BY <1>1
  <2>2. m \in Int /\ n \in Int /\ \A j \in m .. n : s[j] \in OutputChars
    BY <1>1, <2>1
  <2> HIDE DEF n
  <2>3. SubSeq(s, m, n) \in Seq(OutputChars)
        /\ Len(SubSeq(s, m, n)) = (IF m <= n THEN n - m + 1 ELSE 0)
        /\ \A j \in 1 .. n - m + 1 : SubSeq(s, m, n)[j] = s[m + j - 1]
    BY <2>2, SubSeqProperties
  <2>4. n - m + 1 = n - i /\ (IF m <= n THEN n - m + 1 ELSE 0) = n - i
        /\ \A j \in 1 .. n - i : m + j - 1 = i + j
    BY <1>1, <2>1
  <2>5. QED
    BY <2>1, <2>3, <2>4
<1> HIDE DEF n, Left
<1>3. Left(k) = <<>> <=> k = n
  <2>1. Left(k) \in Seq(OutputChars) /\ Len(Left(k)) = n - k
    BY <1>1, <1>2
  <2>2. n - k = 0 <=> k = n
    BY <1>1
  <2>3. QED
    BY <2>1, <2>2
<1>4. ASSUME k # n
      PROVE  Head(Left(k)) = s[k + 1] /\ Tail(Left(k)) = Left(k + 1)
  <2>1. k + 1 \in 0 .. n /\ 1 \in 1 .. n - k /\ n - k - 1 = n - (k + 1)
        /\ \A j \in 1 .. n - (k + 1) : j + 1 \in 1 .. n - k /\ k + (j + 1) = k + 1 + j
    BY <1>1, <1>4
  <2>2. /\ Left(k) \in Seq(OutputChars) /\ Left(k) # <<>> /\ Len(Left(k)) = n - k
        /\ Left(k)[1] = s[k + 1]
        /\ \A j \in 1 .. n - (k + 1) : Left(k)[j + 1] = s[k + 1 + j]
    <3>1. /\ Left(k) \in Seq(OutputChars) /\ Len(Left(k)) = n - k
          /\ \A j \in 1 .. n - k : Left(k)[j] = s[k + j]
      BY <1>1, <1>2
    <3>2. \A j \in 1 .. n - (k + 1) : Left(k)[j + 1] = s[k + (j + 1)]
      BY <2>1, <3>1
    <3>3. QED
      BY <1>3, <1>4, <2>1, <3>1, <3>2
  <2>3. Head(Left(k)) = s[k + 1]
    BY <2>2, HeadTailProperties
  <2>4. Tail(Left(k)) \in Seq(OutputChars) /\ Len(Tail(Left(k))) = n - (k + 1)
        /\ \A j \in 1 .. n - (k + 1) : Tail(Left(k))[j] = s[k + 1 + j]
    BY <2>1, <2>2, HeadTailProperties
  <2>5. Left(k + 1) \in Seq(OutputChars) /\ Len(Left(k + 1)) = n - (k + 1)
        /\ \A j \in 1 .. n - (k + 1) : Left(k + 1)[j] = s[k + 1 + j]
    BY <1>2, <2>1
  <2>6. Tail(Left(k)) = Left(k + 1)
    BY <2>4, <2>5, SeqEqual
  <2>7. QED
    BY <2>3, <2>6
<1>5. (k + 1) + 1 = k + 2
  BY <1>1
<1>6. QED
  BY <1>3, <1>4, <1>5 DEF Left, n

-----------------------------------------------------------------------------
\* What was read is as in the script.
Read(k) ==
  /\ mode = "script" /\ input \in Texts /\ ran \in Seq(Texts)
  /\ k \in 0 .. Len(input)
  /\ script = SubSeq(input, k + 1, Len(input))
  /\ (\A i \in 1 .. k : Short(ReadUpTo(i))) => LinesOf(ReadUpTo(k)) = Append(ran, line)

\* A character is read.
LEMMA OneIsRead ==
  ASSUME ShellTypeOK, NEW k, Read(k), script # <<>>
  PROVE  /\ k + 1 \in 0 .. Len(input) /\ Tail(script) = SubSeq(input, (k + 1) + 1, Len(input))
         /\ Head(script) \in OutputChars
         /\ ReadUpTo(k) \in Texts /\ ReadUpTo(k + 1) \in Texts
         /\ ReadUpTo(k + 1) = JoinWith(ReadUpTo(k), Head(script))
         /\ (\A i \in 1 .. k + 1 : Short(ReadUpTo(i))) =>
              Short(ReadUpTo(k + 1)) /\ LinesOf(ReadUpTo(k)) = Append(ran, line)
<1>1. input \in Texts /\ k \in 0 .. Len(input) /\ Len(input) \in Nat
  BY DEF Read, Texts
<1>2. k # Len(input) /\ Head(script) = input[k + 1] /\ Tail(script) = SubSeq(input, k + 2, Len(input))
  BY <1>1, LeftToRead DEF Read
<1>3. k \in 0 .. Len(input) - 1 /\ k + 1 \in 0 .. Len(input) /\ (k + 1) + 1 = k + 2
  BY <1>1, <1>2
<1> DEFINE u == SubSeq(input, 1, k)
           v == SubSeq(input, 1, k + 1)
<1>4. u \in Texts /\ v \in Texts
  BY <1>1, <1>3, ReadUpToEnds
<1>5. v = Append(u, input[k + 1]) /\ input[k + 1] \in OutputChars
  BY <1>1, <1>3, ReadOneMore
<1>6. Join(u) = ReadUpTo(k) /\ Join(v) = ReadUpTo(k + 1)
  BY DEF ReadUpTo
<1> HIDE DEF u, v
<1>7. Join(u) \in Texts /\ Join(v) \in Texts /\ Join(v) = JoinWith(Join(u), input[k + 1])
  BY <1>4, <1>5, JoinAppends
<1>8. ASSUME \A i \in 1 .. k + 1 : Short(ReadUpTo(i))
      PROVE  Short(ReadUpTo(k + 1)) /\ LinesOf(ReadUpTo(k)) = Append(ran, line)
  <2>1. k + 1 \in 1 .. k + 1 /\ \A i \in 1 .. k : i \in 1 .. k + 1
    BY <1>3
  <2>2. QED
    BY <1>8, <2>1 DEF Read
<1>9. QED
  BY <1>2, <1>3, <1>5, <1>6, <1>7, <1>8

LEMMA LineIsText ==
  ASSUME ShellTypeOK
  PROVE  line \in Texts
<1>1. ScriptChars \subseteq OutputChars
  BY DEF ScriptChars, OutputChars
<1>2. QED
  BY <1>1, SeqMonotonic DEF ShellTypeOK, Texts

LEMMA NewLineRead ==
  ASSUME ShellTypeOK, NEW k, Read(k), ReadNewLine
  PROVE  Read(k + 1)'
<1>1. script # <<>> /\ Head(script) = NewLine
  BY DEF ReadNewLine
<1>2. /\ k + 1 \in 0 .. Len(input) /\ Tail(script) = SubSeq(input, (k + 1) + 1, Len(input))
      /\ ReadUpTo(k) \in Texts /\ NewLine \in OutputChars
      /\ ReadUpTo(k + 1) = JoinWith(ReadUpTo(k), NewLine)
      /\ (\A i \in 1 .. k + 1 : Short(ReadUpTo(i))) => LinesOf(ReadUpTo(k)) = Append(ran, line)
  BY <1>1, OneIsRead
<1>3. line \in Texts /\ ran \in Seq(Texts)
  BY LineIsText DEF Read
<1> DEFINE goes == Len(line) > 0 /\ line[Len(line)] = Backslash
           r == ReadUpTo(k)
<1>4. /\ mode' = mode /\ input' = input /\ script' = Tail(script)
      /\ goes => line' = SubSeq(line, 1, Len(line) - 1) /\ ran' = ran
      /\ ~ goes => line' = <<>> /\ ran' = Append(ran, line)
  BY DEF ReadNewLine, Reading, RunLine
<1>5. ASSUME LinesOf(r) = Append(ran, line)
      PROVE  LinesOf(ReadUpTo(k + 1)) = Append(ran', line')
  <2>1. /\ r # <<>> /\ r[Len(r)] # NewLine =>
              /\ line # <<>> /\ line[Len(line)] = r[Len(r)]
              /\ LinesOf(SubSeq(r, 1, Len(r) - 1)) = Append(ran, SubSeq(line, 1, Len(line) - 1))
        /\ line # <<>> => r # <<>> /\ r[Len(r)] # NewLine
    <3> HIDE DEF r
    <3>1. r \in Texts
      BY <1>2 DEF r
    <3>2. QED
      BY <1>3, <1>5, <3>1, TextEnds, Zenon
  <2>2. Backslash # NewLine /\ (Len(line) > 0 <=> line # <<>>)
    BY <1>3, ShellAssumption DEF ShellAssumption, Texts
  <2>3. goes <=> r # <<>> /\ r[Len(r)] = Backslash
    BY <2>1, <2>2
  <2>4. CASE goes
    BY <1>2, <1>4, <2>1, <2>2, <2>3, <2>4 DEF JoinWith
  <2>5. CASE ~ goes
    <3>1. ReadUpTo(k + 1) = Append(r, NewLine)
      BY <1>2, <2>3, <2>5 DEF JoinWith
    <3>2. LinesOf(Append(r, NewLine)) = LinesWith(LinesOf(r), NewLine)
      BY <1>2, LinesAppend
    <3>3. LinesOf(ReadUpTo(k + 1)) = Append(LinesOf(r), <<>>)
      BY <3>1, <3>2 DEF LinesWith
    <3>4. QED
      BY <1>4, <1>5, <2>5, <3>3
  <2>6. QED
    BY <2>4, <2>5
<1>6. ran' \in Seq(Texts)
  BY <1>3, <1>4, AppendProperties
<1>7. \A i : ReadUpTo(i)' = ReadUpTo(i) /\ Short(ReadUpTo(i))' = Short(ReadUpTo(i))
  BY <1>4 DEF ReadUpTo, Short
<1>8. (\A i \in 1 .. k + 1 : Short(ReadUpTo(i))) => LinesOf(ReadUpTo(k + 1)) = Append(ran', line')
  BY <1>2, <1>5
<1>9. QED
  BY <1>2, <1>4, <1>6, <1>7, <1>8 DEF Read

LEMMA CharRead ==
  ASSUME ShellTypeOK, NEW k, Read(k), ReadChar
  PROVE  Read(k + 1)'
<1> DEFINE c == Head(script)
           r == ReadUpTo(k)
<1>1. script # <<>> /\ c # NewLine
  BY DEF ReadChar
<1>2. /\ k + 1 \in 0 .. Len(input) /\ Tail(script) = SubSeq(input, (k + 1) + 1, Len(input))
      /\ r \in Texts /\ c \in OutputChars
      /\ ReadUpTo(k + 1) = JoinWith(r, c)
      /\ (\A i \in 1 .. k + 1 : Short(ReadUpTo(i))) =>
           Short(ReadUpTo(k + 1)) /\ LinesOf(r) = Append(ran, line)
  BY <1>1, OneIsRead
<1>3. line \in Texts /\ ran \in Seq(Texts)
  BY LineIsText DEF Read
<1>4. /\ mode' = mode /\ input' = input /\ script' = Tail(script) /\ ran' = ran
      /\ line' = IF Len(line) < MaxCommandLength THEN Append(line, c) ELSE line
  BY DEF ReadChar, Reading
<1> HIDE DEF c, r
<1>5. ASSUME Short(ReadUpTo(k + 1)), LinesOf(r) = Append(ran, line)
      PROVE  LinesOf(ReadUpTo(k + 1)) = Append(ran', line')
  <2>1. ReadUpTo(k + 1) = Append(r, c)
    BY <1>1, <1>2 DEF JoinWith
  <2>2. LinesOf(ReadUpTo(k + 1)) = LinesWith(Append(ran, line), c)
    BY <1>2, <1>5, <2>1, LinesAppend
  <2>3. LinesOf(ReadUpTo(k + 1)) = Append(ran, Append(line, c))
    BY <1>1, <1>2, <1>3, <2>2, LastLineWith
  <2>4. Len(line) < MaxCommandLength
    <3> DEFINE x == Append(line, c)
               t == Append(ran, x)
               n == Len(ran) + 1
    <3>1. x \in Texts /\ Len(x) = Len(line) + 1 /\ Len(line) \in Nat
      BY <1>2, <1>3, AppendProperties DEF Texts
    <3> HIDE DEF x
    <3>2. n \in DOMAIN t /\ t[n] = x
      BY <1>3, <3>1, AppendProperties
    <3>3. Len(x) <= MaxCommandLength
      BY <1>5, <2>3, <3>2 DEF Short, x
    <3>4. QED
      BY <3>1, <3>3, ShellAssumption DEF ShellAssumption
  <2>5. QED
    BY <1>4, <2>3, <2>4
<1>6. \A i : ReadUpTo(i)' = ReadUpTo(i) /\ Short(ReadUpTo(i))' = Short(ReadUpTo(i))
  BY <1>4 DEF ReadUpTo, Short
<1>7. (\A i \in 1 .. k + 1 : Short(ReadUpTo(i))) => LinesOf(ReadUpTo(k + 1)) = Append(ran', line')
  BY <1>2, <1>5
<1>8. QED
  BY <1>2, <1>3, <1>4, <1>6, <1>7 DEF Read

LEMMA ScriptStart ==
  ASSUME Init
  PROVE  ScriptInvariant
  BY DEF Init, ScriptInvariant

LEMMA ScriptKept ==
  ASSUME ShellTypeOK, ScriptInvariant, [Next]_vars
  PROVE  ScriptInvariant'
<1>1. ASSUME NEW k, Read(k)'
      PROVE  ScriptInvariant'
  BY <1>1 DEF Read, ScriptInvariant
<1>2. ASSUME mode = "script"
      PROVE  \E k : Read(k)
  BY <1>2 DEF ScriptInvariant, Read
<1>3. ASSUME mode' = mode, scripting' = scripting, mode = "edit"
      PROVE  ScriptInvariant'
  BY <1>3 DEF scripting, ScriptInvariant
<1>4. CASE StartEditor
  BY <1>4 DEF StartEditor, Show, scripting, ScriptInvariant
<1>5. CASE EnterKey
  BY <1>3, <1>5 DEF EnterKey, Key, Show
<1>6. ASSUME NEW s, NEW h, Key, Edit(s, h)
      PROVE  ScriptInvariant'
  BY <1>3, <1>6 DEF Key, Edit, Show
<1>7. CASE Escape
  BY <1>7 DEF Escape, scripting, ScriptInvariant, ScriptRunsLines
<1>8. CASE StartScript
  <2>1. /\ mode = "start" /\ mode' = "script" /\ input' \in Scripts /\ script' = input'
        /\ line' = line /\ ran' = ran
    BY <1>8 DEF StartScript
  <2>2. ran' = <<>> /\ line' = <<>> /\ input' \in Texts
    <3>1. Chars \cup {NewLine, Backslash} \subseteq OutputChars
      BY DEF OutputChars
    <3>2. Seq(Chars \cup {NewLine, Backslash}) \subseteq Texts
      BY <3>1, SeqMonotonic DEF Texts
    <3>3. QED
      BY <2>1, <3>2, ShellAssumption DEF ShellAssumption, ScriptInvariant
  <2>3. ReadUpTo(0)' = <<>> /\ SubSeq(input', 1, Len(input')) = input' /\ Len(input') \in Nat
    <3>1. SubSeq(input', 1, 0) = <<>> /\ SubSeq(input', 1, Len(input')) = input'
      BY <2>2, ReadUpToEnds
    <3>2. Len(input') \in Nat
      BY <2>2 DEF Texts
    <3>3. QED
      BY <3>1, <3>2, JoinAppends DEF ReadUpTo
  <2>4. LinesOf(<<>>) = Append(<<>>, <<>>) /\ <<>> \in Seq(Texts)
    BY LinesAppend DEF NoLine
  <2>5. Read(0)'
    BY <2>1, <2>2, <2>3, <2>4 DEF Read
  <2>6. QED
    BY <1>1, <2>5
<1>9. CASE ReadEnd
  <2>1. mode = "script" /\ mode' = "end" /\ script = <<>> /\ input' = input /\ ran' = Append(ran, line)
    BY <1>9 DEF ReadEnd, Reading, RunLine
  <2>2. PICK k : Read(k)
    BY <1>2, <2>1
  <2>3. input \in Texts /\ k \in 0 .. Len(input) /\ k = Len(input)
    BY <2>1, <2>2, LeftToRead DEF Read
  <2>4. DOMAIN input = 1 .. k /\ ReadUpTo(k) = Join(input)
    <3>1. DOMAIN input = 1 .. Len(input)
      BY <2>3 DEF Texts
    <3>2. SubSeq(input, 1, k) = input
      BY <2>3, ReadUpToEnds
    <3>3. QED
      BY <2>3, <3>1, <3>2 DEF ReadUpTo
  <2>5. (\A i \in DOMAIN input : Short(Join(SubSeq(input, 1, i)))) => LinesOf(Join(input)) = Append(ran, line)
    BY <2>2, <2>4 DEF Read, ReadUpTo
  <2>6. ScriptRunsLines'
    BY <2>1, <2>5 DEF ScriptRunsLines, Short
  <2>7. QED
    BY <2>1, <2>6 DEF ScriptInvariant
<1>10. CASE ReadNewLine
  <2>1. PICK k : Read(k)
    BY <1>2, <1>10 DEF ReadNewLine, Reading
  <2>2. QED
    BY <1>1, <1>10, <2>1, NewLineRead
<1>11. CASE ReadChar
  <2>1. PICK k : Read(k)
    BY <1>2, <1>11 DEF ReadChar, Reading
  <2>2. QED
    BY <1>1, <1>11, <2>1, CharRead
<1>12. CASE UNCHANGED vars
  BY <1>12 DEF vars, ScriptInvariant, ScriptRunsLines, ReadUpTo, Short
<1>13. QED
  BY <1>4, <1>5, <1>6, <1>7, <1>8, <1>9, <1>10, <1>11, <1>12
     DEF Next, ArrowUp, ArrowDown, Backspace, Insert

-----------------------------------------------------------------------------
(***************************************************************************)
(* The screen: a pen writes rows of cells, from the first one on.          *)
(***************************************************************************)
Colors == {BLACK, GREEN, YELLOW} \X {BLACK, GREEN, YELLOW}
ScreenCells == [char : OutputChars \cup {">", Space}, color : Colors]
Gpus == [col : 0 .. NumCols - 1, row : 0 .. NumRows - 1, color : Colors,
         draw : [Positions -> ScreenCells], shown : [Positions -> ScreenCells]]
Pens == [gpu : Gpus, col : Nat, row : Nat]

LEMMA ScreenSizes == NumCols \in Nat /\ NumCols > 1 /\ NumRows \in Nat /\ NumRows > 0
  BY ScreenAssumption, ShellAssumption DEF ShellAssumption

LEMMA PlaceOnScreen ==
  ASSUME NEW c \in 0 .. NumCols - 1, NEW r \in 0 .. NumRows - 1
  PROVE  /\ At(c, r) \in Positions
         /\ At(c, r) % NumCols = c /\ At(c, r) \div NumCols = r
<1> DEFINE N == NumCols
           M == NumRows
<1>1. N \in Nat \ {0} /\ M \in Nat \ {0} /\ c \in 0 .. N - 1 /\ r \in 0 .. M - 1 /\ r \in Nat
  BY ScreenSizes
<1> HIDE DEF N, M
<1>2. (c + r * N) % N = c /\ (c + r * N) \div N = r
  BY <1>1, DivModUnique
<1>3. r * N <= (M - 1) * N
  <2>1. M - 1 \in Nat /\ r <= M - 1 /\ N \in Nat
    BY <1>1
  <2>2. QED
    BY <1>1, <2>1, ProductMonotonic
<1>4. (M - 1) * N = N * M - N /\ r * N \in Nat /\ N * M \in Nat
  BY <1>1
<1>5. c + r * N \in 0 .. N * M - 1
  BY <1>1, <1>3, <1>4
<1>6. QED
  BY <1>2, <1>5 DEF At, Positions, N, M

\* Where gpu_draw_char goes next.
LEMMA NextPlace ==
  ASSUME NEW c \in 0 .. NumCols - 1, NEW r \in 0 .. NumRows - 1
  PROVE  LET p == (At(c, r) + 1) % (NumCols * NumRows) IN
         /\ p % NumCols \in 0 .. NumCols - 1 /\ p \div NumCols \in 0 .. NumRows - 1
         /\ c + 1 < NumCols => p % NumCols = c + 1 /\ p \div NumCols = r
         /\ c + 1 = NumCols /\ r + 1 < NumRows => p % NumCols = 0 /\ p \div NumCols = r + 1
<1> DEFINE N == NumCols
           M == NumRows
           a == At(c, r) + 1
           p == a % (N * M)
<1>1. N \in Nat \ {0} /\ M \in Nat \ {0} /\ c \in 0 .. N - 1 /\ r \in 0 .. M - 1
  BY ScreenSizes
<1>2. N * M \in Nat \ {0}
  BY <1>1
<1>3. At(c, r) \in 0 .. N * M - 1
  BY PlaceOnScreen DEF Positions
<1>4. a \in Nat /\ a - 1 < N * M
  BY <1>2, <1>3
<1>5. p \in Nat /\ p < N * M /\ (a < N * M => p = a)
  <2> HIDE DEF a
  <2>1. PICK m \in Nat \ {0} : m = N * M
    BY <1>2
  <2>2. a % m \in 0 .. m - 1
    BY <1>4, <2>1
  <2>3. ASSUME a < m PROVE a % m = a
    <3>1. a \in 0 .. m - 1 /\ a + 0 * m = a
      BY <1>4, <2>1, <2>3
    <3>2. (a + 0 * m) % m = a
      BY <2>1, <3>1, DivModUnique
    <3>3. QED
      BY <3>1, <3>2
  <2>4. QED
    BY <2>1, <2>2, <2>3
<1>6. p % N \in 0 .. N - 1 /\ p \div N \in 0 .. M - 1
  <2> HIDE DEF p, N, M
  <2>1. p % N \in 0 .. N - 1 /\ p \div N \in Nat
    BY <1>1, <1>5, DivMod
  <2>2. p \div N < M
    BY <1>1, <1>5, DivBelow
  <2>3. QED
    BY <1>1, <2>1, <2>2
<1>7. ASSUME c + 1 < N PROVE p % N = c + 1 /\ p \div N = r
  <2>1. c + 1 \in 0 .. NumCols - 1 /\ a = At(c + 1, r)
    BY <1>1, <1>7 DEF At
  <2>2. At(c + 1, r) \in 0 .. N * M - 1 /\ At(c + 1, r) % N = c + 1 /\ At(c + 1, r) \div N = r
    BY <2>1, PlaceOnScreen DEF Positions
  <2>3. p = At(c + 1, r)
    BY <1>2, <1>5, <2>1, <2>2
  <2>4. QED
    BY <2>2, <2>3
<1>8. ASSUME c + 1 = N, r + 1 < M PROVE p % N = 0 /\ p \div N = r + 1
  <2>1. 0 \in 0 .. NumCols - 1 /\ r + 1 \in 0 .. NumRows - 1 /\ a = At(0, r + 1)
    <3>1. a = N + r * N /\ (r + 1) * N = r * N + N /\ r * N \in Nat
      BY <1>1, <1>8 DEF At
    <3>2. QED
      BY <1>1, <1>8, <3>1 DEF At
  <2>2. At(0, r + 1) \in 0 .. N * M - 1 /\ At(0, r + 1) % N = 0 /\ At(0, r + 1) \div N = r + 1
    BY <2>1, PlaceOnScreen DEF Positions
  <2>3. p = At(0, r + 1)
    BY <1>2, <1>5, <2>1, <2>2
  <2>4. QED
    BY <2>2, <2>3
<1>9. QED
  BY <1>6, <1>7, <1>8

\* What the pen wrote: full rows, and a row on which it is.
BlankCell == [char |-> Space, color |-> <<BLACK, BLACK>>]

Cell(full, row, c, r) ==
  IF r < Len(full) THEN IF c < Len(full[r + 1]) THEN full[r + 1][c + 1] ELSE BlankCell
  ELSE IF r = Len(full) /\ c < Len(row) THEN row[c + 1] ELSE BlankCell

Filled(gpu0, full, row) ==
  \A c \in 0 .. NumCols - 1, r \in 0 .. NumRows - 1 :
    gpu0.draw[At(c, r)] = Cell(full, row, c, r)

CellRows == Seq(Seq(ScreenCells))

\* Nothing is known of what is written after the last row of the screen.
Wrote(pen, full, row, color) ==
  /\ pen \in Pens /\ pen.gpu.color = color
  /\ full \in CellRows /\ row \in Seq(ScreenCells) /\ Len(row) < NumCols
  /\ pen.col = Len(row) /\ pen.row = Len(full)
  /\ Len(full) < NumRows =>
       pen.gpu.col = pen.col /\ pen.gpu.row = pen.row /\ Filled(pen.gpu, full, row)

Draw(q, c) ==
  LET g == IF c = NewLine THEN q.gpu ELSE gpu_draw_char(q.gpu, c)
      col == IF c = NewLine THEN q.col ELSE q.col + 1
  IN IF c = NewLine \/ col = NumCols
       THEN [gpu |-> gpu_set_cursor(g, 0, q.row + 1), col |-> 0, row |-> q.row + 1]
       ELSE [q EXCEPT !.gpu = g, !.col = col]

LEMMA CursorSet ==
  ASSUME NEW g \in Gpus, NEW c \in Nat, NEW r \in Nat
  PROVE  /\ gpu_set_cursor(g, c, r) \in Gpus
         /\ gpu_set_cursor(g, c, r).draw = g.draw
         /\ gpu_set_cursor(g, c, r).color = g.color
         /\ OnScreen(c, r) => gpu_set_cursor(g, c, r).col = c /\ gpu_set_cursor(g, c, r).row = r
  BY DEF gpu_set_cursor, OnScreen, Gpus

LEMMA CharDrawn ==
  ASSUME NEW g \in Gpus, NEW c \in OutputChars \cup {">", Space}
  PROVE  /\ gpu_draw_char(g, c) \in Gpus /\ gpu_draw_char(g, c).color = g.color
         /\ gpu_draw_char(g, c).draw
            = [g.draw EXCEPT ![At(g.col, g.row)] = [char |-> c, color |-> g.color]]
         /\ g.col + 1 < NumCols =>
              gpu_draw_char(g, c).col = g.col + 1 /\ gpu_draw_char(g, c).row = g.row
<1>0. g.col \in 0 .. NumCols - 1 /\ g.row \in 0 .. NumRows - 1 /\ g.color \in Colors
      /\ g.draw \in [Positions -> ScreenCells]
  BY DEF Gpus
<1> DEFINE p == (At(g.col, g.row) + 1) % (NumCols * NumRows)
           x == [char |-> c, color |-> g.color]
<1>1. /\ p % NumCols \in 0 .. NumCols - 1 /\ p \div NumCols \in 0 .. NumRows - 1
      /\ g.col + 1 < NumCols => p % NumCols = g.col + 1 /\ p \div NumCols = g.row
  BY <1>0, NextPlace
<1>2. x \in ScreenCells
  BY <1>0 DEF ScreenCells
<1>3. gpu_draw_char(g, c) = [g EXCEPT !.draw[At(g.col, g.row)] = x,
                                      !.col = p % NumCols, !.row = p \div NumCols]
  BY DEF gpu_draw_char
<1> HIDE DEF p, x
<1>4. [g.draw EXCEPT ![At(g.col, g.row)] = x] \in [Positions -> ScreenCells]
  BY <1>0, <1>2
<1>5. PICK d : d = [g.draw EXCEPT ![At(g.col, g.row)] = x]
  OBVIOUS
<1>6. PICK c1, r1 : c1 = p % NumCols /\ r1 = p \div NumCols
  OBVIOUS
<1>7. gpu_draw_char(g, c) = [g EXCEPT !.draw = d, !.col = c1, !.row = r1]
  BY <1>3, <1>5, <1>6
<1>8. gpu_draw_char(g, c) \in Gpus /\ gpu_draw_char(g, c).color = g.color
      /\ gpu_draw_char(g, c).draw = d
      /\ gpu_draw_char(g, c).col = c1 /\ gpu_draw_char(g, c).row = r1
  BY <1>1, <1>4, <1>5, <1>6, <1>7 DEF Gpus
<1>9. QED
  BY <1>1, <1>5, <1>6, <1>8 DEF x

LEMMA AppendedAre ==
  ASSUME NEW S, NEW s \in Seq(S), NEW x \in S
  PROVE  /\ Append(s, x) \in Seq(S) /\ Len(Append(s, x)) = Len(s) + 1 /\ Len(s) \in Nat
         /\ Append(s, x)[Len(s) + 1] = x /\ \A i \in 1 .. Len(s) : Append(s, x)[i] = s[i]
  BY AppendProperties

LEMMA NextRow ==
  ASSUME NEW full \in CellRows, NEW row \in Seq(ScreenCells),
         NEW c \in Nat, NEW r \in Nat
  PROVE  Cell(Append(full, row), <<>>, c, r) = Cell(full, row, c, r)
<1> DEFINE n == Len(full)
           f == Append(full, row)
<1>1. Len(f) = n + 1 /\ n \in Nat /\ f[n + 1] = row /\ \A i \in 1 .. n : f[i] = full[i]
  BY AppendedAre DEF CellRows
<1>2. Len(<<>>) = 0
  OBVIOUS
<1> HIDE DEF f
<1>3. CASE r < n
  <2>1. r + 1 \in 1 .. n /\ r < n + 1
    BY <1>1, <1>3
  <2>2. f[r + 1] = full[r + 1]
    BY <1>1, <2>1
  <2>3. QED
    BY <1>1, <1>3, <2>1, <2>2 DEF Cell
<1>4. CASE r = n
  <2>1. r < n + 1 /\ ~ r < n /\ f[r + 1] = row
    BY <1>1, <1>4
  <2>2. QED
    BY <1>1, <1>4, <2>1 DEF Cell
<1>5. CASE r > n
  <2>1. ~ r < n + 1 /\ ~ r < n /\ r # n /\ ~ c < 0
    BY <1>1, <1>5
  <2>2. QED
    BY <1>1, <1>2, <2>1 DEF Cell
<1>6. r < n \/ r = n \/ r > n
  BY <1>1
<1>7. QED
  BY <1>3, <1>4, <1>5, <1>6 DEF f

LEMMA NextCell ==
  ASSUME NEW full \in CellRows, NEW row \in Seq(ScreenCells), NEW x \in ScreenCells,
         NEW c \in Nat, NEW r \in Nat
  PROVE  Cell(full, Append(row, x), c, r)
         = IF r = Len(full) /\ c = Len(row) THEN x ELSE Cell(full, row, c, r)
<1> DEFINE n == Len(row)
           u == Append(row, x)
<1>1. Len(u) = n + 1 /\ n \in Nat /\ u[n + 1] = x /\ \A i \in 1 .. n : u[i] = row[i]
  BY AppendedAre
<1>2. Len(full) \in Nat
  BY DEF CellRows
<1> HIDE DEF u
<1>3. CASE r # Len(full)
  BY <1>3 DEF Cell
<1>4. CASE r = Len(full) /\ c < n
  <2>1. ~ r < Len(full) /\ c < n + 1 /\ c + 1 \in 1 .. n /\ c # n
    BY <1>1, <1>2, <1>4
  <2>2. u[c + 1] = row[c + 1]
    BY <1>1, <2>1
  <2>3. QED
    BY <1>1, <1>4, <2>1, <2>2 DEF Cell
<1>5. CASE r = Len(full) /\ c = n
  <2>1. ~ r < Len(full) /\ c < n + 1
    BY <1>1, <1>2, <1>5
  <2>2. QED
    BY <1>1, <1>5, <2>1 DEF Cell
<1>6. CASE r = Len(full) /\ c > n
  <2>1. ~ r < Len(full) /\ ~ c < n + 1 /\ ~ c < n /\ c # n
    BY <1>1, <1>2, <1>6
  <2>2. QED
    BY <1>1, <1>6, <2>1 DEF Cell
<1>7. QED
  BY <1>1, <1>3, <1>4, <1>5, <1>6 DEF u

LEMMA NewLineWritten ==
  ASSUME NEW pen, NEW full, NEW row, NEW color, Wrote(pen, full, row, color)
  PROVE  LET q == [gpu |-> gpu_set_cursor(pen.gpu, 0, pen.row + 1), col |-> 0, row |-> pen.row + 1]
         IN Wrote(q, Append(full, row), <<>>, color)
<1> DEFINE r == pen.row + 1
           g == gpu_set_cursor(pen.gpu, 0, r)
           q == [gpu |-> g, col |-> 0, row |-> r]
           f == Append(full, row)
<1>1. pen.gpu \in Gpus /\ pen.gpu.color = color /\ pen.row \in Nat /\ pen.row = Len(full)
      /\ full \in CellRows /\ row \in Seq(ScreenCells)
  BY DEF Wrote, Pens
<1>2. f \in CellRows /\ Len(f) = Len(full) + 1 /\ <<>> \in Seq(ScreenCells) /\ Len(<<>>) = 0
  BY <1>1, AppendedAre DEF CellRows
<1>3. /\ g \in Gpus /\ g.draw = pen.gpu.draw /\ g.color = color
      /\ OnScreen(0, r) => g.col = 0 /\ g.row = r
  <2>1. 0 \in Nat /\ r \in Nat
    BY <1>1
  <2> HIDE DEF r
  <2>2. QED
    BY <1>1, <2>1, CursorSet
<1> HIDE DEF g, f
<1>4. ASSUME r < NumRows
      PROVE  g.col = 0 /\ g.row = r /\ Filled(g, f, <<>>)
  <2>1. OnScreen(0, r) /\ Len(full) < NumRows
    BY <1>1, <1>4, ScreenSizes DEF OnScreen
  <2>2. Filled(pen.gpu, full, row)
    BY <2>1 DEF Wrote
  <2>3. ASSUME NEW c \in 0 .. NumCols - 1, NEW y \in 0 .. NumRows - 1
        PROVE  g.draw[At(c, y)] = Cell(f, <<>>, c, y)
    <3>1. Cell(Append(full, row), <<>>, c, y) = Cell(full, row, c, y)
      BY <1>1, NextRow
    <3>2. QED
      BY <1>3, <2>2, <3>1 DEF Filled, f
  <2>4. QED
    BY <1>3, <2>1, <2>3 DEF Filled
<1>5. q \in Pens /\ q.gpu = g /\ q.col = 0 /\ q.row = r
  BY <1>1, <1>3 DEF Pens
<1> HIDE DEF q
<1>6. Wrote(q, f, <<>>, color)
  BY <1>1, <1>2, <1>3, <1>4, <1>5, ScreenSizes DEF Wrote
<1>7. QED
  BY <1>6 DEF q, g, f

LEMMA CharWritten ==
  ASSUME NEW pen, NEW full, NEW row, NEW color, Wrote(pen, full, row, color),
         NEW c \in OutputChars \cup {">", Space}, c # NewLine
  PROVE  LET next_row == Append(row, [char |-> c, color |-> color]) IN
         IF Len(row) + 1 = NumCols THEN Wrote(Draw(pen, c), Append(full, next_row), <<>>, color)
         ELSE Wrote(Draw(pen, c), full, next_row, color)
<1> DEFINE x == [char |-> c, color |-> color]
           g == gpu_draw_char(pen.gpu, c)
           u == Append(row, x)
           q == [pen EXCEPT !.gpu = g, !.col = pen.col + 1]
<1>1. /\ pen \in Pens /\ pen.gpu \in Gpus /\ pen.gpu.color = color /\ pen.row = Len(full)
      /\ pen.col = Len(row) /\ full \in CellRows /\ row \in Seq(ScreenCells)
      /\ Len(row) < NumCols /\ Len(row) \in Nat /\ Len(full) \in Nat
  BY DEF Wrote, Pens, CellRows
<1>2. x \in ScreenCells
  BY <1>1 DEF ScreenCells, Gpus
<1>3. u \in Seq(ScreenCells) /\ Len(u) = Len(row) + 1
  BY <1>1, <1>2, AppendedAre
<1>4. /\ g \in Gpus /\ g.color = color
      /\ g.draw = [pen.gpu.draw EXCEPT ![At(pen.gpu.col, pen.gpu.row)] = x]
      /\ pen.gpu.col + 1 < NumCols => g.col = pen.gpu.col + 1 /\ g.row = pen.gpu.row
  BY <1>1, CharDrawn
<1>5. q \in Pens /\ q.gpu = g /\ q.col = Len(row) + 1 /\ q.row = Len(full)
  <2> HIDE DEF g
  <2>1. PICK n \in Nat : n = pen.col + 1 /\ n = Len(row) + 1
    BY <1>1
  <2>2. [pen EXCEPT !.gpu = g, !.col = n] \in Pens
    BY <1>1, <1>4, <2>1 DEF Pens
  <2>3. [pen EXCEPT !.gpu = g, !.col = n].gpu = g /\ [pen EXCEPT !.gpu = g, !.col = n].col = n
        /\ [pen EXCEPT !.gpu = g, !.col = n].row = pen.row
    BY <1>1 DEF Pens
  <2>4. QED
    BY <1>1, <2>1, <2>2, <2>3
<1> HIDE DEF g
<1>6. ASSUME Len(full) < NumRows
      PROVE  Filled(g, full, u)
  <2>1. pen.gpu.col = Len(row) /\ pen.gpu.row = Len(full) /\ Filled(pen.gpu, full, row)
    BY <1>1, <1>6 DEF Wrote
  <2>2. Len(row) \in 0 .. NumCols - 1 /\ Len(full) \in 0 .. NumRows - 1
    BY <1>1, <1>6, ScreenSizes
  <2>3. pen.gpu.draw \in [Positions -> ScreenCells]
    BY <1>1 DEF Gpus
  <2>4. ASSUME NEW y \in 0 .. NumCols - 1, NEW z \in 0 .. NumRows - 1
        PROVE  g.draw[At(y, z)] = Cell(full, u, y, z)
    <3>1. At(y, z) \in Positions /\ (At(y, z) = At(Len(row), Len(full)) => y = Len(row) /\ z = Len(full))
      <4>1. At(y, z) \in Positions /\ At(y, z) % NumCols = y /\ At(y, z) \div NumCols = z
        BY PlaceOnScreen
      <4>2. At(Len(row), Len(full)) % NumCols = Len(row)
            /\ At(Len(row), Len(full)) \div NumCols = Len(full)
        BY <2>2, PlaceOnScreen
      <4>3. QED
        BY <4>1, <4>2
    <3>2. g.draw[At(y, z)] = IF y = Len(row) /\ z = Len(full) THEN x ELSE pen.gpu.draw[At(y, z)]
      <4> HIDE DEF x
      <4>1. QED
        BY <1>4, <2>1, <2>3, <3>1
    <3>3. pen.gpu.draw[At(y, z)] = Cell(full, row, y, z)
      BY <2>1 DEF Filled
    <3>4. y \in Nat /\ z \in Nat
      OBVIOUS
    <3> HIDE DEF x
    <3>5. Cell(full, u, y, z) = IF z = Len(full) /\ y = Len(row) THEN x ELSE Cell(full, row, y, z)
      BY <1>1, <1>2, <3>4, NextCell
    <3>6. QED
      BY <3>2, <3>3, <3>5
  <2>5. QED
    BY <2>4 DEF Filled
<1>7. CASE Len(row) + 1 = NumCols
  <2> DEFINE n == pen.row + 1
             d == gpu_set_cursor(g, 0, n)
             p == [gpu |-> d, col |-> 0, row |-> n]
             f == Append(full, u)
  <2>1. Draw(pen, c) = p
    BY <1>1, <1>7 DEF Draw, g
  <2>2. f \in CellRows /\ Len(f) = Len(full) + 1 /\ <<>> \in Seq(ScreenCells) /\ Len(<<>>) = 0
    BY <1>1, <1>3, AppendedAre DEF CellRows
  <2>3. /\ p.gpu \in Gpus /\ p.gpu.color = color /\ p.gpu.draw = g.draw
        /\ OnScreen(0, pen.row + 1) => p.gpu.col = 0 /\ p.gpu.row = pen.row + 1
    <3>1. 0 \in Nat /\ n \in Nat /\ g \in Gpus
      BY <1>1, <1>4
    <3> HIDE DEF n
    <3>2. /\ d \in Gpus /\ d.draw = g.draw /\ d.color = g.color
          /\ OnScreen(0, n) => d.col = 0 /\ d.row = n
      BY <3>1, CursorSet
    <3> HIDE DEF d
    <3>3. QED
      BY <1>4, <3>2 DEF n
  <2>4. p \in Pens /\ p.col = 0 /\ p.row = Len(full) + 1
    <3>1. n \in Nat /\ n = Len(full) + 1 /\ d \in Gpus
      BY <1>1, <2>3
    <3> HIDE DEF n, d
    <3>2. QED
      BY <3>1 DEF Pens
  <2> HIDE DEF p, f, u, d, n
  <2>5. ASSUME Len(f) < NumRows
        PROVE  p.gpu.col = 0 /\ p.gpu.row = Len(f) /\ Filled(p.gpu, f, <<>>)
    <3>1. OnScreen(0, pen.row + 1) /\ Len(full) < NumRows
      BY <1>1, <2>2, <2>5, ScreenSizes DEF OnScreen
    <3>2. ASSUME NEW y \in 0 .. NumCols - 1, NEW z \in 0 .. NumRows - 1
          PROVE  p.gpu.draw[At(y, z)] = Cell(f, <<>>, y, z)
      <4>1. Cell(Append(full, u), <<>>, y, z) = Cell(full, u, y, z)
        BY <1>1, <1>3, NextRow
      <4>2. QED
        BY <1>6, <2>3, <3>1, <4>1 DEF Filled, f
    <3>3. QED
      BY <1>1, <2>2, <2>3, <3>1, <3>2 DEF Filled
  <2>6. Wrote(p, f, <<>>, color)
    BY <2>2, <2>3, <2>4, <2>5, ScreenSizes DEF Wrote
  <2>7. QED
    BY <1>7, <2>1, <2>6 DEF f, u
<1>8. CASE Len(row) + 1 # NumCols
  <2>1. Draw(pen, c) = q
    BY <1>1, <1>8 DEF Draw, g
  <2>2. Len(row) + 1 < NumCols
    BY <1>1, <1>8, ScreenSizes
  <2> HIDE DEF q, u
  <2>3. ASSUME Len(full) < NumRows
        PROVE  q.gpu.col = q.col /\ q.gpu.row = q.row /\ Filled(q.gpu, full, u)
    <3>1. pen.gpu.col = Len(row) /\ pen.gpu.row = Len(full)
      BY <1>1, <2>3 DEF Wrote
    <3>2. QED
      BY <1>4, <1>5, <1>6, <2>2, <2>3, <3>1
  <2>4. Wrote(q, full, u, color)
    BY <1>1, <1>3, <1>4, <1>5, <2>2, <2>3 DEF Wrote
  <2>5. QED
    BY <1>8, <2>1, <2>4 DEF u
<1>9. QED
  BY <1>7, <1>8

-----------------------------------------------------------------------------
(***************************************************************************)
(* The rows that a line takes: full ones, and the last one.                *)
(***************************************************************************)
DrawnChars == OutputChars \cup {">", Space}
CellFor(c, color) == [char |-> c, color |-> Foreground(color)]

FullRows(s, color) ==
  [k \in 1 .. Len(s) \div NumCols |-> [i \in 1 .. NumCols |-> CellFor(s[(k - 1) * NumCols + i], color)]]
LastRow(s, color) ==
  [i \in 1 .. Len(s) % NumCols |-> CellFor(s[(Len(s) \div NumCols) * NumCols + i], color)]

LEMMA CellsFor ==
  ASSUME NEW c \in DrawnChars, NEW color \in {GREEN, YELLOW}
  PROVE  CellFor(c, color) \in ScreenCells /\ Foreground(color) \in Colors
  BY DEF CellFor, ScreenCells, Foreground, Colors, DrawnChars

LEMMA PlacesInRows ==
  ASSUME NEW n \in Nat, NEW q \in Nat, NEW m \in 0 .. NumCols - 1, n = m + q * NumCols
  PROVE  /\ n \div NumCols = q /\ n % NumCols = m
         /\ \A k \in 1 .. q, i \in 1 .. NumCols : (k - 1) * NumCols + i \in 1 .. q * NumCols
         /\ \A i \in 1 .. m : q * NumCols + i \in 1 .. n
         /\ q * NumCols \in 0 .. n /\ (\A k \in 1 .. q : k * NumCols <= n)
         /\ ~ (q + 1) * NumCols <= n
<1> DEFINE N == NumCols
<1>1. N \in Nat \ {0} /\ m \in 0 .. N - 1
  BY ScreenSizes
<1> HIDE DEF N
<1>2. n \div N = q /\ n % N = m
  <2>1. n = m + q * N
    BY DEF N
  <2>2. QED
    BY <1>1, <2>1, DivModUnique
<1>3. ASSUME NEW k \in 1 .. q
      PROVE  k * N <= q * N /\ (k - 1) * N = k * N - N /\ k * N \in Nat /\ (k - 1) * N \in Nat
  <2>1. k \in Nat /\ k - 1 \in Nat /\ N \in Nat
    BY <1>1
  <2>2. QED
    BY <1>1, <2>1, ProductMonotonic
<1>4. q * N \in Nat /\ n = m + q * N /\ (q + 1) * N = q * N + N
  BY <1>1 DEF N
<1>5. ASSUME NEW k \in 1 .. q, NEW i \in 1 .. N PROVE (k - 1) * N + i \in 1 .. q * N
  BY <1>1, <1>3, <1>4
<1>6. QED
  BY <1>1, <1>2, <1>3, <1>4, <1>5 DEF N

LEMMA RowsOfLine ==
  ASSUME NEW s \in Seq(DrawnChars), NEW color \in {GREEN, YELLOW}
  PROVE  /\ FullRows(s, color) \in CellRows /\ LastRow(s, color) \in Seq(ScreenCells)
         /\ Len(FullRows(s, color)) = Len(s) \div NumCols
         /\ Len(LastRow(s, color)) = Len(s) % NumCols /\ Len(s) % NumCols < NumCols
         /\ RowsOf(s, color) = Append(FullRows(s, color), LastRow(s, color))
<1> DEFINE N == NumCols
           F == FullRows(s, color)
           L == LastRow(s, color)
           C(j) == CellFor(s[j], color)
<1>1. PICK n \in Nat : n = Len(s)
  OBVIOUS
<1>2. PICK q \in Nat, m \in 0 .. N - 1 : n = m + q * N
  <2>1. N \in Nat \ {0}
    BY ScreenSizes
  <2> HIDE DEF N
  <2>2. n \div N \in Nat /\ n % N \in 0 .. N - 1 /\ n = (n % N) + (n \div N) * N
    BY <1>1, <2>1, DivMod
  <2>3. QED
    BY <2>2
<1>3. /\ Len(s) \div N = q /\ Len(s) % N = m /\ m < N
      /\ \A k \in 1 .. q, i \in 1 .. N : (k - 1) * N + i \in 1 .. q * N
      /\ \A i \in 1 .. m : q * N + i \in 1 .. n
      /\ q * N \in 0 .. n /\ (\A k \in 1 .. q : k * N <= n)
      /\ ~ (q + 1) * N <= n
  <2>1. /\ n \div NumCols = q /\ n % NumCols = m
        /\ \A k \in 1 .. q, i \in 1 .. NumCols : (k - 1) * NumCols + i \in 1 .. q * NumCols
        /\ \A i \in 1 .. m : q * NumCols + i \in 1 .. n
        /\ q * NumCols \in 0 .. n /\ (\A k \in 1 .. q : k * NumCols <= n)
        /\ ~ (q + 1) * NumCols <= n
    BY <1>1, <1>2, PlacesInRows, Zenon
  <2>2. m < N
    BY <1>2, ScreenSizes
  <2>3. QED
    BY <1>1, <2>1, <2>2, Zenon
<1>4. \A j \in 1 .. n : s[j] \in DrawnChars /\ C(j) \in ScreenCells
  BY <1>1, CellsFor
<1>5. N \in Nat
  BY ScreenSizes
<1>6. F = [k \in 1 .. q |-> [i \in 1 .. N |-> C((k - 1) * N + i)]]
  BY <1>3 DEF FullRows
<1>7. L = [i \in 1 .. m |-> C(q * N + i)]
  BY <1>3 DEF LastRow
<1> DEFINE E(k) == [i \in 1 .. (IF k * N <= n THEN N ELSE m) |-> C((k - 1) * N + i)]
<1>8. RowsOf(s, color) = [k \in 1 .. q + 1 |-> E(k)]
  BY <1>1, <1>3 DEF RowsOf, CellFor
<1> HIDE DEF C, N
<1>9. ASSUME NEW k \in 1 .. q, NEW i \in 1 .. N PROVE C((k - 1) * N + i) \in ScreenCells
  <2>1. PICK j : j = (k - 1) * N + i
    OBVIOUS
  <2>2. j \in 1 .. q * N
    BY <1>3, <2>1
  <2>3. j \in 1 .. n
    BY <1>3, <2>2
  <2>4. QED
    BY <1>4, <2>1, <2>3
<1>10. ASSUME NEW k \in 1 .. q
       PROVE  [i \in 1 .. N |-> C((k - 1) * N + i)] \in Seq(ScreenCells) /\ E(k) = F[k]
  <2>1. \A i \in 1 .. N : C((k - 1) * N + i) \in ScreenCells
    BY <1>9
  <2>2. F[k] = [i \in 1 .. N |-> C((k - 1) * N + i)] /\ k * N <= n
    BY <1>3, <1>6
  <2>3. E(k) = [i \in 1 .. N |-> C((k - 1) * N + i)]
    BY <2>2
  <2> DEFINE f == [i \in 1 .. N |-> C((k - 1) * N + i)]
  <2>4. f \in [1 .. N -> ScreenCells]
    BY <2>1
  <2> HIDE DEF f, E
  <2>5. f \in Seq(ScreenCells)
    BY <1>5, <2>4
  <2>6. QED
    BY <2>2, <2>3, <2>5 DEF f
<1>11. E(q + 1) = L
  <2>1. ~ (q + 1) * N <= n /\ (q + 1) - 1 = q
    BY <1>3
  <2>2. QED
    BY <1>7, <2>1
<1>12. L \in Seq(ScreenCells) /\ Len(L) = m
  <2>1. \A i \in 1 .. m : C(q * N + i) \in ScreenCells
    BY <1>3, <1>4
  <2>2. L \in [1 .. m -> ScreenCells] /\ m \in Nat
    BY <1>7, <2>1
  <2> HIDE DEF L
  <2>3. QED
    BY <2>2
<1>13. F \in CellRows /\ Len(F) = q
  <2> DEFINE S == Seq(ScreenCells)
  <2>1. F \in [1 .. q -> S]
    BY <1>6, <1>10
  <2> HIDE DEF F, S
  <2>2. F \in Seq(S) /\ Len(F) = q
    BY <2>1
  <2>3. QED
    BY <2>2 DEF CellRows, S
<1>14. RowsOf(s, color) = Append(F, L)
  <2> DEFINE W == [k \in 1 .. q + 1 |-> E(k)]
             S == Seq(ScreenCells)
  <2>1. \A k \in 1 .. q + 1 : k \in 1 .. q \/ k = q + 1
    OBVIOUS
  <2>2. Append(F, L) \in Seq(S) /\ Len(Append(F, L)) = q + 1 /\ Append(F, L)[q + 1] = L
        /\ \A k \in 1 .. q : Append(F, L)[k] = F[k]
    BY <1>12, <1>13, AppendedAre DEF CellRows
  <2>3. \A k \in 1 .. q + 1 : W[k] = Append(F, L)[k]
    BY <1>10, <1>11, <2>1, <2>2
  <2>4. W \in [1 .. q + 1 -> S]
    <3>1. \A k \in 1 .. q + 1 : W[k] \in S
      <4> HIDE DEF F, L, W, S
      <4>1. \A k \in 1 .. q + 1 : Append(F, L)[k] \in S
        BY <2>2
      <4>2. QED
        BY <2>3, <4>1
    <3>2. QED
      BY <3>1
  <2> HIDE DEF F, L, W, S
  <2>5. W \in Seq(S) /\ Len(W) = q + 1
    BY <2>4
  <2>6. W = Append(F, L)
    BY <2>2, <2>3, <2>5, SeqEqual
  <2>7. QED
    BY <1>8, <2>6 DEF W
<1>15. QED
  BY <1>3, <1>12, <1>13, <1>14 DEF N

\* One character more.
LEMMA RowsOfMore ==
  ASSUME NEW s \in Seq(DrawnChars), NEW color \in {GREEN, YELLOW}, NEW x \in DrawnChars
  PROVE  LET F == FullRows(s, color)
             L == LastRow(s, color)
             u == Append(s, x)
             M == Append(L, CellFor(x, color))
         IN IF Len(L) + 1 = NumCols
              THEN FullRows(u, color) = Append(F, M) /\ LastRow(u, color) = <<>>
            ELSE FullRows(u, color) = F /\ LastRow(u, color) = M
<1> DEFINE N == NumCols
           F == FullRows(s, color)
           L == LastRow(s, color)
           u == Append(s, x)
           y == CellFor(x, color)
           M == Append(L, y)
           C(j) == CellFor(s[j], color)
           D(j) == CellFor(u[j], color)
<1>1. N \in Nat \ {0} /\ N > 1
  BY ScreenSizes
<1>2. PICK n \in Nat : n = Len(s)
  OBVIOUS
<1>3. PICK q \in Nat, m \in 0 .. N - 1 : n = m + q * N
  <2> HIDE DEF N
  <2>2. n \div N \in Nat /\ n % N \in 0 .. N - 1 /\ n = (n % N) + (n \div N) * N
    BY <1>1, <1>2, DivMod
  <2>3. QED
    BY <2>2
<1>4. /\ n \div N = q /\ n % N = m
      /\ \A k \in 1 .. q, i \in 1 .. N : (k - 1) * N + i \in 1 .. q * N
      /\ \A i \in 1 .. m : q * N + i \in 1 .. n
      /\ q * N \in 0 .. n
  <2>1. /\ n \div NumCols = q /\ n % NumCols = m
        /\ \A k \in 1 .. q, i \in 1 .. NumCols : (k - 1) * NumCols + i \in 1 .. q * NumCols
        /\ \A i \in 1 .. m : q * NumCols + i \in 1 .. n
        /\ q * NumCols \in 0 .. n
    BY <1>3, PlacesInRows, Zenon
  <2>2. QED
    BY <2>1, Zenon
<1>5. Len(u) = n + 1 /\ D(n + 1) = y /\ \A j \in 1 .. n : D(j) = C(j)
  BY <1>2, AppendProperties
<1>6. F = [k \in 1 .. q |-> [i \in 1 .. N |-> C((k - 1) * N + i)]]
      /\ L = [i \in 1 .. m |-> C(q * N + i)]
  BY <1>2, <1>4 DEF FullRows, LastRow
<1>7. F \in CellRows /\ Len(F) = q /\ L \in Seq(ScreenCells) /\ Len(L) = m
  BY <1>2, <1>4, RowsOfLine
<1>8. y \in ScreenCells
  BY CellsFor
<1>9. M \in Seq(ScreenCells) /\ Len(M) = m + 1 /\ M[m + 1] = y /\ \A i \in 1 .. m : M[i] = L[i]
  BY <1>7, <1>8, AppendedAre
<1>10. FullRows(u, color) = [k \in 1 .. Len(u) \div N |-> [i \in 1 .. N |-> D((k - 1) * N + i)]]
       /\ LastRow(u, color) = [i \in 1 .. Len(u) % N |-> D((Len(u) \div N) * N + i)]
  BY DEF FullRows, LastRow
<1> HIDE DEF N, F, L, u, y, C, D
<1>11. /\ \A k \in 1 .. q, i \in 1 .. N : D((k - 1) * N + i) = C((k - 1) * N + i)
       /\ \A i \in 1 .. m : D(q * N + i) = C(q * N + i)
       /\ D(q * N + (m + 1)) = y
  <2>1. q * N + (m + 1) = n + 1 /\ \A j \in 1 .. q * N : j \in 1 .. n
    BY <1>1, <1>3, <1>4
  <2>2. ASSUME NEW k \in 1 .. q, NEW i \in 1 .. N PROVE D((k - 1) * N + i) = C((k - 1) * N + i)
    <3>1. PICK j : j = (k - 1) * N + i
      OBVIOUS
    <3>2. j \in 1 .. n
      BY <1>4, <2>1, <3>1
    <3>3. QED
      BY <1>5, <3>1, <3>2
  <2>3. QED
    BY <1>4, <1>5, <2>1, <2>2
\* The row that is written, as a function.
<1>12. ASSUME NEW E, E = [i \in 1 .. m + 1 |-> D(q * N + i)]
       PROVE  E = M
  <2>1. \A i \in 1 .. m + 1 : i \in 1 .. m \/ i = m + 1
    BY <1>3
  <2>2. \A i \in 1 .. m + 1 : E[i] = M[i]
    BY <1>6, <1>9, <1>11, <1>12, <2>1
  <2>3. \A i \in 1 .. m + 1 : M[i] \in ScreenCells
    <3> HIDE DEF M
    <3>1. QED
      BY <1>9
  <2>4. E \in [1 .. m + 1 -> ScreenCells]
    BY <1>12, <2>2, <2>3
  <2> HIDE DEF M
  <2>5. E \in Seq(ScreenCells) /\ Len(E) = m + 1
    BY <1>3, <2>4
  <2>6. QED
    BY <1>9, <2>2, <2>5, SeqEqual
<1>13. CASE m + 1 = N
  <2>1. n + 1 = 0 + (q + 1) * N /\ q + 1 \in Nat
    BY <1>1, <1>3, <1>13
  <2>2. Len(u) \div N = q + 1 /\ Len(u) % N = 0
    <3>1. (0 + (q + 1) * N) % N = 0 /\ (0 + (q + 1) * N) \div N = q + 1
      BY <1>1, <2>1, DivModUnique
    <3>2. QED
      BY <1>5, <2>1, <3>1
  <2>3. LastRow(u, color) = <<>>
    BY <1>10, <2>2
  <2> DEFINE W == [k \in 1 .. q + 1 |-> [i \in 1 .. N |-> D((k - 1) * N + i)]]
             S == Seq(ScreenCells)
  <2>4. FullRows(u, color) = W
    BY <1>10, <2>2
  <2>5. Append(F, M) \in Seq(S) /\ Len(Append(F, M)) = q + 1 /\ Append(F, M)[q + 1] = M
        /\ \A k \in 1 .. q : Append(F, M)[k] = F[k]
    <3> HIDE DEF M
    <3>1. QED
      BY <1>7, <1>9, AppendedAre DEF CellRows
  <2>6. ASSUME NEW k \in 1 .. q PROVE W[k] = F[k]
    <3>1. k \in 1 .. q + 1
      BY <1>3
    <3>2. W[k] = [i \in 1 .. N |-> D((k - 1) * N + i)]
      BY <3>1
    <3>3. [i \in 1 .. N |-> D((k - 1) * N + i)] = [i \in 1 .. N |-> C((k - 1) * N + i)]
      BY <1>11
    <3>4. F[k] = [i \in 1 .. N |-> C((k - 1) * N + i)]
      BY <1>6
    <3>5. QED
      BY <3>2, <3>3, <3>4
  <2>7. W[q + 1] = M
    <3>1. W[q + 1] = [i \in 1 .. N |-> D(((q + 1) - 1) * N + i)]
      BY <1>3
    <3>2. (q + 1) - 1 = q
      OBVIOUS
    <3>3. W[q + 1] = [i \in 1 .. m + 1 |-> D(q * N + i)]
      BY <1>13, <3>1, <3>2
    <3>4. QED
      BY <1>12, <3>3
  <2> HIDE DEF M
  <2>8. \A k \in 1 .. q + 1 : W[k] = Append(F, M)[k]
    <3>1. \A k \in 1 .. q + 1 : k \in 1 .. q \/ k = q + 1
      OBVIOUS
    <3>2. QED
      BY <2>5, <2>6, <2>7, <3>1
  <2>9. W \in [1 .. q + 1 -> S]
    <3>1. \A k \in 1 .. q + 1 : W[k] \in S
      <4> HIDE DEF W, S
      <4>1. \A k \in 1 .. q + 1 : Append(F, M)[k] \in S
        BY <2>5
      <4>2. QED
        BY <2>8, <4>1
    <3>2. QED
      BY <3>1
  <2> HIDE DEF W, S
  <2>10. W \in Seq(S) /\ Len(W) = q + 1
    BY <2>9
  <2>11. W = Append(F, M)
    BY <2>5, <2>8, <2>10, SeqEqual
  <2>12. Len(L) + 1 = NumCols
    BY <1>7, <1>13 DEF N
  <2>13. QED
    BY <2>3, <2>4, <2>11, <2>12 DEF F, L, u, M, y
<1>14. CASE m + 1 # N
  <2>1. n + 1 = (m + 1) + q * N /\ m + 1 \in 0 .. N - 1
    BY <1>1, <1>3, <1>14
  <2>2. Len(u) \div N = q /\ Len(u) % N = m + 1
    <3>1. ((m + 1) + q * N) % N = m + 1 /\ ((m + 1) + q * N) \div N = q
      BY <1>1, <2>1, DivModUnique
    <3>2. QED
      BY <1>5, <2>1, <3>1
  <2>3. LastRow(u, color) = M
    BY <1>10, <1>12, <2>2
  <2>4. FullRows(u, color) = F
    BY <1>6, <1>10, <1>11, <2>2
  <2>5. Len(L) + 1 # NumCols
    BY <1>7, <1>14 DEF N
  <2>6. QED
    BY <2>3, <2>4, <2>5 DEF F, L, u, M, y
<1>15. QED
  BY <1>13, <1>14

LEMMA RowsOfNothing ==
  ASSUME NEW color \in {GREEN, YELLOW}
  PROVE  FullRows(<<>>, color) = <<>> /\ LastRow(<<>>, color) = <<>>
<1>1. Len(<<>>) \div NumCols = 0 /\ Len(<<>>) % NumCols = 0
  <2>1. 0 = 0 + 0 * NumCols /\ 0 \in 0 .. NumCols - 1 /\ 0 \in Nat
    BY ScreenSizes
  <2>2. QED
    BY <2>1, PlacesInRows
<1>2. QED
  BY <1>1 DEF FullRows, LastRow

-----------------------------------------------------------------------------
(***************************************************************************)
(* A line that is written below other rows.                                *)
(***************************************************************************)
Writes(pen, rows, text, color) ==
  /\ rows \in CellRows /\ text \in Seq(DrawnChars) /\ color \in {GREEN, YELLOW}
  /\ Wrote(pen, rows \o FullRows(text, color), LastRow(text, color), Foreground(color))

LEMMA RowsAppended ==
  ASSUME NEW rows \in CellRows, NEW full \in CellRows, NEW row \in Seq(ScreenCells)
  PROVE  /\ rows \o full \in CellRows /\ Append(rows \o full, row) = rows \o Append(full, row)
         /\ Append(full, row) \in CellRows
         /\ Len(rows \o full) = Len(rows) + Len(full) /\ Len(rows) \in Nat /\ Len(full) \in Nat
<1> DEFINE S == Seq(ScreenCells)
<1>1. rows \in Seq(S) /\ full \in Seq(S) /\ row \in S
  BY DEF CellRows
<1> HIDE DEF S
<1>2. rows \o full \in Seq(S) /\ <<row>> \in Seq(S) /\ Len(rows \o full) = Len(rows) + Len(full)
      /\ Len(rows) \in Nat /\ Len(full) \in Nat
  BY <1>1, ConcatProperties
<1>3. (rows \o full) \o <<row>> = rows \o (full \o <<row>>)
  BY <1>1, <1>2, ConcatAssociative
<1>4. Append(rows \o full, row) = (rows \o full) \o <<row>> /\ Append(full, row) = full \o <<row>>
  BY <1>1, <1>2, AppendIsConcat
<1>5. Append(full, row) \in Seq(S)
  BY <1>1, AppendedAre
<1>6. QED
  BY <1>2, <1>3, <1>4, <1>5 DEF CellRows, S

LEMMA WritesChar ==
  ASSUME NEW pen, NEW rows, NEW text, NEW color, Writes(pen, rows, text, color),
         NEW c \in DrawnChars, c # NewLine
  PROVE  Writes(Draw(pen, c), rows, Append(text, c), color)
<1> DEFINE F == FullRows(text, color)
           L == LastRow(text, color)
           u == Append(text, c)
           M == Append(L, CellFor(c, color))
           q == Draw(pen, c)
<1>1. rows \in CellRows /\ text \in Seq(DrawnChars) /\ color \in {GREEN, YELLOW}
      /\ Wrote(pen, rows \o F, L, Foreground(color))
  BY DEF Writes
<1>2. F \in CellRows /\ L \in Seq(ScreenCells)
  BY <1>1, RowsOfLine
<1>3. IF Len(L) + 1 = NumCols THEN Wrote(q, Append(rows \o F, M), <<>>, Foreground(color))
      ELSE Wrote(q, rows \o F, M, Foreground(color))
  BY <1>1, CharWritten DEF CellFor, DrawnChars
<1>4. IF Len(L) + 1 = NumCols
        THEN FullRows(u, color) = Append(F, M) /\ LastRow(u, color) = <<>>
      ELSE FullRows(u, color) = F /\ LastRow(u, color) = M
  BY <1>1, RowsOfMore
<1>5. u \in Seq(DrawnChars)
  BY <1>1, AppendedAre
<1>6. M \in Seq(ScreenCells)
  BY <1>1, <1>2, CellsFor, AppendedAre
<1>7. Append(rows \o F, M) = rows \o Append(F, M)
  BY <1>1, <1>2, <1>6, RowsAppended
<1> HIDE DEF F, L, u, M, q
<1>8. Writes(q, rows, u, color)
  BY <1>1, <1>3, <1>4, <1>5, <1>7 DEF Writes
<1>9. QED
  BY <1>8 DEF q, u

\* The pen at the start of the next row.
Down(pen) == [gpu |-> gpu_set_cursor(pen.gpu, 0, pen.row + 1), col |-> 0, row |-> pen.row + 1]

LEMMA WritesNext ==
  ASSUME NEW pen, NEW rows, NEW text, NEW color, Writes(pen, rows, text, color)
  PROVE  /\ Writes(Down(pen), rows \o RowsOf(text, color), <<>>, color)
         /\ Draw(pen, NewLine) = Down(pen)
<1> DEFINE F == FullRows(text, color)
           L == LastRow(text, color)
<1>1. rows \in CellRows /\ text \in Seq(DrawnChars) /\ color \in {GREEN, YELLOW}
      /\ Wrote(pen, rows \o F, L, Foreground(color))
  BY DEF Writes
<1>2. F \in CellRows /\ L \in Seq(ScreenCells) /\ RowsOf(text, color) = Append(F, L)
  BY <1>1, RowsOfLine
<1>3. Wrote(Down(pen), Append(rows \o F, L), <<>>, Foreground(color))
  BY <1>1, NewLineWritten DEF Down
<1>4. Append(rows \o F, L) = rows \o RowsOf(text, color) /\ rows \o RowsOf(text, color) \in CellRows
  BY <1>1, <1>2, RowsAppended
<1>5. FullRows(<<>>, color) = <<>> /\ LastRow(<<>>, color) = <<>>
  BY <1>1, RowsOfNothing
<1>6. (rows \o RowsOf(text, color)) \o <<>> = rows \o RowsOf(text, color)
  <2> DEFINE w == rows \o RowsOf(text, color)
  <2>1. w \in Seq(Seq(ScreenCells))
    BY <1>4 DEF CellRows
  <2> HIDE DEF w
  <2>2. w \o <<>> = w
    BY <2>1, ConcatEmptySeq
  <2>3. QED
    BY <2>2 DEF w
<1>7. <<>> \in Seq(DrawnChars)
  OBVIOUS
<1> HIDE DEF F, L
<1>8. Writes(Down(pen), rows \o RowsOf(text, color), <<>>, color)
  BY <1>1, <1>3, <1>4, <1>5, <1>6, <1>7 DEF Writes
<1>9. Draw(pen, NewLine) = Down(pen)
  BY DEF Draw, Down
<1>10. QED
  BY <1>8, <1>9

\* At the start of a row the color may change.
LEMMA WritesColor ==
  ASSUME NEW pen, NEW rows, NEW color, Writes(pen, rows, <<>>, color), NEW other \in {GREEN, YELLOW}
  PROVE  Writes([pen EXCEPT !.gpu = gpu_set_color(pen.gpu, Foreground(other))], rows, <<>>, other)
<1> DEFINE g == gpu_set_color(pen.gpu, Foreground(other))
           q == [pen EXCEPT !.gpu = g]
<1>1. rows \in CellRows /\ color \in {GREEN, YELLOW}
      /\ Wrote(pen, rows \o <<>>, <<>>, Foreground(color))
  <2>1. rows \in CellRows /\ color \in {GREEN, YELLOW}
        /\ Wrote(pen, rows \o FullRows(<<>>, color), LastRow(<<>>, color), Foreground(color))
    BY DEF Writes
  <2>2. QED
    BY <2>1, RowsOfNothing
<1>2. FullRows(<<>>, other) = <<>> /\ LastRow(<<>>, other) = <<>>
  BY RowsOfNothing
<1>3. pen \in Pens /\ pen.gpu \in Gpus /\ Foreground(other) \in Colors
  BY <1>1 DEF Wrote, Pens, Foreground, Colors
<1>4. /\ g \in Gpus /\ g.color = Foreground(other) /\ g.draw = pen.gpu.draw
      /\ g.col = pen.gpu.col /\ g.row = pen.gpu.row
  BY <1>3 DEF gpu_set_color, Gpus
<1> HIDE DEF g
<1>5. q \in Pens /\ q.gpu = g /\ q.col = pen.col /\ q.row = pen.row
  BY <1>3, <1>4 DEF Pens
<1> HIDE DEF q
<1>6. \A full, row : Filled(pen.gpu, full, row) => Filled(g, full, row)
  BY <1>4 DEF Filled
<1>7. Wrote(q, rows \o <<>>, <<>>, Foreground(other))
  BY <1>1, <1>4, <1>5, <1>6 DEF Wrote
<1>8. <<>> \in Seq(DrawnChars)
  OBVIOUS
<1>9. Writes(q, rows, <<>>, other)
  BY <1>1, <1>2, <1>7, <1>8 DEF Writes
<1>10. QED
  BY <1>9 DEF q, g

-----------------------------------------------------------------------------
(***************************************************************************)
(* sh_draw_string: the loop, for a command and for the output.             *)
(***************************************************************************)
LEMMA DrawKept ==
  ASSUME NEW pen \in Pens, NEW c \in DrawnChars
  PROVE  Draw(pen, c) \in Pens
<1>1. pen.gpu \in Gpus /\ pen.col \in Nat /\ pen.row \in Nat
  BY DEF Pens
<1>2. PICK g \in Gpus : g = IF c = NewLine THEN pen.gpu ELSE gpu_draw_char(pen.gpu, c)
  BY <1>1, CharDrawn DEF DrawnChars
<1>3. PICK n \in Nat : n = IF c = NewLine THEN pen.col ELSE pen.col + 1
  BY <1>1
<1>4. PICK m \in Nat : m = pen.row + 1
  BY <1>1
<1>5. Draw(pen, c) = IF c = NewLine \/ n = NumCols
                       THEN [gpu |-> gpu_set_cursor(g, 0, m), col |-> 0, row |-> m]
                     ELSE [pen EXCEPT !.gpu = g, !.col = n]
  BY <1>2, <1>3, <1>4 DEF Draw
<1>6. gpu_set_cursor(g, 0, m) \in Gpus
  BY CursorSet
<1>7. [pen EXCEPT !.gpu = g, !.col = n] \in Pens
  BY DEF Pens
<1>8. [gpu |-> gpu_set_cursor(g, 0, m), col |-> 0, row |-> m] \in Pens
  BY <1>6 DEF Pens
<1>9. QED
  BY <1>5, <1>7, <1>8

LEMMA StringDrawn ==
  ASSUME NEW pen \in Pens, NEW s \in Texts
  PROVE  \E f \in [0 .. Len(s) -> Pens] :
           /\ sh_draw_string(pen, s) = f[Len(s)] /\ f[0] = pen
           /\ \A k \in 1 .. Len(s) : f[k] = Draw(f[k - 1], s[k])
<1> DEFINE n == Len(s)
           V == Pens
           P(f) == f = [k \in 0 .. n |-> IF k = 0 THEN pen ELSE Draw(f[k - 1], s[k])]
           loop == CHOOSE f : P(f)
           step == [p \in (1 .. n) \X V |-> Draw(p[2], s[p[1]])]
<1>1. n \in Nat /\ pen \in V /\ \A k \in 1 .. n : s[k] \in DrawnChars
  BY DEF Texts, DrawnChars
<1>2. step \in [(1 .. n) \X V -> V]
  <2>1. ASSUME NEW p \in (1 .. n) \X V PROVE Draw(p[2], s[p[1]]) \in V
    <3>1. p[1] \in 1 .. n /\ p[2] \in V
      OBVIOUS
    <3>2. QED
      BY <1>1, <3>1, DrawKept
  <2>2. QED
    BY <2>1
<1>3. PICK g : Recursive(g, n, V, pen, step)
  <2> HIDE DEF n, V, step
  <2>1. QED
    BY <1>1, <1>2, Recursion
<1>4. \A k \in 1 .. n : g[k] = Draw(g[k - 1], s[k])
  <2> TAKE k \in 1 .. n
  <2>1. g[k - 1] \in V /\ g[k] = step[<<k, g[k - 1]>>]
    <3> HIDE DEF V, step
    <3>1. k - 1 \in 0 .. n
      BY <1>1
    <3>2. QED
      BY <1>3, <3>1 DEF Recursive
  <2>2. QED
    BY <2>1
<1>5. P(g)
  <2>1. g \in [0 .. n -> V] /\ g[0] = pen
    BY <1>3 DEF Recursive
  <2>2. ASSUME NEW k \in 0 .. n
        PROVE  g[k] = IF k = 0 THEN pen ELSE Draw(g[k - 1], s[k])
    <3>1. k = 0 \/ k \in 1 .. n
      BY <1>1
    <3>2. k \in 1 .. n => k # 0
      OBVIOUS
    <3>3. QED
      BY <1>4, <2>1, <3>1, <3>2
  <2>3. QED
    BY <2>1, <2>2
<1>6. sh_draw_string(pen, s) = loop[n]
  BY DEF sh_draw_string, Draw
<1>7. P(loop)
  BY <1>5
<1> HIDE DEF loop
<1>8. \A k \in 0 .. n : loop[k] = IF k = 0 THEN pen ELSE Draw(loop[k - 1], s[k])
  BY <1>7
<1> HIDE DEF n, P
<1>9. Repeats(loop, n, V, pen, step)
  <2>1. 0 \in 0 .. n /\ \A k \in 1 .. n : k \in 0 .. n /\ k # 0
    BY <1>1
  <2> HIDE DEF V
  <2>2. QED
    BY <1>8, <2>1 DEF Repeats
<1> HIDE DEF V, step
<1>10. \A k \in 0 .. n : loop[k] = g[k]
  <2>1. BothRepeat(loop, g, n, V, pen, step)
    BY <1>1, <1>3, <1>9 DEF BothRepeat
  <2>2. QED
    BY <2>1, RecursionIsOne
<1>11. g \in [0 .. n -> V] /\ n \in 0 .. n /\ g[0] = pen
  BY <1>1, <1>3 DEF Recursive
<1>12. sh_draw_string(pen, s) = g[n]
  BY <1>6, <1>10, <1>11
<1>13. QED
  BY <1>4, <1>11, <1>12 DEF n, V

LEMMA CommandWritten ==
  ASSUME NEW pen, NEW rows, NEW text, NEW color, Writes(pen, rows, text, color),
         NEW s \in Seq(Chars)
  PROVE  Writes(sh_draw_string(pen, s), rows, text \o s, color)
<1>1. s \in Texts /\ pen \in Pens /\ text \in Seq(DrawnChars)
  <2>1. Chars \subseteq OutputChars
    BY DEF OutputChars
  <2>2. QED
    BY <2>1, SeqMonotonic DEF Texts, Writes, Wrote
<1>2. PICK n \in Nat : n = Len(s)
  BY <1>1
<1>3. PICK f \in [0 .. n -> Pens] :
        /\ sh_draw_string(pen, s) = f[n] /\ f[0] = pen
        /\ \A k \in 1 .. n : f[k] = Draw(f[k - 1], s[k])
  BY <1>1, <1>2, StringDrawn
<1>4. PICK S : S = {k \in Nat : Writes(f[k], rows, text \o SubSeq(s, 1, k), color)}
  OBVIOUS
<1>5. 0 \in S
  <2>1. SubSeq(s, 1, 0) = <<>> /\ text \o <<>> = text
    BY <1>1, ReadUpToEnds, ConcatEmptySeq
  <2>2. QED
    BY <1>3, <1>4, <2>1
<1>6. ASSUME NEW k \in 0 .. n - 1, k \in S PROVE k + 1 \in S
  <2> DEFINE u == SubSeq(s, 1, k)
             c == s[k + 1]
  <2>1. k + 1 \in 1 .. n /\ (k + 1) - 1 = k /\ k + 1 \in Nat /\ k \in 0 .. Len(s) - 1 /\ k \in 0 .. Len(s)
    BY <1>2
  <2>2. SubSeq(s, 1, k + 1) = Append(u, c) /\ u \in Texts /\ c \in Chars
    <3>1. c \in Chars
      BY <1>2, <2>1
    <3>2. QED
      BY <1>1, <2>1, <3>1, ReadOneMore, ReadUpToEnds
  <2>3. c \in DrawnChars /\ c # NewLine
    BY <2>2, ShellAssumption DEF ShellAssumption, DrawnChars, OutputChars
  <2> HIDE DEF u, c
  <2>4. text \o Append(u, c) = Append(text \o u, c)
    <3>1. u \in Seq(DrawnChars) /\ <<c>> \in Seq(DrawnChars)
      <4>1. OutputChars \subseteq DrawnChars
        BY DEF DrawnChars
      <4>2. QED
        BY <2>2, <2>3, <4>1, SeqMonotonic DEF Texts
    <3>2. text \o u \in Seq(DrawnChars)
      BY <1>1, <3>1, ConcatProperties
    <3>3. Append(u, c) = u \o <<c>> /\ Append(text \o u, c) = (text \o u) \o <<c>>
      BY <2>3, <3>1, <3>2, AppendIsConcat
    <3>4. QED
      BY <1>1, <3>1, <3>3, ConcatAssociative
  <2>5. Writes(f[k], rows, text \o u, color)
    BY <1>4, <1>6 DEF u
  <2>6. Writes(Draw(f[k], c), rows, Append(text \o u, c), color)
    BY <2>3, <2>5, WritesChar
  <2>7. f[k + 1] = Draw(f[k], c)
    BY <1>3, <2>1 DEF c
  <2>8. QED
    BY <1>4, <2>1, <2>2, <2>4, <2>6, <2>7
<1>7. n \in S
  <2>1. 0 \in Int /\ n \in Int
    OBVIOUS
  <2>2. \A k \in 0 .. n : k \in S
    BY <1>5, <1>6, <2>1, IntervalInduction, Zenon
  <2>3. QED
    BY <2>2
<1>8. SubSeq(s, 1, n) = s
  BY <1>1, <1>2, ReadUpToEnds
<1>9. QED
  BY <1>3, <1>4, <1>7, <1>8

-----------------------------------------------------------------------------
(***************************************************************************)
(* The rows of several lines.                                              *)
(***************************************************************************)
LEMMA FlattenIs ==
  ASSUME NEW ss \in Seq(CellRows)
  PROVE  \E f \in [0 .. Len(ss) -> CellRows] :
           /\ FlattenSeq(ss) = f[Len(ss)] /\ f[0] = <<>>
           /\ \A k \in 1 .. Len(ss) : f[k] = f[k - 1] \o ss[k]
<1> DEFINE n == Len(ss)
           V == CellRows
           P(f) == f = [i \in 1 .. n |-> IF i = 1 THEN ss[i] ELSE f[i - 1] \o ss[i]]
           loop == CHOOSE f : P(f)
           step == [p \in (1 .. n) \X V |-> p[2] \o ss[p[1]]]
<1>1. n \in Nat /\ (\A k \in 1 .. n : ss[k] \in V) /\ \A k \in 1 .. n : <<>> \o ss[k] = ss[k]
  <2>1. n \in Nat /\ \A k \in 1 .. n : ss[k] \in V
    OBVIOUS
  <2>2. ASSUME NEW k \in 1 .. n PROVE <<>> \o ss[k] = ss[k]
    BY <2>1, ConcatEmptySeq DEF CellRows
  <2>3. QED
    BY <2>1, <2>2
<1>2. PICK a \in V : a = <<>>
  <2>1. <<>> \in CellRows
    BY DEF CellRows
  <2>2. QED
    BY <2>1, Zenon
<1>3. step \in [(1 .. n) \X V -> V]
  <2>1. ASSUME NEW p \in (1 .. n) \X V PROVE p[2] \o ss[p[1]] \in V
    <3>1. p[1] \in 1 .. n /\ p[2] \in V /\ ss[p[1]] \in V
      BY <1>1
    <3>2. QED
      BY <3>1, ConcatProperties DEF CellRows
  <2>2. QED
    BY <2>1
<1>4. PICK g : Recursive(g, n, V, a, step)
  <2> HIDE DEF n, V, step
  <2>1. QED
    BY <1>1, <1>2, <1>3, Recursion
<1>5. \A k \in 1 .. n : g[k] = g[k - 1] \o ss[k]
  <2> TAKE k \in 1 .. n
  <2>1. g[k - 1] \in V /\ g[k] = step[<<k, g[k - 1]>>]
    <3> HIDE DEF V, step
    <3>1. k - 1 \in 0 .. n
      BY <1>1
    <3>2. QED
      BY <1>4, <3>1 DEF Recursive
  <2>2. QED
    BY <2>1
<1>6. g[0] = a /\ g \in [0 .. n -> V] /\ n \in 0 .. n
  BY <1>1, <1>4 DEF Recursive
<1>7. CASE n = 0
  <2>1. ss = <<>> /\ FlattenSeq(ss) = ss
    BY <1>7 DEF FlattenSeq
  <2>2. FlattenSeq(ss) = g[n] /\ g[0] = <<>>
    BY <1>2, <1>6, <1>7, <2>1
  <2>3. QED
    BY <1>5, <1>6, <2>2
<1>8. CASE n # 0
  <2>1. \E h : P(h)
    <3> DEFINE h == [i \in 1 .. n |-> g[i]]
    <3>1. \A i \in 1 .. n : h[i] = IF i = 1 THEN ss[i] ELSE h[i - 1] \o ss[i]
      <4> TAKE i \in 1 .. n
      <4>1. CASE i = 1
        <5>1. h[i] = g[i] /\ g[i] = <<>> \o ss[i]
          BY <1>2, <1>5, <1>6, <4>1
        <5>2. QED
          BY <1>1, <4>1, <5>1
      <4>2. CASE i # 1
        <5>1. i - 1 \in 1 .. n /\ h[i - 1] = g[i - 1] /\ h[i] = g[i]
          BY <1>1, <4>2
        <5>2. QED
          BY <1>5, <4>2, <5>1
      <4>3. QED
        BY <4>1, <4>2
    <3>2. P(h)
      <4>1. h = [i \in 1 .. n |-> h[i]]
        OBVIOUS
      <4> HIDE DEF h
      <4>2. QED
        BY <3>1, <4>1
    <3> HIDE DEF h, P
    <3>3. QED
      BY <3>2
  <2>2. FlattenSeq(ss) = loop[n]
    BY <1>8 DEF FlattenSeq
  <2>3. P(loop)
    BY <2>1
  <2> HIDE DEF loop
  <2>4. \A i \in 1 .. n : loop[i] = IF i = 1 THEN ss[i] ELSE loop[i - 1] \o ss[i]
    BY <2>3
  <2> DEFINE h == [k \in 0 .. n |-> IF k = 0 THEN a ELSE loop[k]]
  <2>5. h[0] = a /\ n \in 0 .. n /\ h[n] = loop[n]
    BY <1>1, <1>8
  <2>6. ASSUME NEW k \in 1 .. n, h[k - 1] \in V PROVE h[k] = step[<<k, h[k - 1]>>]
    <3>1. step[<<k, h[k - 1]>>] = h[k - 1] \o ss[k]
      <4>1. <<k, h[k - 1]>> \in (1 .. n) \X V
        BY <2>6
      <4> HIDE DEF h
      <4>2. QED
        BY <4>1
    <3>2. h[k] = loop[k]
      BY <1>1
    <3>3. CASE k = 1
      <4>1. h[k - 1] = <<>> /\ loop[k] = ss[k]
        BY <1>2, <2>4, <2>5, <3>3
      <4>2. QED
        BY <1>1, <3>1, <3>2, <4>1
    <3>4. CASE k # 1
      <4>1. k - 1 \in 0 .. n /\ k - 1 # 0
        BY <1>1, <3>4
      <4>2. h[k - 1] = loop[k - 1]
        BY <4>1
      <4>3. QED
        BY <2>4, <3>1, <3>2, <3>4, <4>2
    <3>5. QED
      BY <3>3, <3>4
  <2> HIDE DEF h, n, P, V, step
  <2>7. Repeats(h, n, V, a, step)
    BY <2>5, <2>6 DEF Repeats
  <2>8. \A k \in 0 .. n : h[k] = g[k]
    <3>1. BothRepeat(h, g, n, V, a, step)
      BY <1>1, <1>4, <2>7 DEF BothRepeat
    <3>2. QED
      BY <3>1, RecursionIsOne
  <2>9. FlattenSeq(ss) = g[n] /\ g[0] = <<>>
    BY <1>2, <1>6, <2>2, <2>5, <2>8
  <2>10. QED
    BY <1>5, <1>6, <2>9 DEF n, V
<1>9. QED
  BY <1>7, <1>8

LineRows(lines) == FlattenSeq([k \in DOMAIN lines |-> RowsOf(lines[k], YELLOW)])

LEMMA RowsAreCells ==
  ASSUME NEW s \in Texts, NEW color \in {GREEN, YELLOW}
  PROVE  RowsOf(s, color) \in CellRows
<1>1. s \in Seq(DrawnChars)
  <2>1. OutputChars \subseteq DrawnChars
    BY DEF DrawnChars
  <2>2. QED
    BY <2>1, SeqMonotonic DEF Texts
<1>2. FullRows(s, color) \in CellRows /\ LastRow(s, color) \in Seq(ScreenCells)
      /\ RowsOf(s, color) = Append(FullRows(s, color), LastRow(s, color))
  BY <1>1, RowsOfLine
<1>3. QED
  BY <1>2, RowsAppended

LEMMA RowsOfLines ==
  /\ LineRows(<<>>) = <<>>
  /\ \A lines \in Seq(Texts) : LineRows(lines) \in CellRows
  /\ \A lines \in Seq(Texts), text \in Texts :
       LineRows(Append(lines, text)) = LineRows(lines) \o RowsOf(text, YELLOW)
<1> DEFINE RowsFor(t) == [k \in DOMAIN t |-> RowsOf(t[k], YELLOW)]
<1>1. ASSUME NEW lines \in Seq(Texts)
      PROVE  RowsFor(lines) \in Seq(CellRows) /\ Len(RowsFor(lines)) = Len(lines)
             /\ \A k \in 1 .. Len(lines) : RowsFor(lines)[k] = RowsOf(lines[k], YELLOW)
  <2>1. PICK n \in Nat : n = Len(lines) /\ DOMAIN lines = 1 .. n /\ \A k \in 1 .. n : lines[k] \in Texts
    OBVIOUS
  <2>2. RowsFor(lines) \in [1 .. n -> CellRows] /\ \A k \in 1 .. n : RowsFor(lines)[k] = RowsOf(lines[k], YELLOW)
    BY <2>1, RowsAreCells
  <2> DEFINE V == CellRows
  <2> HIDE DEF RowsFor, V
  <2>3. RowsFor(lines) \in [1 .. n -> V]
    BY <2>2 DEF V
  <2>4. RowsFor(lines) \in Seq(V) /\ Len(RowsFor(lines)) = n
    BY <2>3
  <2>5. QED
    BY <2>1, <2>2, <2>4 DEF V
<1>2. LineRows(<<>>) = <<>>
  <2>1. RowsFor(<<>>) = <<>>
    OBVIOUS
  <2>2. FlattenSeq(<<>>) = <<>>
    BY DEF FlattenSeq
  <2>3. QED
    BY <2>1, <2>2 DEF LineRows
<1>3. ASSUME NEW lines \in Seq(Texts)
      PROVE  LineRows(lines) \in CellRows
  <2>1. PICK ss \in Seq(CellRows) : ss = RowsFor(lines)
    BY <1>1
  <2>2. FlattenSeq(ss) \in CellRows
    <3>1. Len(ss) \in 0 .. Len(ss)
      OBVIOUS
    <3>2. QED
      BY <3>1, FlattenIs
  <2>3. QED
    BY <2>1, <2>2 DEF LineRows
<1>4. ASSUME NEW lines \in Seq(Texts), NEW text \in Texts
      PROVE  LineRows(Append(lines, text)) = LineRows(lines) \o RowsOf(text, YELLOW)
  <2> DEFINE n == Len(lines)
             u == Append(lines, text)
  <2>1. u \in Seq(Texts) /\ Len(u) = n + 1 /\ n \in Nat /\ u[n + 1] = text
        /\ \A k \in 1 .. n : u[k] = lines[k]
    BY AppendedAre
  <2> HIDE DEF u, n
  <2>2. PICK ss \in Seq(CellRows) :
          ss = RowsFor(lines) /\ Len(ss) = n /\ \A k \in 1 .. n : ss[k] = RowsOf(lines[k], YELLOW)
    BY <1>1 DEF n
  <2>3. PICK tt \in Seq(CellRows) :
          tt = RowsFor(u) /\ Len(tt) = n + 1 /\ \A k \in 1 .. n + 1 : tt[k] = RowsOf(u[k], YELLOW)
    BY <1>1, <2>1
  <2>4. LineRows(lines) = FlattenSeq(ss) /\ LineRows(u) = FlattenSeq(tt)
    BY <2>2, <2>3 DEF LineRows
  <2> HIDE DEF RowsFor
  <2>5. PICK f \in [0 .. n -> CellRows] :
          FlattenSeq(ss) = f[n] /\ f[0] = <<>> /\ \A k \in 1 .. n : f[k] = f[k - 1] \o ss[k]
    BY <2>2, FlattenIs
  <2>6. PICK g \in [0 .. n + 1 -> CellRows] :
          FlattenSeq(tt) = g[n + 1] /\ g[0] = <<>> /\ \A k \in 1 .. n + 1 : g[k] = g[k - 1] \o tt[k]
    <3>1. PICK m : m = n + 1
      OBVIOUS
    <3>2. Len(tt) = m
      BY <2>3, <3>1
    <3>3. \E g \in [0 .. m -> CellRows] :
            FlattenSeq(tt) = g[m] /\ g[0] = <<>> /\ \A k \in 1 .. m : g[k] = g[k - 1] \o tt[k]
      BY <3>2, FlattenIs
    <3>4. QED
      BY <3>1, <3>3
  <2>7. PICK S : S = {k \in Nat : f[k] = g[k]}
    OBVIOUS
  <2>8. 0 \in S
    BY <2>5, <2>6, <2>7
  <2>9. ASSUME NEW k \in 0 .. n - 1, k \in S PROVE k + 1 \in S
    <3>1. k + 1 \in 1 .. n /\ k + 1 \in 1 .. n + 1 /\ (k + 1) - 1 = k /\ k + 1 \in Nat
      BY <2>1
    <3>2. ss[k + 1] = tt[k + 1]
      BY <2>1, <2>2, <2>3, <3>1
    <3>3. f[k + 1] = f[k] \o ss[k + 1] /\ g[k + 1] = g[k] \o tt[k + 1]
      BY <2>5, <2>6, <3>1
    <3>4. QED
      BY <2>7, <2>9, <3>1, <3>2, <3>3
  <2>10. n \in S
    <3>1. 0 \in Int /\ n \in Int /\ n \in 0 .. n
      BY <2>1
    <3>2. \A k \in 0 .. n : k \in S
      BY <2>8, <2>9, <3>1, IntervalInduction, Zenon
    <3>3. QED
      BY <3>1, <3>2
  <2>11. g[n + 1] = f[n] \o RowsOf(text, YELLOW)
    <3>1. n + 1 \in 1 .. n + 1 /\ (n + 1) - 1 = n
      BY <2>1
    <3>2. g[n + 1] = g[n] \o tt[n + 1] /\ tt[n + 1] = RowsOf(text, YELLOW)
      BY <2>1, <2>3, <2>6, <3>1
    <3>3. QED
      BY <2>7, <2>10, <3>2
  <2>12. QED
    BY <2>4, <2>5, <2>6, <2>11 DEF u
<1>5. QED
  BY <1>2, <1>3, <1>4

LEMMA RowsJoin ==
  ASSUME NEW a \in CellRows, NEW b \in CellRows, NEW c \in CellRows
  PROVE  (a \o b) \o c = a \o (b \o c)
  BY ConcatAssociative DEF CellRows

\* The output, whose lines are drawn below other rows.
LEMMA OutputWritten ==
  ASSUME NEW pen, NEW rows, Writes(pen, rows, <<>>, YELLOW),
         NEW s \in Texts, NEW lines \in Seq(Texts), NEW text \in Texts,
         LinesOf(s) = Append(lines, text)
  PROVE  Writes(sh_draw_string(pen, s), rows \o LineRows(lines), text, YELLOW)
<1>1. pen \in Pens /\ rows \in CellRows
  BY DEF Writes, Wrote
<1>2. PICK n \in Nat : n = Len(s)
  BY DEF Texts
<1>3. PICK f \in [0 .. n -> Pens] :
        /\ sh_draw_string(pen, s) = f[n] /\ f[0] = pen
        /\ \A k \in 1 .. n : f[k] = Draw(f[k - 1], s[k])
  BY <1>1, <1>2, StringDrawn
<1> DEFINE Right(k, ls, l) == LinesOf(SubSeq(s, 1, k)) = Append(ls, l)
                              /\ Writes(f[k], rows \o LineRows(ls), l, YELLOW)
<1>4. PICK S : S = {k \in Nat : \E ls \in Seq(Texts), l \in Texts : Right(k, ls, l)}
  OBVIOUS
<1>5. 0 \in S
  <2>1. SubSeq(s, 1, 0) = <<>> /\ rows \o <<>> = rows
    BY <1>1, ReadUpToEnds, ConcatEmptySeq DEF CellRows
  <2>2. LinesOf(<<>>) = Append(<<>>, <<>>) /\ <<>> \in Seq(Texts) /\ <<>> \in Texts
    BY LinesAppend DEF NoLine, Texts
  <2>3. Right(0, <<>>, <<>>)
    BY <1>3, <2>1, <2>2, RowsOfLines
  <2> HIDE DEF Right
  <2>4. QED
    BY <1>4, <2>2, <2>3
<1>6. ASSUME NEW k \in 0 .. n - 1, k \in S PROVE k + 1 \in S
  <2> DEFINE u == SubSeq(s, 1, k)
             c == s[k + 1]
  <2>1. k + 1 \in 1 .. n /\ (k + 1) - 1 = k /\ k + 1 \in Nat /\ k \in 0 .. Len(s) - 1 /\ k \in 0 .. Len(s)
    BY <1>2
  <2>2. SubSeq(s, 1, k + 1) = Append(u, c) /\ u \in Texts /\ c \in OutputChars
    BY <2>1, ReadOneMore, ReadUpToEnds
  <2>3. PICK ls \in Seq(Texts), l \in Texts : Right(k, ls, l)
    BY <1>4, <1>6
  <2>4. LinesOf(u) = Append(ls, l) /\ Writes(f[k], rows \o LineRows(ls), l, YELLOW)
    BY <2>3
  <2>5. f[k + 1] = Draw(f[k], c)
    BY <1>3, <2>1
  <2>6. LineRows(ls) \in CellRows
    BY RowsOfLines
  <2> HIDE DEF u, c
  <2>7. LinesOf(Append(u, c)) = LinesWith(Append(ls, l), c)
    BY <2>2, <2>4, LinesAppend
  <2>8. CASE c = NewLine
    <3> DEFINE t == Append(ls, l)
    <3>1. t \in Seq(Texts) /\ <<>> \in Texts
      BY AppendedAre DEF Texts
    <3>2. LinesOf(Append(u, c)) = Append(t, <<>>)
      BY <2>7, <2>8 DEF LinesWith
    <3>3. Writes(f[k + 1], (rows \o LineRows(ls)) \o RowsOf(l, YELLOW), <<>>, YELLOW)
      BY <2>4, <2>5, <2>8, WritesNext
    <3>4. (rows \o LineRows(ls)) \o RowsOf(l, YELLOW) = rows \o LineRows(t)
      <4>1. RowsOf(l, YELLOW) \in CellRows
        BY RowsAreCells
      <4>2. (rows \o LineRows(ls)) \o RowsOf(l, YELLOW) = rows \o (LineRows(ls) \o RowsOf(l, YELLOW))
        BY <1>1, <2>6, <4>1, RowsJoin
      <4>3. QED
        BY <4>2, RowsOfLines
    <3> HIDE DEF t
    <3>5. Right(k + 1, t, <<>>)
      BY <2>2, <3>2, <3>3, <3>4
    <3> HIDE DEF Right
    <3>6. QED
      BY <1>4, <2>1, <3>1, <3>5
  <2>9. CASE c # NewLine
    <3> DEFINE m == Append(l, c)
    <3>1. m \in Texts
      BY <2>2, AppendedAre DEF Texts
    <3>2. LinesOf(Append(u, c)) = Append(ls, m)
      BY <2>2, <2>7, <2>9, LastLineWith
    <3>3. Writes(f[k + 1], rows \o LineRows(ls), m, YELLOW)
      BY <2>2, <2>4, <2>5, <2>9, WritesChar DEF DrawnChars
    <3> HIDE DEF m
    <3>4. Right(k + 1, ls, m)
      BY <2>2, <3>2, <3>3
    <3> HIDE DEF Right
    <3>5. QED
      BY <1>4, <2>1, <3>1, <3>4
  <2>10. QED
    BY <2>8, <2>9
<1>7. n \in S
  <2>1. 0 \in Int /\ n \in Int
    OBVIOUS
  <2> HIDE DEF Right
  <2>2. \A k \in 0 .. n : k \in S
    BY <1>5, <1>6, <2>1, IntervalInduction, Zenon
  <2>3. QED
    BY <2>2
<1>8. PICK ls \in Seq(Texts), l \in Texts : Right(n, ls, l)
  BY <1>4, <1>7
<1>9. Append(ls, l) = Append(lines, text)
  BY <1>2, <1>8, ReadUpToEnds
<1>10. ls = lines /\ l = text
  BY <1>9, SameAppended
<1>11. QED
  BY <1>3, <1>8, <1>10

-----------------------------------------------------------------------------
(***************************************************************************)
(* sh_draw.                                                                *)
(***************************************************************************)
\* What the screen shows, of a ring and of an output.
Shows(shown, ring, c, out) ==
  LET last == ring[previous(c)]
      edited == <<">">> \o ring[c]
      rows == (IF last = <<>> THEN <<>> ELSE RowsOf(<<">">> \o last, GREEN))
              \o LineRows(Front(LinesOf(out)))
              \o RowsOf(edited, GREEN)
      cursor == <<Len(edited) % NumCols, Len(rows) - 1>>
  IN
  /\ Len(rows) <= NumRows
  /\ out = <<>> \/ out[Len(out)] = NewLine
  => \A x \in 0 .. NumCols - 1, y \in 0 .. NumRows - 1 :
       LET inside == y < Len(rows) /\ x < Len(rows[y + 1])
       IN shown[At(x, y)] =
            IF <<x, y>> = cursor THEN [char |-> Space, color |-> <<GREEN, BLACK>>]
            ELSE IF inside THEN rows[y + 1][x + 1]
            ELSE Blank[At(x, y)]

Pen(gpu0, row) == [gpu |-> gpu0, col |-> 0, row |-> row]

LEMMA ClearScreen ==
  ASSUME NEW g \in Gpus
  PROVE  LET clear == gpu_set_color(gpu_set_cursor(gpu_clear_screen(g), 0, 0), Foreground(GREEN))
         IN Writes(Pen(clear, 0), <<>>, <<>>, GREEN)
<1> DEFINE a == gpu_clear_screen(g)
           b == gpu_set_cursor(a, 0, 0)
           d == gpu_set_color(b, Foreground(GREEN))
<1>1. Blank \in [Positions -> ScreenCells] /\ \A p \in Positions : Blank[p] = BlankCell
  BY DEF Blank, ScreenCells, Colors, BlankCell
<1>2. a \in Gpus /\ a.draw = Blank
  <2> HIDE DEF Gpus
  <2>1. PICK w : w = Blank
    OBVIOUS
  <2>2. a = [g EXCEPT !.draw = w] /\ w \in [Positions -> ScreenCells]
    BY <1>1, <2>1 DEF gpu_clear_screen
  <2>3. QED
    BY <2>1, <2>2 DEF Gpus
<1> HIDE DEF a
<1>3. OnScreen(0, 0)
  BY ScreenSizes DEF OnScreen
<1>4. b \in Gpus /\ b.draw = Blank /\ b.col = 0 /\ b.row = 0
  <2>1. 0 \in Nat
    OBVIOUS
  <2>2. QED
    BY <1>2, <1>3, <2>1, CursorSet
<1> HIDE DEF b
<1>5. Foreground(GREEN) \in Colors
  BY DEF Foreground, Colors
<1>6. d \in Gpus /\ d.draw = Blank /\ d.col = 0 /\ d.row = 0 /\ d.color = Foreground(GREEN)
  BY <1>4, <1>5 DEF gpu_set_color, Gpus
<1> HIDE DEF d
<1>7. Filled(d, <<>>, <<>>)
  <2>1. ASSUME NEW x \in 0 .. NumCols - 1, NEW y \in 0 .. NumRows - 1
        PROVE  d.draw[At(x, y)] = Cell(<<>>, <<>>, x, y)
    <3>1. At(x, y) \in Positions
      BY PlaceOnScreen
    <3>2. Len(<<>>) = 0 /\ ~ y < 0 /\ ~ x < 0
      OBVIOUS
    <3>3. Cell(<<>>, <<>>, x, y) = BlankCell
      BY <3>2 DEF Cell
    <3>4. QED
      BY <1>1, <1>6, <3>1, <3>3
  <2>2. QED
    BY <2>1 DEF Filled
<1>8. Wrote(Pen(d, 0), <<>>, <<>>, Foreground(GREEN))
  <2>1. Pen(d, 0) \in Pens /\ Pen(d, 0).gpu = d /\ Pen(d, 0).col = 0 /\ Pen(d, 0).row = 0
    BY <1>6 DEF Pen, Pens
  <2>2. <<>> \in CellRows /\ <<>> \in Seq(ScreenCells) /\ Len(<<>>) = 0 /\ 0 < NumCols
    BY ScreenSizes DEF CellRows
  <2>3. QED
    BY <1>6, <1>7, <2>1, <2>2 DEF Wrote
<1>9. <<>> \o <<>> = <<>> /\ <<>> \in CellRows /\ <<>> \in Seq(DrawnChars)
  BY DEF CellRows
<1>10. Writes(Pen(d, 0), <<>>, <<>>, GREEN)
  BY <1>8, <1>9, RowsOfNothing DEF Writes
<1>11. QED
  BY <1>10 DEF d, b, a

\* A command, from the start of a row.
LEMMA CommandDrawn ==
  ASSUME NEW g, NEW row, NEW rows, Writes(Pen(g, row), rows, <<>>, GREEN), NEW s \in Seq(Chars)
  PROVE  Writes(sh_draw_command(g, s, row), rows, <<">">> \o s, GREEN)
<1> DEFINE p == [gpu |-> gpu_draw_char(g, ">"), col |-> 1, row |-> row]
<1>1. ">" # NewLine /\ ">" \in DrawnChars
  BY ShellAssumption DEF ShellAssumption, DrawnChars
<1>2. Draw(Pen(g, row), ">") = p
  <2>1. 0 + 1 = 1 /\ 1 # NumCols
    BY ScreenSizes
  <2>2. QED
    BY <1>1, <2>1 DEF Draw, Pen
<1>3. Append(<<>>, ">") = <<">">>
  OBVIOUS
<1>4. Writes(p, rows, <<">">>, GREEN)
  BY <1>1, <1>2, <1>3, WritesChar
<1> HIDE DEF p
<1>5. Writes(sh_draw_string(p, s), rows, <<">">> \o s, GREEN)
  BY <1>4, CommandWritten
<1>6. QED
  BY <1>5 DEF sh_draw_command, p

\* The cursor is put where it is.
LEMMA CursorAgain ==
  ASSUME NEW pen, NEW rows, NEW color, Writes(pen, rows, <<>>, color)
  PROVE  Writes(Pen(gpu_set_cursor(pen.gpu, 0, pen.row), pen.row), rows, <<>>, color)
<1> DEFINE g == gpu_set_cursor(pen.gpu, 0, pen.row)
           q == Pen(g, pen.row)
<1>1. /\ rows \in CellRows /\ color \in {GREEN, YELLOW} /\ <<>> \in Seq(DrawnChars)
      /\ FullRows(<<>>, color) = <<>> /\ LastRow(<<>>, color) = <<>>
      /\ Wrote(pen, rows \o <<>>, <<>>, Foreground(color))
  <2>1. rows \in CellRows /\ color \in {GREEN, YELLOW} /\ <<>> \in Seq(DrawnChars)
        /\ Wrote(pen, rows \o FullRows(<<>>, color), LastRow(<<>>, color), Foreground(color))
    BY DEF Writes
  <2>2. QED
    BY <2>1, RowsOfNothing
<1>2. PICK full : full = rows \o <<>>
  OBVIOUS
<1>3. /\ pen \in Pens /\ pen.gpu.color = Foreground(color)
      /\ full \in CellRows /\ Len(full) \in Nat /\ pen.col = 0 /\ pen.row = Len(full)
      /\ Len(full) < NumRows =>
           pen.gpu.col = pen.col /\ pen.gpu.row = pen.row /\ Filled(pen.gpu, full, <<>>)
      /\ <<>> \in Seq(ScreenCells) /\ Len(<<>>) = 0 /\ 0 < NumCols
  BY <1>1, <1>2, ScreenSizes DEF Wrote, CellRows
<1>4. pen.gpu \in Gpus /\ pen.row \in Nat /\ 0 \in Nat
  BY <1>3 DEF Pens
<1>5. g \in Gpus /\ g.draw = pen.gpu.draw /\ g.color = pen.gpu.color
      /\ (OnScreen(0, pen.row) => g.col = 0 /\ g.row = pen.row)
  <2>1. PICK r \in Nat : r = pen.row
    BY <1>4
  <2>2. PICK gg \in Gpus : gg = pen.gpu
    BY <1>4
  <2>3. gpu_set_cursor(gg, 0, r) \in Gpus /\ gpu_set_cursor(gg, 0, r).draw = gg.draw
        /\ gpu_set_cursor(gg, 0, r).color = gg.color
        /\ (OnScreen(0, r) => gpu_set_cursor(gg, 0, r).col = 0 /\ gpu_set_cursor(gg, 0, r).row = r)
    BY <1>4, CursorSet
  <2>4. QED
    BY <2>1, <2>2, <2>3
<1> HIDE DEF g
<1>6. q \in Pens /\ q.gpu = g /\ q.col = 0 /\ q.row = pen.row
  BY <1>4, <1>5 DEF Pen, Pens
<1> HIDE DEF q
<1>7. ASSUME Len(full) < NumRows
      PROVE  g.col = 0 /\ g.row = pen.row /\ Filled(g, full, <<>>)
  <2>1. OnScreen(0, pen.row)
    BY <1>3, <1>4, <1>7, ScreenSizes DEF OnScreen
  <2>2. QED
    BY <1>3, <1>5, <1>7, <2>1 DEF Filled
<1>8. Wrote(q, full, <<>>, Foreground(color))
  BY <1>3, <1>5, <1>6, <1>7 DEF Wrote
<1>9. Writes(q, rows, <<>>, color)
  BY <1>1, <1>2, <1>8 DEF Writes
<1>10. QED
  BY <1>9 DEF q, g

LEMMA ColorSet ==
  ASSUME NEW g \in Gpus, NEW color \in {GREEN, YELLOW}
  PROVE  gpu_set_color(g, Foreground(color)) \in Gpus
<1>1. Foreground(color) \in Colors
  BY DEF Foreground, Colors
<1>2. QED
  BY <1>1 DEF gpu_set_color, Gpus

LEMMA CursorDrawn ==
  ASSUME NEW g \in Gpus, NEW x \in Nat, NEW y \in Nat
  PROVE  LET h == gpu_switch_buffer(gpu_draw_cursor(g, x, y)) IN
         /\ h \in Gpus
         /\ OnScreen(x, y) =>
              \A p \in Positions :
                h.shown[p] = IF p = At(x, y)
                               THEN [char |-> g.draw[p].char, color |-> <<g.color[2], g.color[1]>>]
                             ELSE g.draw[p]
<1> DEFINE n == gpu_draw_cursor(g, x, y)
           p0 == At(x, y)
           z == <<g.color[2], g.color[1]>>
<1>1. g.color \in Colors /\ g.draw \in [Positions -> ScreenCells]
  BY DEF Gpus
<1>2. n \in Gpus /\ (OnScreen(x, y) => \A p \in Positions :
        n.draw[p] = IF p = p0 THEN [char |-> g.draw[p].char, color |-> z] ELSE g.draw[p])
  <2>1. CASE OnScreen(x, y)
    <3>1. p0 \in Positions
      BY <2>1, PlaceOnScreen DEF OnScreen
    <3>2. z \in Colors
      BY <1>1 DEF Colors
    <3> DEFINE w == [g.draw[p0] EXCEPT !.color = z]
               d == [g.draw EXCEPT ![p0] = w]
    <3>3. w \in ScreenCells /\ w = [char |-> g.draw[p0].char, color |-> z]
      <4>1. g.draw[p0] \in ScreenCells
        BY <1>1, <3>1
      <4> HIDE DEF z
      <4>2. QED
        BY <3>2, <4>1 DEF ScreenCells
    <3>4. n = [g EXCEPT !.draw = d]
      <4>1. n = [g EXCEPT !.draw[p0].color = z]
        BY <2>1 DEF gpu_draw_cursor
      <4> HIDE DEF z, p0
      <4>2. [g EXCEPT !.draw[p0].color = z] = [g EXCEPT !.draw = [g.draw EXCEPT ![p0] = [g.draw[p0] EXCEPT !.color = z]]]
        OBVIOUS
      <4>3. QED
        BY <4>1, <4>2
    <3> HIDE DEF n, w, z, p0
    <3>5. d \in [Positions -> ScreenCells] /\ \A p \in Positions : d[p] = IF p = p0 THEN w ELSE g.draw[p]
      BY <1>1, <3>1, <3>3
    <3> HIDE DEF d
    <3>6. n \in Gpus /\ n.draw = d
      BY <3>4, <3>5 DEF Gpus
    <3>7. QED
      BY <3>3, <3>5, <3>6
  <2>2. CASE ~ OnScreen(x, y)
    BY <2>2 DEF gpu_draw_cursor
  <2>3. QED
    BY <2>1, <2>2
<1> HIDE DEF n, z, p0
<1>3. gpu_switch_buffer(n) \in Gpus /\ gpu_switch_buffer(n).shown = n.draw
  BY <1>2 DEF gpu_switch_buffer, Gpus
<1>4. QED
  BY <1>2, <1>3 DEF n, z, p0

LEMMA ShellDrawn ==
  ASSUME NEW g \in Gpus, NEW ring \in Lines, NEW c \in Ring, NEW out \in Texts
  PROVE  sh_draw(g, ring, c, out) \in Gpus /\ Shows(sh_draw(g, ring, c, out).shown, ring, c, out)
<1> DEFINE clear == gpu_set_color(gpu_set_cursor(gpu_clear_screen(g), 0, 0), Foreground(GREEN))
           last == ring[previous(c)]
           q1 == sh_draw_command(clear, last, 0)
           first == IF last = <<>> THEN [gpu |-> clear, row |-> 0]
                    ELSE [gpu |-> gpu_set_cursor(q1.gpu, 0, q1.row + 1), row |-> q1.row + 1]
           yellow == gpu_set_color(first.gpu, Foreground(YELLOW))
           q2 == sh_draw_string(Pen(yellow, first.row), out)
           second == IF out = <<>> THEN first
                     ELSE [gpu |-> gpu_set_color(gpu_set_cursor(q2.gpu, 0, q2.row), Foreground(GREEN)),
                           row |-> q2.row]
           third == sh_draw_command(second.gpu, ring[c], second.row)
           drawn == gpu_switch_buffer(gpu_draw_cursor(third.gpu, third.col, third.row))
           R1 == IF last = <<>> THEN <<>> ELSE RowsOf(<<">">> \o last, GREEN)
           R2 == R1 \o LineRows(Front(LinesOf(out)))
           edited == <<">">> \o ring[c]
           rows == R2 \o RowsOf(edited, GREEN)
           ends == out = <<>> \/ out[Len(out)] = NewLine
<1>1. sh_draw(g, ring, c, out) = drawn
  BY DEF sh_draw, Pen
<1>2. last \in Seq(Chars) /\ ring[c] \in Seq(Chars)
  <2>1. previous(c) \in Ring
    <3>1. NumCommands - 1 \in 0 .. NumCommands - 1
      BY ShellAssumption DEF ShellAssumption
    <3>2. QED
      BY <3>1, Places
  <2>2. QED
    BY <2>1 DEF Lines
<1>3. Writes(Pen(clear, 0), <<>>, <<>>, GREEN)
  BY ClearScreen
<1> HIDE DEF clear, last
<1>4. Writes(Pen(first.gpu, first.row), R1, <<>>, GREEN)
  <2>1. CASE last = <<>>
    BY <1>3, <2>1
  <2>2. CASE last # <<>>
    <3>1. Writes(q1, <<>>, <<">">> \o last, GREEN)
      BY <1>2, <1>3, CommandDrawn
    <3> HIDE DEF q1
    <3>2. Writes(Down(q1), <<>> \o RowsOf(<<">">> \o last, GREEN), <<>>, GREEN)
      BY <3>1, WritesNext
    <3>3. <<>> \o RowsOf(<<">">> \o last, GREEN) = RowsOf(<<">">> \o last, GREEN)
      <4> DEFINE s == <<">">> \o last
      <4>1. s \in Seq(DrawnChars)
        BY <3>1 DEF Writes
      <4> HIDE DEF s
      <4>2. FullRows(s, GREEN) \in CellRows /\ LastRow(s, GREEN) \in Seq(ScreenCells)
            /\ RowsOf(s, GREEN) = Append(FullRows(s, GREEN), LastRow(s, GREEN))
        BY <4>1, RowsOfLine
      <4>3. RowsOf(s, GREEN) \in CellRows
        BY <4>2, RowsAppended
      <4>4. <<>> \o RowsOf(s, GREEN) = RowsOf(s, GREEN)
        BY <4>3, ConcatEmptySeq DEF CellRows
      <4>5. QED
        BY <4>4 DEF s
    <3>4. Pen(first.gpu, first.row) = Down(q1) /\ R1 = RowsOf(<<">">> \o last, GREEN)
      BY <2>2 DEF Pen, Down
    <3>5. QED
      BY <3>2, <3>3, <3>4
  <2>3. QED
    BY <2>1, <2>2
<1>5. R1 \in CellRows /\ first.gpu \in Gpus /\ first.row \in Nat
  <2> HIDE DEF first, R1
  <2>1. Pen(first.gpu, first.row) \in Pens /\ R1 \in CellRows
    BY <1>4 DEF Writes, Wrote
  <2>2. QED
    BY <2>1 DEF Pens, Pen
<1> HIDE DEF first, R1
<1>6. Writes(Pen(yellow, first.row), R1, <<>>, YELLOW)
  <2>1. Writes([Pen(first.gpu, first.row) EXCEPT !.gpu = gpu_set_color(Pen(first.gpu, first.row).gpu, Foreground(YELLOW))],
               R1, <<>>, YELLOW)
    BY <1>4, WritesColor
  <2>2. [Pen(first.gpu, first.row) EXCEPT !.gpu = gpu_set_color(Pen(first.gpu, first.row).gpu, Foreground(YELLOW))]
        = Pen(yellow, first.row)
    BY DEF Pen
  <2>3. QED
    BY <2>1, <2>2
<1>7. yellow \in Gpus /\ Pen(yellow, first.row) \in Pens
  <2>1. yellow \in Gpus
    BY <1>5, ColorSet
  <2> HIDE DEF yellow
  <2>2. QED
    BY <1>5, <2>1 DEF Pen, Pens
<1> HIDE DEF yellow
<1>8. q2 \in Pens
  <2>1. Len(out) \in 0 .. Len(out)
    BY DEF Texts
  <2>2. QED
    BY <1>7, <2>1, StringDrawn
<1>9. ASSUME ends
      PROVE  Writes(Pen(second.gpu, second.row), R2, <<>>, GREEN)
  <2>1. PICK lines \in Seq(Texts), text \in Texts : LinesOf(out) = Append(lines, text)
    <3>1. LinesOf(out) \in Seq(Texts) /\ LinesOf(out) # <<>>
      BY LinesAppend DEF TextLines
    <3>2. SubSeq(LinesOf(out), 1, Len(LinesOf(out)) - 1) \in Seq(Texts)
          /\ LinesOf(out)[Len(LinesOf(out))] \in Texts
          /\ LinesOf(out) = Append(SubSeq(LinesOf(out), 1, Len(LinesOf(out)) - 1),
                                   LinesOf(out)[Len(LinesOf(out))])
      BY <3>1, LastLine
    <3>3. QED
      BY <3>2
  <2>2. Front(LinesOf(out)) = lines
    <3> DEFINE t == Append(lines, text)
    <3>1. t \in Seq(Texts) /\ t # <<>>
      BY AppendProperties
    <3>2. SubSeq(t, 1, Len(t) - 1) \in Seq(Texts) /\ t[Len(t)] \in Texts
          /\ t = Append(SubSeq(t, 1, Len(t) - 1), t[Len(t)])
      BY <3>1, LastLine
    <3>3. Front(t) = SubSeq(t, 1, Len(t) - 1)
      BY DEF Front
    <3>4. PICK u \in Seq(Texts), v \in Texts : u = SubSeq(t, 1, Len(t) - 1) /\ v = t[Len(t)]
      BY <3>2
    <3>5. Append(u, v) = Append(lines, text)
      BY <3>2, <3>4
    <3>6. u = lines
      BY <3>5, SameAppended
    <3>7. QED
      BY <2>1, <3>3, <3>4, <3>6
  <2>3. text = <<>>
    <3>1. CASE out = <<>>
      <4>1. <<>> \in Seq(Texts) /\ <<>> \in Texts
        BY EmptySeq DEF Texts
      <4> PICK u : u = <<>>
        OBVIOUS
      <4> DEFINE v == u
      <4>0. u = <<>> /\ v = <<>> /\ u \in Seq(Texts) /\ v \in Texts
        BY <4>1
      <4> HIDE DEF v
      <4>2. LinesOf(out) = Append(<<>>, <<>>)
        BY <3>1, LinesAppend DEF NoLine
      <4>3. Append(u, v) = Append(lines, text)
        BY <2>1, <4>0, <4>2
      <4>4. v = text
        BY <2>1, <4>0, <4>3, SameAppended
      <4>5. QED
        BY <4>0, <4>4
    <3>2. CASE out # <<>>
      <4>1. out[Len(out)] = NewLine
        BY <1>9, <3>2
      <4>2. text # <<>> => out # <<>> /\ out[Len(out)] # NewLine
        BY <2>1, TextEnds, Zenon
      <4>3. QED
        BY <4>1, <4>2
    <3>3. QED
      BY <3>1, <3>2
  <2>4. CASE out = <<>>
    <3>1. lines = <<>>
      <4>1. <<>> \in Seq(Texts) /\ <<>> \in Texts
        BY EmptySeq DEF Texts
      <4> PICK u : u = <<>>
        OBVIOUS
      <4> DEFINE v == u
      <4>0. u = <<>> /\ v = <<>> /\ u \in Seq(Texts) /\ v \in Texts
        BY <4>1
      <4> HIDE DEF v
      <4>2. LinesOf(out) = Append(<<>>, <<>>)
        BY <2>4, LinesAppend DEF NoLine
      <4>3. Append(u, v) = Append(lines, text)
        BY <2>1, <4>0, <4>2
      <4>4. u = lines
        BY <2>1, <4>0, <4>3, SameAppended
      <4>5. QED
        BY <4>0, <4>4
    <3>2. R2 = R1 /\ second = first
      <4>1. R1 \o <<>> = R1
        BY <1>5, ConcatEmptySeq DEF CellRows
      <4>2. R2 = R1 \o <<>>
        BY <2>2, <3>1, RowsOfLines
      <4>3. QED
        BY <2>4, <4>1, <4>2
    <3>3. QED
      BY <1>4, <3>2
  <2>5. CASE out # <<>>
    <3>1. Writes(q2, R2, <<>>, YELLOW)
      <4>1. Writes(q2, R1 \o LineRows(lines), text, YELLOW)
        BY <1>6, <2>1, OutputWritten
      <4>2. QED
        BY <2>2, <2>3, <4>1
    <3> DEFINE h == gpu_set_cursor(q2.gpu, 0, q2.row)
    <3> HIDE DEF q2, R2
    <3>2. Writes(Pen(h, q2.row), R2, <<>>, YELLOW)
      BY <3>1, CursorAgain
    <3>3. second.gpu = gpu_set_color(h, Foreground(GREEN)) /\ second.row = q2.row
      BY <2>5
    <3> HIDE DEF h
    <3>4. Writes([Pen(h, q2.row) EXCEPT !.gpu = gpu_set_color(Pen(h, q2.row).gpu, Foreground(GREEN))],
                 R2, <<>>, GREEN)
      BY <3>2, WritesColor
    <3>5. [Pen(h, q2.row) EXCEPT !.gpu = gpu_set_color(Pen(h, q2.row).gpu, Foreground(GREEN))]
          = Pen(second.gpu, second.row)
      BY <3>3 DEF Pen
    <3>6. QED
      BY <3>4, <3>5
  <2>6. QED
    BY <2>4, <2>5
<1>10. second.gpu \in Gpus /\ second.row \in Nat
  <2> HIDE DEF q2
  <2>1. q2.gpu \in Gpus /\ q2.row \in Nat /\ 0 \in Nat
    BY <1>8 DEF Pens
  <2>2. gpu_set_cursor(q2.gpu, 0, q2.row) \in Gpus
    BY <2>1, CursorSet
  <2>3. gpu_set_color(gpu_set_cursor(q2.gpu, 0, q2.row), Foreground(GREEN)) \in Gpus
    BY <2>2, ColorSet
  <2>4. QED
    BY <1>5, <2>1, <2>3
<1> HIDE DEF second, R2
<1>11. third \in Pens
  <2>1. gpu_draw_char(second.gpu, ">") \in Gpus
    BY <1>10, CharDrawn
  <2>2. PICK p : p = [gpu |-> gpu_draw_char(second.gpu, ">"), col |-> 1, row |-> second.row]
    OBVIOUS
  <2>3. p \in Pens
    BY <1>10, <2>1, <2>2 DEF Pens
  <2>4. ring[c] \in Texts
    <3>1. Chars \subseteq OutputChars
      BY DEF OutputChars
    <3>2. QED
      BY <1>2, <3>1, SeqMonotonic DEF Texts
  <2>5. third = sh_draw_string(p, ring[c])
    BY <2>2 DEF sh_draw_command
  <2>6. Len(ring[c]) \in 0 .. Len(ring[c])
    BY <2>4 DEF Texts
  <2>7. QED
    BY <2>3, <2>4, <2>5, <2>6, StringDrawn
<1>12. third.gpu \in Gpus /\ third.col \in Nat /\ third.row \in Nat
  <2> HIDE DEF third
  <2>1. QED
    BY <1>11 DEF Pens
<1>13. ends => Writes(third, R2, edited, GREEN)
  BY <1>2, <1>9, CommandDrawn
<1> HIDE DEF third
<1>14. drawn \in Gpus
  BY <1>12, CursorDrawn
<1>15. ASSUME ends, Len(rows) <= NumRows,
              NEW x \in 0 .. NumCols - 1, NEW y \in 0 .. NumRows - 1
       PROVE  drawn.shown[At(x, y)] =
                IF <<x, y>> = <<Len(edited) % NumCols, Len(rows) - 1>>
                  THEN [char |-> Space, color |-> <<GREEN, BLACK>>]
                ELSE IF y < Len(rows) /\ x < Len(rows[y + 1]) THEN rows[y + 1][x + 1]
                ELSE Blank[At(x, y)]
  <2> DEFINE F == FullRows(edited, GREEN)
             L == LastRow(edited, GREEN)
             full == R2 \o F
  <2>1. R2 \in CellRows /\ edited \in Seq(DrawnChars) /\ Wrote(third, full, L, Foreground(GREEN))
    BY <1>13, <1>15 DEF Writes
  <2>2. F \in CellRows /\ L \in Seq(ScreenCells) /\ Len(L) = Len(edited) % NumCols
        /\ Len(L) < NumCols /\ RowsOf(edited, GREEN) = Append(F, L)
    BY <2>1, RowsOfLine
  <2> HIDE DEF edited, F, L
  <2>3. full \in CellRows /\ rows = Append(full, L)
    BY <2>1, <2>2, RowsAppended
  <2> HIDE DEF full, rows
  <2>4. Len(rows) = Len(full) + 1 /\ Len(full) \in Nat /\ rows[Len(full) + 1] = L
        /\ \A i \in 1 .. Len(full) : rows[i] = full[i]
    BY <2>2, <2>3, AppendedAre DEF CellRows
  <2>5. Len(full) < NumRows /\ Len(L) \in Nat
    BY <1>15, <2>2, <2>4, ScreenSizes
  <2>6. Filled(third.gpu, full, L) /\ third.col = Len(L) /\ third.row = Len(full)
        /\ third.gpu.color = Foreground(GREEN)
    BY <2>1, <2>5 DEF Wrote
  <2>7. OnScreen(third.col, third.row)
    BY <2>2, <2>4, <2>5, <2>6, ScreenSizes DEF OnScreen
  <2>8. At(x, y) \in Positions
        /\ (At(x, y) = At(third.col, third.row) <=> x = Len(L) /\ y = Len(full))
    <3>1. At(x, y) \in Positions /\ At(x, y) % NumCols = x /\ At(x, y) \div NumCols = y
      BY PlaceOnScreen
    <3>2. At(third.col, third.row) % NumCols = third.col /\ At(third.col, third.row) \div NumCols = third.row
      BY <2>7, PlaceOnScreen DEF OnScreen
    <3>3. QED
      BY <2>6, <3>1, <3>2
  <2>9. third.gpu.draw[At(x, y)] = Cell(full, L, x, y)
    BY <2>6 DEF Filled
  <2>10. drawn.shown[At(x, y)] =
           IF x = Len(L) /\ y = Len(full)
             THEN [char |-> third.gpu.draw[At(x, y)].char,
                   color |-> <<third.gpu.color[2], third.gpu.color[1]>>]
           ELSE third.gpu.draw[At(x, y)]
    <3>1. \A p \in Positions :
            drawn.shown[p] =
              IF p = At(third.col, third.row)
                THEN [char |-> third.gpu.draw[p].char,
                      color |-> <<third.gpu.color[2], third.gpu.color[1]>>]
              ELSE third.gpu.draw[p]
      BY <1>12, <2>7, CursorDrawn
    <3> HIDE DEF drawn
    <3>2. QED
      BY <2>8, <3>1
  <2> HIDE DEF drawn
  <2>11. CASE x = Len(L) /\ y = Len(full)
    <3>1. Cell(full, L, x, y) = BlankCell
      BY <2>4, <2>5, <2>11 DEF Cell
    <3>2. <<third.gpu.color[2], third.gpu.color[1]>> = <<GREEN, BLACK>>
      BY <2>6 DEF Foreground
    <3>3. BlankCell.char = Space
      BY DEF BlankCell
    <3>4. drawn.shown[At(x, y)] = [char |-> Space, color |-> <<GREEN, BLACK>>]
      BY <2>9, <2>10, <2>11, <3>1, <3>2, <3>3
    <3>5. x = Len(edited) % NumCols /\ y = Len(rows) - 1
      BY <2>2, <2>4, <2>11
    <3>6. QED
      BY <3>4, <3>5
  <2>12. CASE ~ (x = Len(L) /\ y = Len(full))
    <3>1. drawn.shown[At(x, y)] = Cell(full, L, x, y)
      BY <2>9, <2>10, <2>12
    <3>2. Cell(full, L, x, y)
          = IF y < Len(rows) /\ x < Len(rows[y + 1]) THEN rows[y + 1][x + 1] ELSE BlankCell
      <4>1. CASE y < Len(full)
        <5>1. y + 1 \in 1 .. Len(full) /\ y < Len(rows)
          BY <2>4, <4>1
        <5>2. rows[y + 1] = full[y + 1]
          BY <2>4, <5>1
        <5>3. QED
          BY <4>1, <5>1, <5>2 DEF Cell
      <4>2. CASE y = Len(full)
        <5>1. ~ y < Len(full) /\ y < Len(rows) /\ rows[y + 1] = L
          BY <2>4, <4>2
        <5>2. QED
          BY <4>2, <5>1 DEF Cell
      <4>3. CASE y > Len(full)
        <5>1. ~ y < Len(full) /\ y # Len(full) /\ ~ y < Len(rows)
          BY <2>4, <4>3
        <5>2. QED
          BY <5>1 DEF Cell
      <4>4. QED
        BY <2>4, <4>1, <4>2, <4>3
    <3>3. Blank[At(x, y)] = BlankCell
      BY <2>8 DEF Blank, BlankCell
    <3>4. ~ (x = Len(edited) % NumCols /\ y = Len(rows) - 1)
      BY <2>2, <2>4, <2>12
    <3>5. QED
      BY <3>1, <3>2, <3>3, <3>4
  <2>13. QED
    BY <2>11, <2>12
<1> HIDE DEF drawn
<1>16. Shows(drawn.shown, ring, c, out)
  BY <1>15 DEF Shows, R2, R1, last
<1>17. QED
  BY <1>1, <1>14, <1>16

-----------------------------------------------------------------------------
(***************************************************************************)
(* What the screen of the command line shows, after each key.              *)
(***************************************************************************)
ShellDrawing == gpu \in Gpus /\ (mode = "edit" => Shows(gpu.shown, commands, current, output))

LEMMA DrawnByProgram ==
  ASSUME gpu \in Gpus, NEW g \in Drawn
  PROVE  g \in Gpus
<1>1. CASE g = gpu
  BY <1>1
<1>2. CASE g # gpu
  <2> DEFINE ch == CHOOSE c \in Chars : TRUE
             cell == [gpu.draw[0] EXCEPT !.char = ch]
             draw == [gpu.draw EXCEPT ![0] = cell]
  <2>1. g = [gpu EXCEPT !.col = NumCols - 1, !.row = NumRows - 1,
                        !.color = Foreground(YELLOW), !.draw = draw]
    BY <1>2 DEF Drawn, Gpus
  <2>2. ch \in OutputChars
    BY ShellAssumption DEF ShellAssumption, OutputChars
  <2>3. 0 \in Positions
    <3>1. 0 \in 0 .. NumCols - 1 /\ 0 \in 0 .. NumRows - 1 /\ At(0, 0) = 0
      BY ScreenSizes DEF At
    <3>2. QED
      BY <3>1, PlaceOnScreen
  <2> HIDE DEF ch
  <2>4. cell \in ScreenCells
    BY <2>2, <2>3 DEF Gpus, ScreenCells
  <2> HIDE DEF cell
  <2>5. draw \in [Positions -> ScreenCells]
    BY <2>4 DEF Gpus
  <2> HIDE DEF draw
  <2>6. Foreground(YELLOW) \in Colors
    BY DEF Foreground, Colors
  <2>7. NumCols - 1 \in 0 .. NumCols - 1 /\ NumRows - 1 \in 0 .. NumRows - 1
    BY ScreenSizes
  <2>8. QED
    BY <2>1, <2>5, <2>6, <2>7 DEF Gpus
<1>3. QED
  BY <1>1, <1>2

LEMMA DrawingStart ==
  ASSUME Init
  PROVE  ShellDrawing
<1>1. BlankCell \in ScreenCells
  BY DEF BlankCell, ScreenCells, Colors
<1>2. Blank \in [Positions -> ScreenCells]
  BY <1>1 DEF Blank, BlankCell
<1>3. 0 \in 0 .. NumCols - 1 /\ 0 \in 0 .. NumRows - 1 /\ Foreground(GREEN) \in Colors
  BY ScreenSizes DEF Foreground, Colors
<1>4. gpu \in Gpus
  BY <1>2, <1>3 DEF Init, gpu_new, Gpus
<1>5. QED
  BY <1>4 DEF Init, ShellDrawing

\* After each key the screen is drawn again, in the state the key leaves.
LEMMA KeyDraws ==
  ASSUME gpu \in Gpus, ShellTypeOK', NEW ring, NEW c, NEW h, NEW out, NEW g \in Drawn,
         Show(ring, c, h, g, out)
  PROVE  ShellDrawing'
<1>1. commands' = ring /\ current' = c /\ output' = out /\ gpu' = sh_draw(g, ring, c, out)
  BY DEF Show
<1>2. ring \in Lines /\ c \in Ring /\ out \in Texts
  BY <1>1 DEF ShellTypeOK, Lines, Texts
<1>3. g \in Gpus
  BY DrawnByProgram
<1>4. gpu' \in Gpus /\ Shows(gpu'.shown, ring, c, out)
  BY <1>1, <1>2, <1>3, ShellDrawn
<1>5. QED
  BY <1>1, <1>4 DEF ShellDrawing

LEMMA DrawingKept ==
  ASSUME ShellTypeOK, ShellTypeOK', ShellDrawing, [Next]_vars
  PROVE  ShellDrawing'
<1>1. gpu \in Gpus /\ gpu \in Drawn
  BY DEF ShellDrawing, Drawn
<1>2. CASE StartEditor
  BY <1>1, <1>2, KeyDraws DEF StartEditor
<1>3. CASE EnterKey
  BY <1>1, <1>3, KeyDraws DEF EnterKey
<1>4. ASSUME NEW s, NEW h, Edit(s, h)
      PROVE  ShellDrawing'
  BY <1>1, <1>4, KeyDraws DEF Edit
<1>5. CASE ArrowUp
  BY <1>4, <1>5 DEF ArrowUp
<1>6. CASE ArrowDown
  BY <1>4, <1>6 DEF ArrowDown
<1>7. CASE Backspace
  BY <1>4, <1>7 DEF Backspace
<1>8. CASE \E c \in Chars : Insert(c)
  BY <1>4, <1>8 DEF Insert
<1>9. ASSUME gpu' = gpu, mode' # "edit"
      PROVE  ShellDrawing'
  BY <1>1, <1>9 DEF ShellDrawing
<1>10. CASE Escape
  BY <1>9, <1>10 DEF Escape
<1>11. CASE StartScript
  BY <1>9, <1>11 DEF StartScript
<1>12. CASE ReadEnd
  BY <1>9, <1>12 DEF ReadEnd, Reading
<1>13. CASE ReadNewLine
  BY <1>9, <1>13 DEF ReadNewLine, Reading
<1>14. CASE ReadChar
  BY <1>9, <1>14 DEF ReadChar, Reading
<1>15. CASE UNCHANGED vars
  BY <1>15 DEF ShellDrawing, vars
<1>16. QED
  BY <1>2, <1>3, <1>5, <1>6, <1>7, <1>8, <1>10, <1>11, <1>12, <1>13, <1>14, <1>15 DEF Next

\* The rows of the output are those of its lines, but the last one.
LEMMA RowsOfOutput ==
  ASSUME NEW t \in Seq(Texts), t # <<>>
  PROVE  LineRows(Front(t)) = FlattenSeq([k \in DOMAIN Front(t) |-> RowsOf(t[k], YELLOW)])
<1>1. Front(t) = SubSeq(t, 1, Len(t) - 1)
  BY DEF Front
<1>2. Len(t) \in Nat \ {0} /\ t = Append(SubSeq(t, 1, Len(t) - 1), t[Len(t)])
      /\ SubSeq(t, 1, Len(t) - 1) \in Seq(Texts) /\ t[Len(t)] \in Texts
  BY LastLine
<1> DEFINE u == SubSeq(t, 1, Len(t) - 1)
           x == t[Len(t)]
<1>3. u \in Seq(Texts) /\ x \in Texts /\ t = Append(u, x) /\ Front(t) = u
  BY <1>1, <1>2
<1> HIDE DEF u, x
<1>4. \A k \in DOMAIN u : t[k] = u[k]
  BY <1>3, AppendProperties
<1>5. [k \in DOMAIN u |-> RowsOf(u[k], YELLOW)] = [k \in DOMAIN u |-> RowsOf(t[k], YELLOW)]
  BY <1>4
<1>6. QED
  BY <1>3, <1>5 DEF LineRows

-----------------------------------------------------------------------------
(***************************************************************************)
(* The theorems.                                                           *)
(***************************************************************************)

\* The lines are texts of their buffers, the places first, last and current are
\* in the ring of sh_new, and what is printed fits in the output buffer, however
\* many keys and commands there are.
THEOREM ShellTypes == Spec => []ShellTypeOK
<1>1. Init => ShellTypeOK
  BY ShellTypesStart
<1>2. ShellTypeOK /\ [Next]_vars => ShellTypeOK'
  BY ShellTypesKept
<1>3. QED
  BY <1>1, <1>2, PTL DEF Spec

(***************************************************************************)
(* What commands print ends with the end of a line, unless the output      *)
(* buffer is full: sh_run looks at what was printed last, by the program   *)
(* or by the shell.                                                        *)
(***************************************************************************)
THEOREM OutputStaysEnded == Spec => []OutputEndsLine
<1>1. Init => ShellTypeOK /\ OutputEndsLine
  BY ShellTypesStart, OutputStart
<1>2. ShellTypeOK /\ OutputEndsLine /\ [Next]_vars => (ShellTypeOK /\ OutputEndsLine)'
  BY ShellTypesKept, OutputKept
<1>3. QED
  BY <1>1, <1>2, PTL DEF Spec

(***************************************************************************)
(* The ring of sh_run_editor is the history of ShellHistory: a key of the  *)
(* command line is a step of it, and nothing else changes what it shows.   *)
(***************************************************************************)
THEOREM ShellKeepsHistory == Spec => HistorySpec
<1>1. Init => Line!Init
  BY HistoryStart
<1>2. ShellTypeOK /\ [Next]_vars => [Line!Next]_HistoryVars
  BY HistoryStep
<1>3. Spec => []ShellTypeOK
  BY ShellTypes
<1>4. QED
  BY <1>1, <1>2, <1>3, PTL DEF Spec, HistorySpec, Line!Spec, HistoryVars

(***************************************************************************)
(* A script runs the lines of its text once the lines that end with a      *)
(* backslash are joined with the next one: sh_run_script reads one         *)
(* character at a time, in a buffer that holds the line that goes on, and  *)
(* ignores what does not fit; as long as all lines fit, what it ran and    *)
(* what it reads are the lines of what was read.                           *)
(***************************************************************************)
THEOREM ScriptsRunTheirLines == Spec => []ScriptRunsLines
<1>1. Init => ShellTypeOK /\ ScriptInvariant
  BY ShellTypesStart, ScriptStart
<1>2. ShellTypeOK /\ ScriptInvariant /\ [Next]_vars => (ShellTypeOK /\ ScriptInvariant)'
  BY ShellTypesKept, ScriptKept
<1>3. ShellTypeOK /\ ScriptInvariant => ScriptRunsLines
  BY DEF ShellTypeOK, ScriptInvariant, ScriptRunsLines
<1>4. QED
  BY <1>1, <1>2, <1>3, PTL DEF Spec

(***************************************************************************)
(* The screen shows the last command, its output and the line that is      *)
(* edited, whatever a program left on the screen: sh_draw clears it, puts  *)
(* the cursor back at its start, and what it draws next starts on the row  *)
(* after what it drew, wherever the end of a line falls.                   *)
(***************************************************************************)
THEOREM ScreenShowsTheShell == Spec => []ScreenShowsShell
<1>1. Init => ShellTypeOK /\ ShellDrawing
  BY ShellTypesStart, DrawingStart
<1>2. ShellTypeOK /\ ShellDrawing /\ [Next]_vars => (ShellTypeOK /\ ShellDrawing)'
  BY ShellTypesKept, DrawingKept
<1>3. ASSUME ShellTypeOK, ShellDrawing
      PROVE  ScreenShowsShell
  <2>1. LinesOf(output) \in Seq(Texts) /\ LinesOf(output) # <<>>
    <3>1. output \in Texts
      BY <1>3 DEF ShellTypeOK, Texts
    <3>2. QED
      BY <3>1, LinesAppend DEF TextLines
  <2>2. LineRows(Front(LinesOf(output)))
        = FlattenSeq([k \in DOMAIN Front(LinesOf(output)) |-> RowsOf(LinesOf(output)[k], YELLOW)])
    BY <2>1, RowsOfOutput
  <2>3. mode = "edit" => Shows(gpu.shown, commands, current, output)
    BY <1>3 DEF ShellDrawing
  <2>4. QED
    BY <2>2, <2>3 DEF Shows, ScreenShowsShell
<1>4. QED
  BY <1>1, <1>2, <1>3, PTL DEF Spec
=============================================================================
