----------------------------- MODULE EditProofs -----------------------------
(***************************************************************************)
(* The text editor is the one that TextEditor describes, for buffers and   *)
(* words of any size:                                                      *)
(*   - a copy word by word, forward or backward, moves a range of the      *)
(*     buffer even if it overlaps the place it goes to (CopyIsMove);       *)
(*   - moving the gap does not change the text (CursorMoves);              *)
(*   - the two functions that look for lines find those of TextEditor      *)
(*     (BackwardFinds, ForwardFinds);                                      *)
(*   - each action is a step of TextEditor;                                *)
(*   - after each of them the screen shows the lines around the cursor     *)
(*     (LoopDraws, TextDrawn).                                             *)
(***************************************************************************)
EXTENDS Edit, Induction, SequenceTheorems, FiniteSetTheorems

Cells == begin .. end - 1

LEMMA EditConstants ==
  /\ MaxLength \in Nat \ {0} /\ Word \in Nat \ {0} /\ PageSize \in Nat \ {0} /\ HalfScreen \in Nat
  /\ Enter \in Chars /\ Files \subseteq Seq(Chars) \cup {NoFile}
  /\ begin = 0 /\ end = MaxLength /\ Cells = 0 .. MaxLength - 1
  BY EditAssumption DEF EditAssumption, begin, end, Cells

-----------------------------------------------------------------------------
(***************************************************************************)
(* The copy of a range.                                                    *)
(***************************************************************************)
\* What is read has not been written yet: if it goes down, from the first one on,
LEMMA MovedDown ==
  ASSUME NEW b, DOMAIN b \subseteq Int, NEW src \in Nat, NEW dst \in Nat, NEW p \in Nat, NEW z \in Nat,
         dst < src, \A a \in src .. src + p + z - 1 : a \in DOMAIN b
  PROVE  Moved(Moved(b, src, dst, p), src + p, dst + p, z) = Moved(b, src, dst, p + z)
<1>1. PICK m : m = Moved(b, src, dst, p)
  OBVIOUS
<1>2. DOMAIN m = DOMAIN b
  BY <1>1 DEF Moved
<1>3. \A a \in DOMAIN b : m[a] = IF a \in dst .. dst + p - 1 THEN b[src + a - dst] ELSE b[a]
  BY <1>1 DEF Moved
<1>4. ASSUME NEW a \in DOMAIN b
      PROVE  (IF a \in dst + p .. dst + p + z - 1 THEN m[src + p + a - (dst + p)] ELSE m[a])
             = (IF a \in dst .. dst + (p + z) - 1 THEN b[src + a - dst] ELSE b[a])
  <2>1. a \in Int
    OBVIOUS
  <2>2. CASE a \in dst + p .. dst + p + z - 1
    <3>1. PICK x : x = src + a - dst
      OBVIOUS
    <3>2. src + p + a - (dst + p) = x
      BY <2>1, <3>1
    <3>3. x \in src .. src + p + z - 1 /\ x \notin dst .. dst + p - 1
      BY <2>1, <2>2, <3>1
    <3>4. m[x] = b[x]
      BY <1>3, <3>3
    <3>5. a \in dst .. dst + (p + z) - 1
      BY <2>1, <2>2
    <3>6. QED
      BY <2>2, <3>1, <3>2, <3>4, <3>5
  <2>3. CASE a \notin dst + p .. dst + p + z - 1
    <3>1. a \in dst .. dst + (p + z) - 1 <=> a \in dst .. dst + p - 1
      BY <2>1, <2>3
    <3>2. QED
      BY <1>3, <2>3, <3>1
  <2>4. QED
    BY <2>2, <2>3
<1>5. QED
  BY <1>1, <1>2, <1>4 DEF Moved

\* or if it goes up, from the last one back.
LEMMA MovedUp ==
  ASSUME NEW b, DOMAIN b \subseteq Int, NEW src \in Nat, NEW dst \in Nat, NEW p \in Nat, NEW z \in Nat,
         src <= dst, \A a \in src .. src + z + p - 1 : a \in DOMAIN b
  PROVE  Moved(Moved(b, src + z, dst + z, p), src, dst, z) = Moved(b, src, dst, z + p)
<1>1. PICK m : m = Moved(b, src + z, dst + z, p)
  OBVIOUS
<1>2. DOMAIN m = DOMAIN b
  BY <1>1 DEF Moved
<1>3. \A a \in DOMAIN b :
        m[a] = IF a \in dst + z .. dst + z + p - 1 THEN b[src + z + a - (dst + z)] ELSE b[a]
  BY <1>1 DEF Moved
<1>4. ASSUME NEW a \in DOMAIN b
      PROVE  (IF a \in dst .. dst + z - 1 THEN m[src + a - dst] ELSE m[a])
             = (IF a \in dst .. dst + (z + p) - 1 THEN b[src + a - dst] ELSE b[a])
  <2>1. a \in Int
    OBVIOUS
  <2>2. CASE a \in dst .. dst + z - 1
    <3>1. PICK x : x = src + a - dst
      OBVIOUS
    <3>2. x \in src .. src + z + p - 1 /\ x \notin dst + z .. dst + z + p - 1
      BY <2>1, <2>2, <3>1
    <3>3. m[x] = b[x]
      BY <1>3, <3>2
    <3>4. a \in dst .. dst + (z + p) - 1
      BY <2>1, <2>2
    <3>5. QED
      BY <2>2, <3>1, <3>3, <3>4
  <2>3. CASE a \notin dst .. dst + z - 1
    <3>1. a \in dst .. dst + (z + p) - 1 <=> a \in dst + z .. dst + z + p - 1
      BY <2>1, <2>3
    <3>2. src + z + a - (dst + z) = src + a - dst
      BY <2>1
    <3>3. QED
      BY <1>3, <2>3, <3>1, <3>2
  <2>4. QED
    BY <2>2, <2>3
<1>5. QED
  BY <1>1, <1>2, <1>4 DEF Moved

\* The number of moves of n characters, and of characters after k moves.
Moves(n) == n \div Word + (n % Word)
Done(n, k) == IF k <= n \div Word THEN k * Word ELSE n - Moves(n) + k

LEMMA MovesAre ==
  ASSUME NEW n \in Nat
  PROVE  /\ Moves(n) \in Nat /\ Done(n, 0) = 0 /\ Done(n, Moves(n)) = n
         /\ Len(Forward(n)) = Moves(n) /\ Len(Backward(n)) = Moves(n)
         /\ \A k \in 1 .. Moves(n) :
              /\ Done(n, k - 1) \in Nat /\ Done(n, k) \in 0 .. n
              /\ Forward(n)[k].at = Done(n, k - 1)
              /\ Backward(n)[k].at = n - Done(n, k)
              /\ Forward(n)[k].size = Done(n, k) - Done(n, k - 1)
              /\ Backward(n)[k].size = Done(n, k) - Done(n, k - 1)
              /\ Done(n, k) - Done(n, k - 1) \in Nat
<1>1. PICK q, r, m : q = n \div Word /\ r = n % Word /\ m = q + r
  OBVIOUS
<1>2. Word \in Nat \ {0}
  BY EditConstants
<1>3. q \in Nat /\ r \in 0 .. Word - 1 /\ n = r + q * Word
  BY <1>1, <1>2, DivMod
<1>4. m \in Nat /\ Moves(n) = m
  <2>1. r \in Nat
    BY <1>2, <1>3
  <2>2. m \in Nat
    BY <1>1, <1>3, <2>1
  <2>3. QED
    BY <1>1, <2>2 DEF Moves
<1>5. \A k : Done(n, k) = IF k <= q THEN k * Word ELSE n - m + k
  BY <1>1, <1>4 DEF Done
<1>6. q * Word \in Nat /\ n - m + q = q * Word /\ n - m + m = n
  <2>1. q * Word \in Nat
    BY <1>2, <1>3
  <2>2. PICK w \in Nat : w = q * Word
    BY <2>1
  <2>3. n = r + w /\ m = q + r /\ r \in Nat
    BY <1>1, <1>2, <1>3, <2>2
  <2>4. QED
    BY <1>3, <2>2, <2>3
<1>7. Done(n, 0) = 0 /\ Done(n, m) = n
  <2>1. 0 <= q /\ 0 * Word = 0
    BY <1>2, <1>3
  <2>2. m <= q => m = q /\ r = 0
    BY <1>1, <1>3
  <2>3. r = 0 => q * Word = n
    BY <1>3, <1>6
  <2>4. QED
    BY <1>5, <1>6, <2>1, <2>2, <2>3
<1>8. /\ Forward(n) = [k \in 1 .. m |-> IF k <= q THEN [at |-> (k - 1) * Word, size |-> Word]
                                        ELSE [at |-> n - m + k - 1, size |-> 1]]
      /\ Backward(n) = [k \in 1 .. m |-> IF k <= q THEN [at |-> n - k * Word, size |-> Word]
                                         ELSE [at |-> m - k, size |-> 1]]
  BY <1>1 DEF Forward, Backward
<1>9. Len(Forward(n)) = m /\ Len(Backward(n)) = m
  BY <1>4, <1>8
<1>10. ASSUME NEW k \in 1 .. m
       PROVE  /\ Done(n, k - 1) \in Nat /\ Done(n, k) \in 0 .. n
              /\ Forward(n)[k].at = Done(n, k - 1)
              /\ Backward(n)[k].at = n - Done(n, k)
              /\ Forward(n)[k].size = Done(n, k) - Done(n, k - 1)
              /\ Backward(n)[k].size = Done(n, k) - Done(n, k - 1)
              /\ Done(n, k) - Done(n, k - 1) \in Nat
  <2>1. CASE k <= q
    <3>1. k - 1 \in Nat /\ k \in Nat /\ k - 1 <= q
      BY <1>3, <2>1
    <3>2. Done(n, k) = k * Word /\ Done(n, k - 1) = (k - 1) * Word
      BY <1>5, <2>1, <3>1
    <3>3. (k - 1) * Word \in Nat /\ k * Word = (k - 1) * Word + Word
      BY <1>2, <3>1
    <3>4. k * Word <= q * Word
      BY <1>2, <1>3, <2>1, <3>1, ProductMonotonic
    <3>5. k * Word \in 0 .. n
      BY <1>2, <1>3, <1>6, <3>3, <3>4
    <3>6. /\ Forward(n)[k] = [at |-> (k - 1) * Word, size |-> Word]
          /\ Backward(n)[k] = [at |-> n - k * Word, size |-> Word]
      BY <1>8, <2>1
    <3>7. QED
      BY <1>2, <3>2, <3>3, <3>5, <3>6
  <2>2. CASE ~ k <= q
    <3>1. Done(n, k) = n - m + k
      BY <1>5, <2>2
    <3>2. Done(n, k - 1) = n - m + (k - 1)
      <4>1. CASE k - 1 <= q
        <5>1. k - 1 = q
          BY <1>3, <1>4, <2>2, <4>1
        <5>2. QED
          BY <1>5, <1>6, <5>1
      <4>2. CASE ~ k - 1 <= q
        BY <1>5, <4>2
      <4>3. QED
        BY <4>1, <4>2
    <3>3. /\ Forward(n)[k] = [at |-> n - m + k - 1, size |-> 1]
          /\ Backward(n)[k] = [at |-> m - k, size |-> 1]
      BY <1>8, <2>2
    <3>4. n - m + q \in Nat /\ n - m + (k - 1) >= n - m + q /\ n - m + k <= n
      BY <1>3, <1>4, <1>6, <2>2
    <3>5. n - m + (k - 1) \in Nat /\ n - m + k \in 0 .. n
      BY <1>3, <1>4, <3>4
    <3>6. /\ n - m + k - 1 = n - m + (k - 1) /\ m - k = n - (n - m + k)
          /\ (n - m + k) - (n - m + (k - 1)) = 1
      BY <1>4
    <3>7. QED
      BY <3>1, <3>2, <3>3, <3>5, <3>6
  <2>3. QED
    BY <2>1, <2>2
<1>11. QED
  BY <1>4, <1>7, <1>9, <1>10

\* The buffer after each of the moves.
IsRun(f, b, src, dst, moves) ==
  /\ Len(moves) \in Nat
  /\ f = [k \in 0 .. Len(moves) |-> f[k]] /\ f[0] = b
  /\ \A k \in 1 .. Len(moves) :
       f[k] = Moved(f[k - 1], src + moves[k].at, dst + moves[k].at, moves[k].size)

LEMMA CopiedIs ==
  ASSUME NEW b, NEW src, NEW dst, NEW moves, NEW f, IsRun(f, b, src, dst, moves)
  PROVE  Copied(b, src, dst, moves) = f[Len(moves)]
<1> USE DEF IsRun
<1> DEFINE n == Len(moves)
           P(w) == w = [k \in 0 .. n |->
                          IF k = 0 THEN b
                          ELSE Moved(w[k - 1], src + moves[k].at, dst + moves[k].at, moves[k].size)]
           after == CHOOSE w : P(w)
<1>1. P(f)
  <2>1. \A k \in 0 .. n :
          f[k] = IF k = 0 THEN b
                 ELSE Moved(f[k - 1], src + moves[k].at, dst + moves[k].at, moves[k].size)
    <3> TAKE k \in 0 .. n
    <3>1. k = 0 \/ k \in 1 .. n
      OBVIOUS
    <3>2. QED
      BY <3>1
  <2>2. QED
    BY <2>1, Zenon
<1>2. P(after)
  BY <1>1
<1>3. Copied(b, src, dst, moves) = after[n]
  BY DEF Copied
<1> HIDE DEF after
<1>4. after[0] = b /\ \A k \in 1 .. n :
        after[k] = Moved(after[k - 1], src + moves[k].at, dst + moves[k].at, moves[k].size)
  BY <1>2
<1> HIDE DEF P
<1>5. PICK S : S = {k \in 0 .. n : after[k] = f[k]}
  OBVIOUS
<1>6. 0 \in S
  BY <1>4, <1>5
<1>7. ASSUME NEW k \in 0 .. n - 1, k \in S PROVE k + 1 \in S
  <2>1. k + 1 \in 1 .. n /\ k + 1 \in 0 .. n /\ (k + 1) - 1 = k
    OBVIOUS
  <2>2. after[k + 1] = f[k + 1]
    BY <1>4, <1>5, <1>7, <2>1
  <2>3. QED
    BY <1>5, <2>1, <2>2
<1>8. \A k \in 0 .. n : k \in S
  <2>1. 0 \in Int /\ n \in Int
    OBVIOUS
  <2>2. \A k \in 0 .. n - 1 : k \in S => k + 1 \in S
    BY <1>7
  <2> HIDE DEF n
  <2>3. QED
    BY <1>6, <2>1, <2>2, IntervalInduction, Zenon
<1>9. n \in 0 .. n
  OBVIOUS
<1>10. after[n] = f[n]
  BY <1>5, <1>8, <1>9
<1>11. QED
  BY <1>3, <1>10

LEMMA CopyIsMove ==
  ASSUME NEW b \in [Cells -> Chars], NEW src \in Nat, NEW dst \in Nat, NEW n \in Nat,
         src + n <= MaxLength, dst + n <= MaxLength
  PROVE  mem_copy(b, src, dst, n) = Moved(b, src, dst, n)
<1>1. /\ DOMAIN b \subseteq Int /\ b = [a \in DOMAIN b |-> b[a]]
      /\ \A a \in src .. src + n - 1 : a \in DOMAIN b
  BY EditConstants
<1>2. PICK m \in Nat : m = Moves(n)
  BY MovesAre
<1>3. /\ Done(n, 0) = 0 /\ Done(n, m) = n /\ Len(Forward(n)) = m /\ Len(Backward(n)) = m
      /\ \A k \in 1 .. m :
           /\ Done(n, k - 1) \in Nat /\ Done(n, k) \in 0 .. n
           /\ Forward(n)[k].at = Done(n, k - 1)
           /\ Backward(n)[k].at = n - Done(n, k)
           /\ Forward(n)[k].size = Done(n, k) - Done(n, k - 1)
           /\ Backward(n)[k].size = Done(n, k) - Done(n, k - 1)
           /\ Done(n, k) - Done(n, k - 1) \in Nat
  BY <1>2, MovesAre
<1>4. \A x, y : Moved(b, x, y, 0) = b \/ ~ (x \in Int /\ y \in Int)
  <2>1. \A x, y : y \in Int => y .. y + 0 - 1 = {}
    OBVIOUS
  <2>2. QED
    BY <1>1, <2>1 DEF Moved
<1>5. CASE dst < src
  <2>1. PICK f : f = [k \in 0 .. m |-> Moved(b, src, dst, Done(n, k))]
    OBVIOUS
  <2>2. f[0] = b /\ f[m] = Moved(b, src, dst, n)
    BY <1>3, <1>4, <2>1
  <2>3. ASSUME NEW k \in 1 .. m
        PROVE  f[k] = Moved(f[k - 1], src + Forward(n)[k].at, dst + Forward(n)[k].at,
                            Forward(n)[k].size)
    <3>1. PICK p, z : p = Done(n, k - 1) /\ z = Done(n, k) - Done(n, k - 1)
      OBVIOUS
    <3>2. p \in Nat /\ z \in Nat /\ p + z = Done(n, k) /\ p + z <= n
      BY <1>3, <3>1
    <3>3. k \in 0 .. m /\ k - 1 \in 0 .. m
      OBVIOUS
    <3>4. f[k] = Moved(b, src, dst, p + z) /\ f[k - 1] = Moved(b, src, dst, p)
      BY <2>1, <3>1, <3>2, <3>3
    <3>5. \A a \in src .. src + p + z - 1 : a \in DOMAIN b
      BY <1>1, <3>2
    <3>6. Moved(Moved(b, src, dst, p), src + p, dst + p, z) = Moved(b, src, dst, p + z)
      BY <1>1, <1>5, <3>2, <3>5, MovedDown
    <3>7. QED
      BY <1>3, <3>1, <3>4, <3>6
  <2>4. f = [k \in 0 .. m |-> f[k]]
    BY <2>1
  <2>5. Copied(b, src, dst, Forward(n)) = f[m]
    <3>1. PICK moves : moves = Forward(n)
      OBVIOUS
    <3>2. Len(moves) = m /\ Len(moves) \in Nat
      BY <1>3, <3>1
    <3>3. \A k \in 1 .. Len(moves) :
            f[k] = Moved(f[k - 1], src + moves[k].at, dst + moves[k].at, moves[k].size)
      BY <2>3, <3>1, <3>2
    <3>4. f = [k \in 0 .. Len(moves) |-> f[k]] /\ f[0] = b
      BY <2>2, <2>4, <3>2
    <3>5. Copied(b, src, dst, moves) = f[Len(moves)]
      <4>1. IsRun(f, b, src, dst, moves)
        BY <3>2, <3>3, <3>4 DEF IsRun
      <4>2. QED
        BY <4>1, CopiedIs
    <3>6. QED
      BY <3>1, <3>2, <3>5
  <2>6. QED
    BY <1>5, <2>2, <2>5 DEF mem_copy
<1>6. CASE ~ dst < src
  <2>1. PICK f : f = [k \in 0 .. m |-> Moved(b, src + (n - Done(n, k)), dst + (n - Done(n, k)),
                                             Done(n, k))]
    OBVIOUS
  <2>2. f[0] = b /\ f[m] = Moved(b, src, dst, n)
    <3>1. n - 0 = n /\ n - n = 0 /\ src + 0 = src /\ dst + 0 = dst /\ src + n \in Int /\ dst + n \in Int
      OBVIOUS
    <3>2. 0 \in 0 .. m /\ m \in 0 .. m
      OBVIOUS
    <3>3. QED
      BY <1>3, <1>4, <2>1, <3>1, <3>2
  <2>3. ASSUME NEW k \in 1 .. m
        PROVE  f[k] = Moved(f[k - 1], src + Backward(n)[k].at, dst + Backward(n)[k].at,
                            Backward(n)[k].size)
    <3>1. PICK p, z, o : /\ p = Done(n, k - 1) /\ z = Done(n, k) - Done(n, k - 1)
                         /\ o = n - Done(n, k)
      OBVIOUS
    <3>2. /\ p \in Nat /\ z \in Nat /\ o \in Nat /\ p + z = Done(n, k) /\ o + z + p = n
          /\ n - p = o + z /\ z + p = p + z
      <4>1. /\ p \in Nat /\ z \in Nat /\ Done(n, k) \in 0 .. n /\ z = Done(n, k) - p
        BY <1>3, <3>1
      <4>2. PICK d \in 0 .. n : d = Done(n, k)
        BY <4>1
      <4>3. z = d - p /\ o = n - d
        BY <3>1, <4>1, <4>2
      <4>4. QED
        BY <4>1, <4>2, <4>3
    <3>3. k \in 0 .. m /\ k - 1 \in 0 .. m
      OBVIOUS
    <3>4. PICK x, y : x = src + o /\ y = dst + o
      OBVIOUS
    <3>5. /\ x \in Nat /\ y \in Nat /\ x <= y
          /\ src + (o + z) = x + z /\ dst + (o + z) = y + z
      BY <1>6, <3>2, <3>4
    <3>6. f[k] = Moved(b, x, y, z + p) /\ f[k - 1] = Moved(b, x + z, y + z, p)
      BY <2>1, <3>1, <3>2, <3>3, <3>4, <3>5
    <3>7. \A a \in x .. x + z + p - 1 : a \in DOMAIN b
      <4>1. \A a \in x .. x + z + p - 1 : a \in src .. src + n - 1
        BY <3>2, <3>4
      <4>2. QED
        BY <1>1, <4>1
    <3>8. Moved(Moved(b, x + z, y + z, p), x, y, z) = Moved(b, x, y, z + p)
      BY <1>1, <3>2, <3>5, <3>7, MovedUp
    <3>9. QED
      BY <1>3, <3>1, <3>4, <3>6, <3>8
  <2>4. f = [k \in 0 .. m |-> f[k]]
    BY <2>1
  <2>5. Copied(b, src, dst, Backward(n)) = f[m]
    <3>1. PICK moves : moves = Backward(n)
      OBVIOUS
    <3>2. Len(moves) = m /\ Len(moves) \in Nat
      BY <1>3, <3>1
    <3>3. \A k \in 1 .. Len(moves) :
            f[k] = Moved(f[k - 1], src + moves[k].at, dst + moves[k].at, moves[k].size)
      BY <2>3, <3>1, <3>2
    <3>4. f = [k \in 0 .. Len(moves) |-> f[k]] /\ f[0] = b
      BY <2>2, <2>4, <3>2
    <3>5. Copied(b, src, dst, moves) = f[Len(moves)]
      <4>1. IsRun(f, b, src, dst, moves)
        BY <3>2, <3>3, <3>4 DEF IsRun
      <4>2. QED
        BY <4>1, CopiedIs
    <3>6. QED
      BY <3>1, <3>2, <3>5
  <2>6. QED
    BY <1>6, <2>2, <2>5 DEF mem_copy
<1>7. QED
  BY <1>5, <1>6

-----------------------------------------------------------------------------
(***************************************************************************)
(* The text does not depend on the place of the gap.                       *)
(***************************************************************************)
\* The text of a buffer whose gap, at position c, has g cells.
TextOf(b, c, g) == [i \in 1 .. end - g |-> b[IF i <= c THEN i - 1 ELSE i - 1 + g]]

\* What it consists of.
IsText(t, b, c, g) ==
  /\ end - g \in Nat /\ c <= end - g
  /\ t \in Seq(Chars) /\ Len(t) = end - g
  /\ \A i \in 1 .. c : t[i] = b[i - 1]
  /\ \A i \in c + 1 .. end - g : t[i] = b[i - 1 + g]

LEMMA TextIs ==
  ASSUME NEW b \in [Cells -> Chars], NEW c \in Nat, NEW g \in Nat, c + g <= MaxLength
  PROVE  IsText(TextOf(b, c, g), b, c, g)
<1>1. PICK m \in Nat : m = end - g
  BY EditConstants
<1>2. c <= m /\ m + g = MaxLength
  BY <1>1, EditConstants
<1>3. PICK t : t = [i \in 1 .. m |-> b[IF i <= c THEN i - 1 ELSE i - 1 + g]]
  OBVIOUS
<1>4. TextOf(b, c, g) = t
  BY <1>1, <1>3 DEF TextOf
<1>5. /\ \A i \in 1 .. c : t[i] = b[i - 1]
      /\ \A i \in c + 1 .. m : t[i] = b[i - 1 + g]
  BY <1>2, <1>3
<1>6. \A i \in 1 .. m : t[i] \in Chars
  BY <1>2, <1>3, EditConstants
<1>7. t \in [1 .. m -> Chars]
  BY <1>3, <1>6
<1>8. t \in Seq(Chars) /\ Len(t) = m
  BY <1>7
<1>9. QED
  BY <1>1, <1>2, <1>4, <1>5, <1>8 DEF IsText

LEMMA CursorMoves ==
  ASSUME NEW b \in [Cells -> Chars], NEW c \in Nat, NEW g \in Nat, c + g <= MaxLength,
         NEW new \in Nat, new + g <= MaxLength
  PROVE  /\ ted_set_cursor(b, c, g, new) \in [Cells -> Chars]
         /\ TextOf(ted_set_cursor(b, c, g, new), new, g) = TextOf(b, c, g)
<1>1. PICK d : d = ted_set_cursor(b, c, g, new)
  OBVIOUS
<1>2. PICK m \in Nat : m = end - g /\ m + g = MaxLength
  BY EditConstants
<1>3. CASE new > c
  <2>1. d = Moved(b, c + g, c, new - c)
    <3>1. d = mem_copy(b, c + g, c, new - c)
      BY <1>1, <1>3 DEF ted_set_cursor
    <3>2. c + g \in Nat /\ new - c \in Nat /\ c + g + (new - c) <= MaxLength /\ c + (new - c) <= MaxLength
      BY <1>3, EditConstants
    <3>3. QED
      BY <3>1, <3>2, CopyIsMove
  <2>2. d = [a \in Cells |-> IF a \in c .. new - 1 THEN b[a + g] ELSE b[a]]
    <3>1. \A a \in Cells : c + g + a - c = a + g
      BY EditConstants
    <3>2. c + (new - c) - 1 = new - 1 /\ DOMAIN b = Cells
      OBVIOUS
    <3>3. QED
      BY <2>1, <3>1, <3>2 DEF Moved
  <2>3. \A a \in Cells : a \in c .. new - 1 => a + g \in Cells
    BY EditConstants
  <2>4. d \in [Cells -> Chars]
    BY <2>2, <2>3
  <2>5. ASSUME NEW i \in 1 .. m
        PROVE  d[IF i <= new THEN i - 1 ELSE i - 1 + g] = b[IF i <= c THEN i - 1 ELSE i - 1 + g]
    <3>1. i - 1 \in Cells /\ i - 1 + g \in Cells
      BY <1>2, EditConstants
    <3>2. CASE i <= new
      <4>1. i - 1 \in c .. new - 1 <=> ~ i <= c
        BY <3>2
      <4>2. QED
        BY <2>2, <3>1, <3>2, <4>1
    <3>3. CASE ~ i <= new
      <4>1. i - 1 + g \notin c .. new - 1 /\ ~ i <= c
        BY <1>3, <3>3
      <4>2. QED
        BY <2>2, <3>1, <3>3, <4>1
    <3>4. QED
      BY <3>2, <3>3
  <2>6. QED
    BY <1>1, <1>2, <2>4, <2>5 DEF TextOf
<1>4. CASE ~ new > c
  <2>1. d = Moved(b, new, new + g, c - new)
    <3>1. d = mem_copy(b, new, new + g, c - new)
      BY <1>1, <1>4 DEF ted_set_cursor
    <3>2. new + g \in Nat /\ c - new \in Nat /\ new + (c - new) <= MaxLength
          /\ new + g + (c - new) <= MaxLength
      BY <1>4, EditConstants
    <3>3. QED
      BY <3>1, <3>2, CopyIsMove
  <2>2. d = [a \in Cells |-> IF a \in new + g .. c + g - 1 THEN b[a - g] ELSE b[a]]
    <3>1. \A a \in Cells : new + a - (new + g) = a - g
      BY EditConstants
    <3>2. new + g + (c - new) - 1 = c + g - 1 /\ DOMAIN b = Cells
      OBVIOUS
    <3>3. QED
      BY <2>1, <3>1, <3>2 DEF Moved
  <2>3. \A a \in Cells : a \in new + g .. c + g - 1 => a - g \in Cells
    BY EditConstants
  <2>4. d \in [Cells -> Chars]
    BY <2>2, <2>3
  <2>5. ASSUME NEW i \in 1 .. m
        PROVE  d[IF i <= new THEN i - 1 ELSE i - 1 + g] = b[IF i <= c THEN i - 1 ELSE i - 1 + g]
    <3>1. i - 1 \in Cells /\ i - 1 + g \in Cells /\ (i - 1 + g) - g = i - 1
      BY <1>2, EditConstants
    <3>2. CASE i <= new
      <4>1. i - 1 \notin new + g .. c + g - 1 /\ i <= c
        BY <1>4, <3>2
      <4>2. QED
        BY <2>2, <3>1, <3>2, <4>1
    <3>3. CASE ~ i <= new
      <4>1. i - 1 + g \in new + g .. c + g - 1 <=> i <= c
        BY <3>3
      <4>2. QED
        BY <2>2, <3>1, <3>3, <4>1
    <3>4. QED
      BY <3>2, <3>3
  <2>6. QED
    BY <1>1, <1>2, <2>4, <2>5 DEF TextOf
<1>5. QED
  BY <1>3, <1>4

-----------------------------------------------------------------------------
(***************************************************************************)
(* The lines.                                                              *)
(***************************************************************************)
\* The line feeds after position i of a text, up to position j.
Feeds(t, i, j) == {q \in i + 1 .. j : t[q] = Enter}

LEMMA FeedsFinite ==
  ASSUME NEW t, NEW i \in Int, NEW j \in Int
  PROVE  IsFiniteSet(Feeds(t, i, j)) /\ Cardinality(Feeds(t, i, j)) \in Nat
<1>1. IsFiniteSet(i + 1 .. j)
  BY FS_Interval
<1>2. IsFiniteSet(Feeds(t, i, j))
  BY <1>1, FS_Subset DEF Feeds
<1>3. QED
  BY <1>2, FS_CardinalityType

LEMMA SameCardinality ==
  \A S : Editor!Cardinality(S) = Cardinality(S)
  BY Zenon DEF Cardinality, Editor!Cardinality

LEMMA CountIsFeeds ==
  ASSUME NEW t \in Seq(Chars), NEW i \in Nat, NEW j \in 0 .. Len(t)
  PROVE  Editor!Count(Editor!LineStarts(t), i, j) = Cardinality(Feeds(t, i, j))
<1>1. \A s : (s \in Editor!LineStarts(t) /\ i < s /\ s <= j) <=> s \in Feeds(t, i, j)
  BY DEF Editor!LineStarts, Feeds
<1>2. {s \in Editor!LineStarts(t) : i < s /\ s <= j} = Feeds(t, i, j)
  BY <1>1
<1>3. QED
  BY <1>2, SameCardinality DEF Editor!Count

\* A position further back has the line feed there, if there is one, more.
LEMMA FeedsBack ==
  ASSUME NEW t, NEW i \in Nat, NEW j \in Nat, i < j
  PROVE  Cardinality(Feeds(t, i, j))
         = Cardinality(Feeds(t, i + 1, j)) + (IF t[i + 1] = Enter THEN 1 ELSE 0)
<1>1. Feeds(t, i, j) = Feeds(t, i + 1, j) \cup (IF t[i + 1] = Enter THEN {i + 1} ELSE {})
  <2>1. i + 1 .. j = (i + 1 + 1 .. j) \cup {i + 1}
    OBVIOUS
  <2>2. QED
    BY <2>1 DEF Feeds
<1>2. i + 1 \notin Feeds(t, i + 1, j) /\ IsFiniteSet(Feeds(t, i + 1, j))
  <2>1. i + 1 \notin Feeds(t, i + 1, j)
    BY DEF Feeds
  <2>2. IsFiniteSet(Feeds(t, i + 1, j))
    BY FeedsFinite
  <2>3. QED
    BY <2>1, <2>2
<1>3. Cardinality(Feeds(t, i + 1, j)) \in Nat
  BY FeedsFinite
<1>4. CASE t[i + 1] = Enter
  BY <1>1, <1>2, <1>4, FS_AddElement
<1>5. CASE t[i + 1] # Enter
  BY <1>1, <1>3, <1>5
<1>6. QED
  BY <1>4, <1>5

\* There are fewer line feeds after one of them,
LEMMA FewerAfter ==
  ASSUME NEW t, NEW i \in Nat, NEW j \in Nat, NEW u \in Feeds(t, i, j)
  PROVE  Cardinality(Feeds(t, u, j)) < Cardinality(Feeds(t, i, j))
<1>1. u \in i + 1 .. j /\ u \in Int
  BY DEF Feeds
<1>2. Feeds(t, u, j) \subseteq Feeds(t, i, j) /\ u \notin Feeds(t, u, j)
  BY <1>1 DEF Feeds
<1>3. /\ Cardinality(Feeds(t, u, j)) <= Cardinality(Feeds(t, i, j))
      /\ Cardinality(Feeds(t, u, j)) # Cardinality(Feeds(t, i, j))
  BY <1>2, FeedsFinite, FS_Subset
<1>4. Cardinality(Feeds(t, u, j)) \in Nat /\ Cardinality(Feeds(t, i, j)) \in Nat
  BY <1>1, FeedsFinite
<1>5. QED
  BY <1>3, <1>4

\* and up to a position before it.
LEMMA FewerBefore ==
  ASSUME NEW t, NEW i \in Nat, NEW j \in Nat, NEW u \in Feeds(t, i, j), NEW v \in Nat, v < u
  PROVE  Cardinality(Feeds(t, i, v)) < Cardinality(Feeds(t, i, j))
<1>1. u \in i + 1 .. j /\ u \in Int
  BY DEF Feeds
<1>2. Feeds(t, i, v) \subseteq Feeds(t, i, j) /\ u \notin Feeds(t, i, v)
  BY <1>1 DEF Feeds
<1>3. /\ Cardinality(Feeds(t, i, v)) <= Cardinality(Feeds(t, i, j))
      /\ Cardinality(Feeds(t, i, v)) # Cardinality(Feeds(t, i, j))
  BY <1>2, FeedsFinite, FS_Subset
<1>4. Cardinality(Feeds(t, i, v)) \in Nat /\ Cardinality(Feeds(t, i, j)) \in Nat
  BY <1>1, FeedsFinite
<1>5. QED
  BY <1>3, <1>4

\* The position that the specification of the editor names is the only one
\* that has at least n line feeds after it, up to c, and none that is later.
LEMMA AboveIs ==
  ASSUME NEW t \in Seq(Chars), NEW c \in 0 .. Len(t), NEW n \in Nat, NEW p \in 0 .. c,
         p = 0 \/ (t[p] = Enter /\ Cardinality(Feeds(t, p, c)) = n),
         Cardinality(Feeds(t, p, c)) <= n
  PROVE  Editor!Above(t, c, n) = p
<1> DEFINE starts == {s \in Editor!LineStarts(t) :
                        s = 0 \/ (s <= c /\ Editor!Count(Editor!LineStarts(t), s, c) >= n)}
<1>1. Editor!LineStarts(t) = {0} \cup {i \in 1 .. Len(t) : t[i] = Enter}
  BY DEF Editor!LineStarts
<1>2. p \in starts
  <2>1. CASE p = 0
    BY <1>1, <2>1
  <2>2. CASE p # 0
    <3>1. t[p] = Enter /\ Cardinality(Feeds(t, p, c)) = n /\ p \in 1 .. Len(t)
      BY <2>2
    <3>2. Editor!Count(Editor!LineStarts(t), p, c) = n
      BY <3>1, CountIsFeeds
    <3>3. QED
      BY <1>1, <3>1, <3>2
  <2>3. QED
    BY <2>1, <2>2
<1>3. ASSUME NEW u \in starts, ~ u <= p
      PROVE  FALSE
  <2>1. u \in Nat /\ u # 0
    BY <1>1, <1>3
  <2>2. u \in p + 1 .. c /\ t[u] = Enter
    BY <1>1, <1>3, <2>1
  <2>3. Editor!Count(Editor!LineStarts(t), u, c) >= n
    BY <1>3, <2>1
  <2>4. Cardinality(Feeds(t, u, c)) >= n
    BY <2>1, <2>3, CountIsFeeds
  <2>5. u \in Feeds(t, p, c)
    BY <2>2 DEF Feeds
  <2>6. Cardinality(Feeds(t, u, c)) < Cardinality(Feeds(t, p, c))
    BY <2>5, FewerAfter
  <2>7. Cardinality(Feeds(t, u, c)) \in Nat /\ Cardinality(Feeds(t, p, c)) \in Nat
    BY <2>1, FeedsFinite
  <2>8. QED
    BY <2>4, <2>6, <2>7
<1>4. \A s \in starts : s \in Nat
  BY <1>1
<1>5. Editor!Above(t, c, n) = CHOOSE s \in starts : \A u \in starts : u <= s
  BY DEF Editor!Above
<1> HIDE DEF starts
<1>6. \A u \in starts : u <= p
  BY <1>3
<1>7. \A s \in starts : (\A u \in starts : u <= s) => s = p
  <2> SUFFICES ASSUME NEW s \in starts, \A u \in starts : u <= s
               PROVE  s = p
    OBVIOUS
  <2>1. p <= s /\ s <= p /\ s \in Nat
    BY <1>2, <1>4, <1>6
  <2>2. QED
    BY <2>1
<1>8. QED
  BY <1>2, <1>5, <1>6, <1>7

LEMMA NoFeeds ==
  ASSUME NEW t, NEW p \in Int
  PROVE  Feeds(t, p, p) = {} /\ Cardinality(Feeds(t, p, p)) = 0
<1>1. Feeds(t, p, p) = {}
  BY DEF Feeds
<1>2. QED
  BY <1>1, FS_EmptySet

-----------------------------------------------------------------------------
(***************************************************************************)
(* What a part of the text looks like on a row.                            *)
(***************************************************************************)
LEMMA FlattenIs ==
  ASSUME NEW S, NEW ss \in Seq(Seq(S))
  PROVE  \E f \in [0 .. Len(ss) -> Seq(S)] :
           /\ FlattenSeq(ss) = f[Len(ss)] /\ f[0] = <<>>
           /\ \A k \in 1 .. Len(ss) : f[k] = f[k - 1] \o ss[k]
<1> DEFINE n == Len(ss)
           V == Seq(S)
           P(f) == f = [i \in 1 .. n |-> IF i = 1 THEN ss[i] ELSE f[i - 1] \o ss[i]]
           loop == CHOOSE f : P(f)
           step == [p \in (1 .. n) \X V |-> p[2] \o ss[p[1]]]
<1>1. n \in Nat /\ (\A k \in 1 .. n : ss[k] \in V) /\ \A k \in 1 .. n : <<>> \o ss[k] = ss[k]
  <2>1. n \in Nat /\ \A k \in 1 .. n : ss[k] \in V
    OBVIOUS
  <2>2. ASSUME NEW k \in 1 .. n PROVE <<>> \o ss[k] = ss[k]
    BY <2>1, ConcatEmptySeq
  <2>3. QED
    BY <2>1, <2>2
<1>2. PICK a \in V : a = <<>>
  <2>1. <<>> \in Seq(S)
    OBVIOUS
  <2>2. QED
    BY <2>1, Zenon
<1>3. step \in [(1 .. n) \X V -> V]
  <2>1. ASSUME NEW p \in (1 .. n) \X V PROVE p[2] \o ss[p[1]] \in V
    <3>1. p[1] \in 1 .. n /\ p[2] \in V /\ ss[p[1]] \in V
      BY <1>1
    <3>2. QED
      BY <3>1, ConcatProperties
  <2>2. QED
    BY <2>1
<1>4. PICK g : Recursive(g, n, V, a, step)
  <2> HIDE DEF n, V, step
  <2>1. QED
    BY <1>1, <1>2, <1>3, Recursion
<1>5. \A k \in 1 .. n : g[k] = g[k - 1] \o ss[k]
  <2> TAKE k \in 1 .. n
  <2>1. g[k - 1] \in V /\ g[k] = step[<<k, g[k - 1]>>]
    <3> HIDE DEF V, step
    <3>1. k - 1 \in 0 .. n
      BY <1>1
    <3>2. QED
      BY <1>4, <3>1 DEF Recursive
  <2>2. QED
    BY <2>1
<1>6. g[0] = a /\ g \in [0 .. n -> V] /\ n \in 0 .. n
  BY <1>1, <1>4 DEF Recursive
<1>7. CASE n = 0
  <2>1. ss = <<>> /\ FlattenSeq(ss) = ss
    BY <1>7 DEF FlattenSeq
  <2>2. FlattenSeq(ss) = g[n] /\ g[0] = <<>>
    BY <1>2, <1>6, <1>7, <2>1
  <2>3. QED
    BY <1>5, <1>6, <2>2
<1>8. CASE n # 0
  <2>1. \E h : P(h)
    <3> DEFINE h == [i \in 1 .. n |-> g[i]]
    <3>1. \A i \in 1 .. n : h[i] = IF i = 1 THEN ss[i] ELSE h[i - 1] \o ss[i]
      <4> TAKE i \in 1 .. n
      <4>1. CASE i = 1
        <5>0. i \in 1 .. n /\ i - 1 = 0
          BY <4>1
        <5>1. h[i] = g[i] /\ g[i] = g[0] \o ss[i]
          BY <1>5, <5>0
        <5>2. QED
          BY <1>1, <1>2, <1>6, <4>1, <5>0, <5>1
      <4>2. CASE i # 1
        <5>1. i - 1 \in 1 .. n /\ h[i - 1] = g[i - 1] /\ h[i] = g[i]
          BY <1>1, <4>2
        <5>2. QED
          BY <1>5, <4>2, <5>1
      <4>3. QED
        BY <4>1, <4>2
    <3>2. P(h)
      <4>1. h = [i \in 1 .. n |-> h[i]]
        OBVIOUS
      <4> HIDE DEF h
      <4>2. QED
        BY <3>1, <4>1
    <3> HIDE DEF h, P
    <3>3. QED
      BY <3>2
  <2>2. FlattenSeq(ss) = loop[n]
    BY <1>8 DEF FlattenSeq
  <2>3. P(loop)
    BY <2>1
  <2> HIDE DEF loop
  <2>4. \A i \in 1 .. n : loop[i] = IF i = 1 THEN ss[i] ELSE loop[i - 1] \o ss[i]
    BY <2>3
  <2> DEFINE h == [k \in 0 .. n |-> IF k = 0 THEN a ELSE loop[k]]
  <2>5. h[0] = a /\ n \in 0 .. n /\ h[n] = loop[n]
    BY <1>1, <1>8
  <2>6. ASSUME NEW k \in 1 .. n, h[k - 1] \in V PROVE h[k] = step[<<k, h[k - 1]>>]
    <3>1. step[<<k, h[k - 1]>>] = h[k - 1] \o ss[k]
      <4>1. <<k, h[k - 1]>> \in (1 .. n) \X V
        BY <2>6
      <4> HIDE DEF h
      <4>2. QED
        BY <4>1
    <3>2. h[k] = loop[k]
      BY <1>1
    <3>3. CASE k = 1
      <4>1. h[k - 1] = <<>> /\ loop[k] = ss[k]
        BY <1>2, <2>4, <2>5, <3>3
      <4>2. QED
        BY <1>1, <3>1, <3>2, <4>1
    <3>4. CASE k # 1
      <4>1. k - 1 \in 0 .. n /\ k - 1 # 0
        BY <1>1, <3>4
      <4>2. h[k - 1] = loop[k - 1]
        BY <4>1
      <4>3. QED
        BY <2>4, <3>1, <3>2, <3>4, <4>2
    <3>5. QED
      BY <3>3, <3>4
  <2> HIDE DEF h, n, P, V, step
  <2>7. Repeats(h, n, V, a, step)
    BY <2>5, <2>6 DEF Repeats
  <2>8. \A k \in 0 .. n : h[k] = g[k]
    <3>1. BothRepeat(h, g, n, V, a, step)
      BY <1>1, <1>4, <2>7 DEF BothRepeat
    <3>2. QED
      BY <3>1, RecursionIsOne
  <2>9. FlattenSeq(ss) = g[n] /\ g[0] = <<>>
    BY <1>2, <1>6, <2>2, <2>5, <2>8
  <2>10. QED
    BY <1>5, <1>6, <2>9 DEF n, V
<1>9. QED
  BY <1>7, <1>8

Glyphs == Chars \cup {Space}
Glyph(x) == IF x = Tab THEN <<Space, Space>> ELSE <<x>>

LEMMA GlyphIs ==
  ASSUME NEW x \in Chars
  PROVE  Glyph(x) \in Seq(Glyphs) /\ Len(Glyph(x)) = (IF x = Tab THEN 2 ELSE 1)
         /\ Len(Glyph(x)) \in Nat /\ Len(Glyph(x)) > 0
<1>1. CASE x = Tab
  <2>1. Glyph(x) = <<Space, Space>>
    BY <1>1 DEF Glyph
  <2>2. QED
    BY <1>1, <2>1 DEF Glyphs
<1>2. CASE x # Tab
  <2>1. Glyph(x) = <<x>>
    BY <1>2 DEF Glyph
  <2>2. QED
    BY <1>2, <2>1 DEF Glyphs
<1>3. QED
  BY <1>1, <1>2

\* The characters that s is drawn with, one character of s after the other.
Draws(f, s) ==
  /\ f \in [0 .. Len(s) -> Seq(Glyphs)] /\ f[0] = <<>>
  /\ \A k \in 1 .. Len(s) : f[k] = f[k - 1] \o Glyph(s[k])

LEMMA ExpandedIs ==
  ASSUME NEW s \in Seq(Chars)
  PROVE  \E f : Draws(f, s) /\ Expanded(s) = f[Len(s)]
<1>1. PICK ss : ss = [i \in DOMAIN s |-> Glyph(s[i])]
  OBVIOUS
<1>2. \A i \in DOMAIN s : Glyph(s[i]) \in Seq(Glyphs)
  <2> TAKE i \in DOMAIN s
  <2>1. s[i] \in Chars
    OBVIOUS
  <2>2. QED
    BY <2>1, GlyphIs
<1>3. ss \in Seq(Seq(Glyphs)) /\ Len(ss) = Len(s) /\ Len(s) \in Nat
  BY <1>1, <1>2
<1>4. Expanded(s) = FlattenSeq(ss)
  BY <1>1 DEF Expanded, Glyph
<1>5. PICK f \in [0 .. Len(ss) -> Seq(Glyphs)] :
           /\ FlattenSeq(ss) = f[Len(ss)] /\ f[0] = <<>>
           /\ \A k \in 1 .. Len(ss) : f[k] = f[k - 1] \o ss[k]
  BY <1>3, FlattenIs
<1>6. \A k \in 1 .. Len(s) : ss[k] = Glyph(s[k])
  BY <1>1
<1>7. Draws(f, s)
  BY <1>3, <1>5, <1>6 DEF Draws
<1>8. QED
  BY <1>3, <1>4, <1>5, <1>7

LEMMA ExpandedMore ==
  ASSUME NEW s \in Seq(Chars), NEW x \in Chars
  PROVE  /\ Expanded(s) \in Seq(Glyphs)
         /\ Expanded(Append(s, x)) = Expanded(s) \o Glyph(x)
<1>0. PICK n \in Nat : n = Len(s)
  OBVIOUS
<1>1. PICK u : n = Len(s) /\ u = Append(s, x)
  BY <1>0
<1>2. u \in Seq(Chars) /\ Len(u) = n + 1 /\ u[n + 1] = x /\ \A k \in 1 .. n : u[k] = s[k]
  BY <1>1
<1>3. PICK f : Draws(f, s) /\ Expanded(s) = f[n]
  BY <1>1, ExpandedIs
<1>4. PICK g : Draws(g, u) /\ Expanded(u) = g[n + 1]
  BY <1>2, ExpandedIs
<1>5. /\ f[0] = <<>> /\ g[0] = <<>> /\ f \in [0 .. n -> Seq(Glyphs)]
      /\ \A k \in 1 .. n : f[k] = f[k - 1] \o Glyph(s[k])
  BY <1>1, <1>3, <1>4 DEF Draws
<1>6. \A k \in 1 .. n + 1 : g[k] = g[k - 1] \o Glyph(u[k])
  BY <1>2, <1>4 DEF Draws
<1>7. PICK A : A = {k \in 0 .. n : f[k] = g[k]}
  OBVIOUS
<1>8. ASSUME NEW k \in 0 .. n - 1, k \in A PROVE k + 1 \in A
  <2>1. k + 1 \in 1 .. n /\ k + 1 \in 1 .. n + 1 /\ (k + 1) - 1 = k /\ k + 1 \in 0 .. n
    OBVIOUS
  <2>2. f[k + 1] = f[k] \o Glyph(s[k + 1]) /\ g[k + 1] = g[k] \o Glyph(s[k + 1])
    BY <1>2, <1>5, <1>6, <2>1
  <2>3. QED
    BY <1>7, <1>8, <2>1, <2>2
<1>9. \A k \in 0 .. n : k \in A
  <2>1. 0 \in A /\ 0 \in Int /\ n \in Int
    BY <1>5, <1>7
  <2>2. QED
    BY <1>8, <2>1, IntervalInduction
<1>10. f[n] = g[n] /\ f[n] \in Seq(Glyphs)
  <2>1. n \in 0 .. n
    OBVIOUS
  <2>2. QED
    BY <1>5, <1>7, <1>9, <2>1
<1>11. g[n + 1] = g[n] \o Glyph(x)
  <2>1. n + 1 \in 1 .. n + 1 /\ (n + 1) - 1 = n
    OBVIOUS
  <2>2. QED
    BY <1>2, <1>6, <2>1
<1>12. QED
  BY <1>1, <1>3, <1>4, <1>10, <1>11

\* What is drawn of the characters of t after i, up to j.
Drawn(t, i, j) == Expanded(SubSeq(t, i + 1, j))

LEMMA PartIs ==
  ASSUME NEW t \in Seq(Chars), NEW i \in Nat, NEW j \in 0 .. Len(t), i <= j
  PROVE  /\ SubSeq(t, i + 1, j) \in Seq(Chars) /\ Len(SubSeq(t, i + 1, j)) = j - i
         /\ \A k \in 1 .. j - i : SubSeq(t, i + 1, j)[k] = t[i + k]
<1>1. i + 1 \in Int /\ j \in Int /\ \A k \in i + 1 .. j : t[k] \in Chars
  OBVIOUS
<1>2. PICK y : y = SubSeq(t, i + 1, j)
  OBVIOUS
<1>3. /\ y \in Seq(Chars) /\ Len(y) = IF i + 1 <= j THEN j - (i + 1) + 1 ELSE 0
      /\ \A k \in 1 .. j - (i + 1) + 1 : y[k] = t[i + 1 + k - 1]
  <2>1. PICK m \in Int, n \in Int : m = i + 1 /\ n = j
    BY <1>1
  <2>2. \A k \in m .. n : t[k] \in Chars
    BY <1>1, <2>1
  <2>3. /\ SubSeq(t, m, n) \in Seq(Chars)
        /\ Len(SubSeq(t, m, n)) = IF m <= n THEN n - m + 1 ELSE 0
        /\ \A k \in 1 .. n - m + 1 : SubSeq(t, m, n)[k] = t[m + k - 1]
    BY <2>2, SubSeqProperties
  <2>4. QED
    BY <1>2, <2>1, <2>3
<1>4. Len(y) = j - i /\ j - (i + 1) + 1 = j - i /\ \A k \in 1 .. j - i : i + 1 + k - 1 = i + k
  BY <1>3
<1>5. \A k \in 1 .. j - i : y[k] = t[i + k]
  BY <1>3, <1>4
<1>6. QED
  BY <1>2, <1>3, <1>4, <1>5

LEMMA DrawnNone ==
  ASSUME NEW t \in Seq(Chars), NEW i \in 0 .. Len(t)
  PROVE  Drawn(t, i, i) = <<>>
<1>1. PICK s : s = SubSeq(t, i + 1, i)
  OBVIOUS
<1>2. s \in Seq(Chars) /\ Len(s) = 0
  BY <1>1, PartIs
<1>3. PICK f : Draws(f, s) /\ Expanded(s) = f[Len(s)]
  BY <1>2, ExpandedIs
<1>4. QED
  BY <1>1, <1>2, <1>3 DEF Draws, Drawn

LEMMA DrawnMore ==
  ASSUME NEW t \in Seq(Chars), NEW i \in Nat, NEW j \in Nat, i <= j, j < Len(t)
  PROVE  /\ Drawn(t, i, j) \in Seq(Glyphs) /\ t[j + 1] \in Chars
         /\ Drawn(t, i, j + 1) = Drawn(t, i, j) \o Glyph(t[j + 1])
<1>1. PICK s, u : s = SubSeq(t, i + 1, j) /\ u = SubSeq(t, i + 1, j + 1)
  OBVIOUS
<1>2. PICK n \in Nat : n = j - i
  OBVIOUS
<1>3. /\ s \in Seq(Chars) /\ Len(s) = n
      /\ \A k \in 1 .. n : s[k] = t[i + k]
  BY <1>1, <1>2, PartIs
<1>4. /\ u \in Seq(Chars) /\ Len(u) = n + 1
      /\ \A k \in 1 .. n + 1 : u[k] = t[i + k]
  <2>1. j + 1 \in 0 .. Len(t) /\ i <= j + 1 /\ (j + 1) - i = n + 1
    BY <1>2
  <2>2. QED
    BY <1>1, <2>1, PartIs
<1>5. t[j + 1] \in Chars
  OBVIOUS
<1>6. u = Append(s, t[j + 1])
  <2>1. PICK a : a = Append(s, t[j + 1])
    OBVIOUS
  <2>2. a \in Seq(Chars) /\ Len(a) = n + 1 /\ a[n + 1] = t[j + 1] /\ \A k \in 1 .. n : a[k] = s[k]
    BY <1>3, <1>5, <2>1
  <2>3. ASSUME NEW k \in 1 .. n + 1 PROVE u[k] = a[k]
    <3>1. CASE k = n + 1
      <4>1. i + k = j + 1
        BY <1>2, <3>1
      <4>2. QED
        BY <1>4, <2>2, <3>1, <4>1
    <3>2. CASE k # n + 1
      <4>1. k \in 1 .. n
        BY <3>2
      <4>2. QED
        BY <1>3, <1>4, <2>2, <4>1
    <3>3. QED
      BY <3>1, <3>2
  <2>4. u = a
    BY <1>4, <2>2, <2>3, SeqEqual
  <2>5. QED
    BY <2>1, <2>4
<1>7. QED
  <2>1. Expanded(s) \in Seq(Glyphs) /\ Expanded(u) = Expanded(s) \o Glyph(t[j + 1])
    BY <1>3, <1>5, <1>6, ExpandedMore
  <2>2. Drawn(t, i, j) = Expanded(s) /\ Drawn(t, i, j + 1) = Expanded(u)
    BY <1>1 DEF Drawn
  <2>3. QED
    BY <1>5, <2>1, <2>2

LEMMA DrawnIsSeq ==
  ASSUME NEW t \in Seq(Chars), NEW i \in Nat, NEW j \in 0 .. Len(t), i <= j
  PROVE  Drawn(t, i, j) \in Seq(Glyphs)
<1>1. PICK s : s = SubSeq(t, i + 1, j)
  OBVIOUS
<1>2. s \in Seq(Chars)
  BY <1>1, PartIs
<1>3. Enter \in Chars
  BY EditConstants
<1>4. QED
  BY <1>1, <1>2, <1>3, ExpandedMore DEF Drawn

\* What is drawn of more characters begins with it.
Begins(u, v) == Len(u) <= Len(v) /\ \A c \in 1 .. Len(u) : v[c] = u[c]

LEMMA DrawnBegins ==
  ASSUME NEW t \in Seq(Chars), NEW i \in Nat, NEW j \in Nat, NEW k \in Nat,
         i <= j, j <= k, k <= Len(t)
  PROVE  Begins(Drawn(t, i, j), Drawn(t, i, k))
<1>1. PICK u : u = Drawn(t, i, j)
  OBVIOUS
<1>2. u \in Seq(Glyphs)
  BY <1>1, DrawnIsSeq
<1>3. PICK A : A = {e \in j .. k : Begins(u, Drawn(t, i, e))}
  OBVIOUS
<1>4. j \in A
  <2>1. Begins(u, u)
    BY <1>2 DEF Begins
  <2>2. j \in j .. k
    OBVIOUS
  <2>3. QED
    BY <1>1, <1>3, <2>1, <2>2
<1>5. ASSUME NEW e \in j .. k - 1, e \in A PROVE e + 1 \in A
  <2>1. e \in Nat /\ i <= e /\ e < Len(t) /\ e + 1 \in j .. k
    OBVIOUS
  <2>2. PICK v, w, x : v = Drawn(t, i, e) /\ w = Drawn(t, i, e + 1) /\ x = Glyph(t[e + 1])
    OBVIOUS
  <2>3. v \in Seq(Glyphs) /\ w = v \o x /\ t[e + 1] \in Chars
    BY <2>1, <2>2, DrawnMore
  <2>4. x \in Seq(Glyphs)
    BY <2>2, <2>3, GlyphIs
  <2>5. Begins(u, v)
    BY <1>3, <1>5, <2>2
  <2>6. Len(w) = Len(v) + Len(x) /\ Len(v) \in Nat /\ Len(x) \in Nat /\ \A c \in 1 .. Len(v) : w[c] = v[c]
    BY <2>3, <2>4
  <2>7. Begins(u, w)
    BY <1>2, <2>5, <2>6 DEF Begins
  <2>8. QED
    BY <1>3, <2>1, <2>2, <2>7
<1>6. \A e \in j .. k : e \in A
  <2>1. j \in Int /\ k \in Int
    OBVIOUS
  <2>2. QED
    BY <1>4, <1>5, <2>1, IntervalInduction
<1>7. k \in j .. k
  OBVIOUS
<1>8. QED
  BY <1>1, <1>3, <1>6, <1>7

\* A character more before the others.
LEMMA DrawnBack ==
  ASSUME NEW t \in Seq(Chars), NEW i \in Nat, NEW j \in 0 .. Len(t), i < j
  PROVE  /\ t[i + 1] \in Chars
         /\ Len(Drawn(t, i, j)) = Len(Drawn(t, i + 1, j)) + Len(Glyph(t[i + 1]))
<1>1. t[i + 1] \in Chars
  OBVIOUS
<1>2. PICK l \in Nat : l = Len(Glyph(t[i + 1]))
  BY <1>1, GlyphIs
<1>3. PICK A : A = {e \in i + 1 .. j : Len(Drawn(t, i, e)) = Len(Drawn(t, i + 1, e)) + l}
  OBVIOUS
<1>4. i + 1 \in A
  <2>1. i \in 0 .. Len(t) /\ i + 1 \in 0 .. Len(t) /\ i + 1 \in i + 1 .. j
    OBVIOUS
  <2>2. Drawn(t, i, i) = <<>> /\ Drawn(t, i + 1, i + 1) = <<>>
    BY <2>1, DrawnNone
  <2>3. Drawn(t, i, i + 1) = <<>> \o Glyph(t[i + 1])
    <3>1. i \in Nat /\ i <= i /\ i < Len(t)
      OBVIOUS
    <3>2. Drawn(t, i, i + 1) = Drawn(t, i, i) \o Glyph(t[i + 1])
      BY <3>1, DrawnMore
    <3>3. QED
      BY <2>2, <3>2
  <2>4. Len(Drawn(t, i, i + 1)) = l
    <3>1. PICK x : x = Glyph(t[i + 1]) /\ x \in Seq(Glyphs)
      BY <1>1, GlyphIs
    <3>2. <<>> \o x = x
      BY <3>1, ConcatEmptySeq
    <3>3. QED
      BY <1>2, <2>3, <3>1, <3>2
  <2>5. QED
    BY <1>3, <2>1, <2>2, <2>4
<1>5. ASSUME NEW e \in i + 1 .. j - 1, e \in A PROVE e + 1 \in A
  <2>1. e \in Nat /\ i <= e /\ i + 1 <= e /\ e < Len(t) /\ e + 1 \in i + 1 .. j /\ i + 1 \in Nat
    OBVIOUS
  <2>2. PICK u, v, x : u = Drawn(t, i, e) /\ v = Drawn(t, i + 1, e) /\ x = Glyph(t[e + 1])
    OBVIOUS
  <2>3. u \in Seq(Glyphs) /\ Drawn(t, i, e + 1) = u \o x /\ t[e + 1] \in Chars
    BY <2>1, <2>2, DrawnMore
  <2>4. v \in Seq(Glyphs) /\ Drawn(t, i + 1, e + 1) = v \o x
    BY <2>1, <2>2, DrawnMore
  <2>5. x \in Seq(Glyphs)
    BY <2>2, <2>3, GlyphIs
  <2>6. Len(u \o x) = Len(u) + Len(x) /\ Len(v \o x) = Len(v) + Len(x)
        /\ Len(u) \in Nat /\ Len(v) \in Nat /\ Len(x) \in Nat
    BY <2>3, <2>4, <2>5
  <2>7. Len(u) = Len(v) + l
    BY <1>3, <1>5, <2>2
  <2>8. Len(u \o x) = Len(v \o x) + l
    BY <2>6, <2>7
  <2>9. QED
    BY <1>3, <2>1, <2>3, <2>4, <2>8
<1>6. \A e \in i + 1 .. j : e \in A
  <2>1. i + 1 \in Int /\ j \in Int
    OBVIOUS
  <2>2. QED
    BY <1>4, <1>5, <2>1, IntervalInduction
<1>7. j \in i + 1 .. j
  OBVIOUS
<1>8. QED
  BY <1>1, <1>2, <1>3, <1>6, <1>7

-----------------------------------------------------------------------------
(***************************************************************************)
(* The functions that look for lines.                                      *)
(***************************************************************************)
\* The position, and the row and the column of the cursor.
LEMMA BackwardFinds ==
  ASSUME NEW b \in [Cells -> Chars], NEW c \in Nat, NEW g \in Nat, c + g <= MaxLength,
         NEW n \in Nat, NEW t, t = TextOf(b, c, g)
  PROVE  LET s == ted_move_backward(b, c, n) IN
         /\ s.ptr \in 0 .. c /\ s.ptr = Editor!Above(t, c, n)
         /\ s.row = Cardinality(Feeds(t, s.ptr, c)) /\ s.row <= n
         /\ s.col = Len(Drawn(t, Editor!Above(t, c, 0), c)) /\ s.col \in Nat
<1>2. t \in Seq(Chars) /\ c \in 0 .. Len(t) /\ \A i \in 1 .. c : t[i] = b[i - 1]
  <2>1. IsText(t, b, c, g)
    BY TextIs
  <2>2. QED
    BY <2>1 DEF IsText
<1> DEFINE Stops(s) == s.ptr = begin \/ (b[s.ptr - 1] = Enter /\ s.row = n)
           Back(s) ==
             [ptr |-> s.ptr - 1,
              row |-> IF b[s.ptr - 1] = Enter THEN s.row + 1 ELSE s.row,
              col |-> IF b[s.ptr - 1] = Enter \/ s.row # 0 THEN s.col
                      ELSE IF b[s.ptr - 1] = Tab THEN s.col + 2 ELSE s.col + 1]
           first == [ptr |-> c, col |-> 0, row |-> 0]
           V == [ptr : 0 .. c, col : Nat, row : Nat]
           step == [s \in V |-> IF Stops(s) THEN s ELSE Back(s)]
           P(w) == w = [i \in 0 .. c |-> IF i = 0 THEN first
                                         ELSE IF Stops(w[i - 1]) THEN w[i - 1] ELSE Back(w[i - 1])]
           loop == CHOOSE w : P(w)
<1>3. ASSUME NEW s \in V, ~ Stops(s)
      PROVE  /\ Back(s) \in V /\ Back(s).ptr = s.ptr - 1
             /\ Back(s).row = IF t[s.ptr] = Enter THEN s.row + 1 ELSE s.row
             /\ Back(s).col = IF t[s.ptr] = Enter \/ s.row # 0 THEN s.col
                              ELSE IF t[s.ptr] = Tab THEN s.col + 2 ELSE s.col + 1
             /\ s.ptr \in 1 .. c /\ (t[s.ptr] = Enter => s.row # n)
  <2>1. s.ptr \in 1 .. c
    BY <1>3, EditConstants
  <2>2. t[s.ptr] = b[s.ptr - 1]
    BY <1>2, <2>1
  <2>3. QED
    BY <1>3, <2>1, <2>2
<1>4. first \in V /\ step \in [V -> V]
  BY <1>3
<1>5. \E w : P(w)
  <2>1. PICK w : Iterated(w, c, V, first, step)
    BY <1>4, Iterates
  <2>2. w \in [0 .. c -> V] /\ w[0] = first /\ \A i \in 1 .. c : w[i] = step[w[i - 1]]
    BY <2>1 DEF Iterated
  <2>3. ASSUME NEW i \in 1 .. c
        PROVE  w[i] = IF Stops(w[i - 1]) THEN w[i - 1] ELSE Back(w[i - 1])
    <3> HIDE DEF V, Stops, Back, first
    <3>1. i - 1 \in 0 .. c
      OBVIOUS
    <3>2. w[i - 1] \in V /\ w[i] = step[w[i - 1]]
      BY <2>2, <2>3, <3>1
    <3>3. QED
      BY <3>2
  <2> HIDE DEF V, Stops, Back, first
  <2>4. \A i \in 0 .. c : w[i] = IF i = 0 THEN first
                                 ELSE IF Stops(w[i - 1]) THEN w[i - 1] ELSE Back(w[i - 1])
    <3> TAKE i \in 0 .. c
    <3>1. i = 0 \/ i \in 1 .. c
      OBVIOUS
    <3>2. QED
      BY <2>2, <2>3, <3>1
  <2>5. P(w)
    BY <2>2, <2>4
  <2>6. QED
    BY <2>5
<1>6. ted_move_backward(b, c, n) = loop[c]
  BY DEF ted_move_backward
<1>7. P(loop)
  BY <1>5
<1> HIDE DEF loop
<1>8. /\ loop[0] = first
      /\ \A i \in 1 .. c :
           loop[i] = IF Stops(loop[i - 1]) THEN loop[i - 1] ELSE Back(loop[i - 1])
  <2> HIDE DEF Stops, Back, first
  <2>1. 0 \in 0 .. c /\ \A i \in 1 .. c : i \in 0 .. c /\ i # 0
    OBVIOUS
  <2>2. \A i \in 0 .. c : loop[i] = IF i = 0 THEN first
                                    ELSE IF Stops(loop[i - 1]) THEN loop[i - 1] ELSE Back(loop[i - 1])
    BY <1>7
  <2>3. QED
    BY <2>1, <2>2
<1> DEFINE ColOf(s) == Len(Drawn(t, IF s.row = 0 THEN s.ptr ELSE Editor!Above(t, c, 0), c))
           Found(s) == /\ s \in V /\ s.row = Cardinality(Feeds(t, s.ptr, c)) /\ s.row <= n
                       /\ s.col = ColOf(s)
<1>9. Found(first)
  <2>1. Cardinality(Feeds(t, c, c)) = 0
    BY NoFeeds
  <2>2. Drawn(t, c, c) = <<>>
    BY <1>2, DrawnNone
  <2>3. QED
    BY <1>4, <2>1, <2>2
<1>10. ASSUME NEW s, Found(s), ~ Stops(s)
       PROVE  Found(Back(s)) /\ Back(s).ptr = s.ptr - 1
  <2> HIDE DEF V, Stops, Back, ColOf
  <2>1. /\ Back(s) \in V /\ Back(s).ptr = s.ptr - 1 /\ s.ptr \in 1 .. c
        /\ Back(s).row = IF t[s.ptr] = Enter THEN s.row + 1 ELSE s.row
        /\ Back(s).col = IF t[s.ptr] = Enter \/ s.row # 0 THEN s.col
                         ELSE IF t[s.ptr] = Tab THEN s.col + 2 ELSE s.col + 1
        /\ t[s.ptr] = Enter => s.row # n
    BY <1>3, <1>10
  <2>2. PICK i \in Nat : i = s.ptr - 1 /\ i + 1 = s.ptr /\ i < c
    BY <2>1
  <2>3. Cardinality(Feeds(t, i, c))
        = Cardinality(Feeds(t, i + 1, c)) + (IF t[i + 1] = Enter THEN 1 ELSE 0)
    BY <2>2, FeedsBack
  <2>4. s.row \in Nat /\ s.row <= n /\ s.col = ColOf(s) /\ s.row = Cardinality(Feeds(t, i + 1, c))
    BY <1>10, <2>2 DEF V
  <2>5. Back(s).row = Cardinality(Feeds(t, Back(s).ptr, c))
    BY <1>10, <2>1, <2>2, <2>3, <2>4
  <2>6. Back(s).row <= n
    BY <2>1, <2>4
  <2>7. PICK y : y = Back(s)
    OBVIOUS
  <2>8. y.col = ColOf(y)
    <3>1. CASE s.row # 0
      <4>1. y.row # 0
        BY <2>1, <2>4, <2>7, <3>1
      <4>2. y.col = s.col
        BY <2>1, <2>7, <3>1
      <4>3. QED
        BY <2>4, <3>1, <4>1, <4>2 DEF ColOf
    <3>2. CASE s.row = 0 /\ t[s.ptr] = Enter
      <4>1. y.row # 0 /\ y.col = s.col
        BY <2>1, <2>4, <2>7, <3>2
      <4>2. i + 1 \in 0 .. c /\ t[i + 1] = Enter /\ Cardinality(Feeds(t, i + 1, c)) = 0
        BY <2>1, <2>2, <2>4, <3>2
      <4>3. Editor!Above(t, c, 0) = i + 1
        <5>1. PICK p \in 0 .. c : p = i + 1
          BY <4>2
        <5>2. t[p] = Enter /\ Cardinality(Feeds(t, p, c)) = 0 /\ Cardinality(Feeds(t, p, c)) <= 0
          BY <4>2, <5>1
        <5>3. Editor!Above(t, c, 0) = p
          BY <1>2, <5>2, AboveIs
        <5>4. QED
          BY <5>1, <5>3
      <4>4. QED
        BY <2>2, <2>4, <3>2, <4>1, <4>3 DEF ColOf
    <3>3. CASE s.row = 0 /\ t[s.ptr] # Enter
      <4>1. y.row = 0 /\ y.ptr = i /\ y.col = IF t[i + 1] = Tab THEN s.col + 2 ELSE s.col + 1
        BY <2>1, <2>2, <2>7, <3>3
      <4>2. s.col = Len(Drawn(t, i + 1, c)) /\ s.col \in Nat
        BY <1>10, <2>2, <2>4, <3>3 DEF ColOf, V
      <4>3. t[i + 1] \in Chars /\ Len(Drawn(t, i, c)) = Len(Drawn(t, i + 1, c)) + Len(Glyph(t[i + 1]))
        BY <1>2, <2>2, DrawnBack
      <4>4. Len(Glyph(t[i + 1])) = IF t[i + 1] = Tab THEN 2 ELSE 1
        BY <4>3, GlyphIs
      <4>5. y.col = Len(Drawn(t, i, c))
        BY <4>1, <4>2, <4>3, <4>4
      <4>6. QED
        BY <4>1, <4>5 DEF ColOf
    <3>4. QED
      BY <3>1, <3>2, <3>3
  <2>9. QED
    BY <2>1, <2>5, <2>6, <2>7, <2>8
<1>11. PICK S : S = {i \in 0 .. c : Found(loop[i]) /\ (Stops(loop[i]) \/ loop[i].ptr = c - i)}
  OBVIOUS
<1>12. 0 \in S
  BY <1>8, <1>9, <1>11
<1>13. ASSUME NEW i \in 0 .. c - 1, i \in S PROVE i + 1 \in S
  <2> HIDE DEF V, Stops, Back, Found
  <2>1. i + 1 \in 1 .. c /\ i + 1 \in 0 .. c /\ (i + 1) - 1 = i /\ (c - i) - 1 = c - (i + 1)
    OBVIOUS
  <2>2. loop[i + 1] = IF Stops(loop[i]) THEN loop[i] ELSE Back(loop[i])
    BY <1>8, <2>1
  <2>3. CASE Stops(loop[i])
    BY <1>11, <1>13, <2>1, <2>2, <2>3
  <2>4. CASE ~ Stops(loop[i])
    <3>1. Found(loop[i]) /\ loop[i].ptr = c - i
      BY <1>11, <1>13, <2>4
    <3>2. Found(Back(loop[i])) /\ Back(loop[i]).ptr = (c - i) - 1
      BY <1>10, <2>4, <3>1
    <3>3. QED
      BY <1>11, <2>1, <2>2, <2>4, <3>2
  <2>5. QED
    BY <2>3, <2>4
<1>14. c \in S
  <2>1. \A i \in 0 .. c : i \in S
    <3>1. 0 \in Int /\ c \in Int /\ \A i \in 0 .. c - 1 : i \in S => i + 1 \in S
      BY <1>13
    <3>2. QED
      BY <1>12, <3>1, IntervalInduction
  <2>2. QED
    BY <2>1
<1>15. Found(loop[c]) /\ Stops(loop[c])
  <2>1. Found(loop[c]) /\ (Stops(loop[c]) \/ loop[c].ptr = c - c)
    BY <1>11, <1>14
  <2>2. c - c = 0
    OBVIOUS
  <2>3. QED
    BY <2>1, <2>2, EditConstants
<1> HIDE DEF ColOf
<1>16. PICK p \in 0 .. c : p = loop[c].ptr
  BY <1>15
<1>17. p = 0 \/ (t[p] = Enter /\ Cardinality(Feeds(t, p, c)) = n)
  BY <1>2, <1>15, <1>16, EditConstants
<1>18. Cardinality(Feeds(t, p, c)) <= n
  BY <1>15, <1>16
<1>19. Editor!Above(t, c, n) = p
  BY <1>2, <1>17, <1>18, AboveIs
<1>20. PICK x : x = loop[c]
  OBVIOUS
<1>21. x.row = Cardinality(Feeds(t, p, c)) /\ x.row <= n /\ x.col = ColOf(x) /\ x.col \in Nat
  BY <1>15, <1>16, <1>20
<1>22. x.col = Len(Drawn(t, Editor!Above(t, c, 0), c))
  <2>1. CASE x.row # 0
    BY <1>21, <2>1 DEF ColOf
  <2>2. CASE x.row = 0
    <3>1. p = 0 \/ t[p] = Enter
      BY <1>17
    <3>2. Cardinality(Feeds(t, p, c)) = 0
      BY <1>21, <2>2
    <3>3. Editor!Above(t, c, 0) = p
      BY <1>2, <3>1, <3>2, AboveIs
    <3>4. x.col = Len(Drawn(t, p, c))
      BY <1>16, <1>20, <1>21, <2>2 DEF ColOf
    <3>5. QED
      BY <3>3, <3>4
  <2>3. QED
    BY <2>1, <2>2
<1>23. QED
  BY <1>6, <1>16, <1>19, <1>20, <1>21, <1>22

LEMMA ForwardFinds ==
  ASSUME NEW b \in [Cells -> Chars], NEW c \in Nat, NEW g \in Nat, c + g <= MaxLength,
         NEW n \in Nat
  PROVE  /\ ted_move_forward(b, c, g, end, n) \in 0 .. end - g
         /\ ted_move_forward(b, c, g, end, n) = Editor!Below(TextOf(b, c, g), c, n)
<1>1. PICK t : t = TextOf(b, c, g)
  OBVIOUS
<1> IsText(t, b, c, g)
  BY <1>1, TextIs
<1>2. PICK m \in Nat : m = end - g
  BY DEF IsText
<1>3. /\ t \in Seq(Chars) /\ Len(t) = m /\ c <= m
      /\ \A i \in c + 1 .. m : t[i] = b[i - 1 + g]
  BY <1>2 DEF IsText
<1> DEFINE Before(p) == {q \in c .. p : b[q + g] = Enter}
           found == {p \in c .. end - g - 1 : b[p + g] = Enter /\ Cardinality(Before(p)) = n}
           starts == {s \in Editor!LineStarts(t) :
                        s > c /\ Editor!Count(Editor!LineStarts(t), c, s) = n}
<1>4. ASSUME NEW p \in c .. m - 1
      PROVE  Cardinality(Before(p)) = Cardinality(Feeds(t, c, p + 1))
  <2> DEFINE f == [q \in Before(p) |-> q + 1]
  <2>1. \A q \in c .. p : q + 1 \in c + 1 .. p + 1 /\ t[q + 1] = b[q + g]
    <3> TAKE q \in c .. p
    <3>1. q + 1 \in c + 1 .. m /\ (q + 1) - 1 + g = q + g /\ q + 1 \in c + 1 .. p + 1
      OBVIOUS
    <3>2. QED
      BY <1>3, <3>1
  <2>2. f \in [Before(p) -> Feeds(t, c, p + 1)]
    BY <2>1 DEF Feeds
  <2>3. \A x, y \in Before(p) : f[x] = f[y] => x = y
    OBVIOUS
  <2>4. ASSUME NEW y \in Feeds(t, c, p + 1) PROVE \E x \in Before(p) : f[x] = y
    <3>1. y \in c + 1 .. p + 1 /\ t[y] = Enter
      BY DEF Feeds
    <3>2. y - 1 \in c .. p /\ (y - 1) + 1 = y
      BY <3>1
    <3>3. y - 1 \in Before(p)
      BY <2>1, <3>1, <3>2
    <3>4. QED
      BY <3>2, <3>3
  <2>5. IsFiniteSet(Before(p))
    <3>1. IsFiniteSet(c .. p)
      BY FS_Interval
    <3>2. QED
      BY <3>1, FS_Subset
  <2> HIDE DEF f, Before
  <2>6. f \in Bijection(Before(p), Feeds(t, c, p + 1))
    BY <2>2, <2>3, <2>4 DEF Bijection, Injection, Surjection, IsInjective
  <2>7. ExistsBijection(Before(p), Feeds(t, c, p + 1))
    BY <2>6 DEF ExistsBijection
  <2>8. QED
    BY <2>5, <2>7, FS_Bijection
<1> HIDE DEF Before
<1>5. ASSUME NEW p
      PROVE  p \in found <=> /\ p \in c .. m - 1 /\ t[p + 1] = Enter
                             /\ Cardinality(Feeds(t, c, p + 1)) = n
  <2>1. CASE p \in c .. m - 1
    <3>1. p + 1 \in c + 1 .. m /\ (p + 1) - 1 + g = p + g
      BY <2>1
    <3>2. QED
      BY <1>2, <1>3, <1>4, <2>1, <3>1
  <2>2. CASE p \notin c .. m - 1
    BY <1>2, <2>2
  <2>3. QED
    BY <2>1, <2>2
<1>6. ASSUME NEW s
      PROVE  s \in starts <=> /\ s \in c + 1 .. m /\ t[s] = Enter
                              /\ Cardinality(Feeds(t, c, s)) = n
  <2>1. s \in Editor!LineStarts(t) /\ s > c <=> s \in c + 1 .. m /\ t[s] = Enter
    <3>1. s \in Editor!LineStarts(t) <=> s = 0 \/ (s \in 1 .. m /\ t[s] = Enter)
      BY <1>3 DEF Editor!LineStarts
    <3>2. QED
      BY <1>3, <3>1
  <2>2. s \in c + 1 .. m =>
          Editor!Count(Editor!LineStarts(t), c, s) = Cardinality(Feeds(t, c, s))
    BY <1>3, CountIsFeeds
  <2>3. QED
    BY <2>1, <2>2
<1>7. /\ ted_move_forward(b, c, g, end, n)
         = IF found = {} THEN end - g ELSE 1 + CHOOSE p \in found : TRUE
      /\ Editor!Below(t, c, n) = IF starts = {} THEN Len(t) ELSE CHOOSE s \in starts : TRUE
  BY DEF ted_move_forward, Editor!Below, Before
<1> HIDE DEF found, starts
<1>8. \A p \in found : p \in c .. m - 1 /\ p + 1 \in starts
  <2> TAKE p \in found
  <2>1. /\ p \in c .. m - 1 /\ t[p + 1] = Enter /\ Cardinality(Feeds(t, c, p + 1)) = n
    BY <1>5
  <2>2. p + 1 \in c + 1 .. m
    BY <2>1
  <2>3. QED
    BY <1>6, <2>1, <2>2
<1>9. \A s \in starts : s - 1 \in found
  <2> TAKE s \in starts
  <2>1. s \in c + 1 .. m /\ t[s] = Enter /\ Cardinality(Feeds(t, c, s)) = n
    BY <1>6
  <2>2. s - 1 \in c .. m - 1 /\ (s - 1) + 1 = s
    BY <2>1
  <2>3. QED
    BY <1>5, <2>1, <2>2
<1>10. ASSUME NEW u \in starts, NEW s \in starts, u < s PROVE FALSE
  <2>1. /\ s \in c + 1 .. m /\ t[s] = Enter /\ Cardinality(Feeds(t, c, s)) = n
        /\ u \in c + 1 .. m /\ Cardinality(Feeds(t, c, u)) = n
    BY <1>6
  <2>2. s \in Feeds(t, c, s) /\ s \in Nat /\ u \in Nat
    BY <2>1 DEF Feeds
  <2>3. Cardinality(Feeds(t, c, u)) < Cardinality(Feeds(t, c, s))
    BY <1>10, <2>2, FewerBefore
  <2>4. QED
    BY <2>1, <2>3
<1>11. \A u, s \in starts : u = s
  <2> SUFFICES ASSUME NEW u \in starts, NEW s \in starts PROVE u = s
    OBVIOUS
  <2>1. u \in Nat /\ s \in Nat
    BY <1>6
  <2>2. QED
    BY <1>10, <2>1
<1>12. CASE found = {}
  <2>1. starts = {}
    BY <1>9, <1>12
  <2>2. QED
    BY <1>1, <1>2, <1>3, <1>7, <1>12, <2>1
<1>13. CASE found # {}
  <2>1. PICK p : p = CHOOSE x \in found : TRUE
    OBVIOUS
  <2>2. p \in found
    BY <1>13, <2>1
  <2>3. p \in c .. m - 1 /\ p + 1 \in starts
    BY <1>8, <2>2
  <2>4. Editor!Below(t, c, n) = CHOOSE s \in starts : TRUE
    BY <1>7, <2>3
  <2>5. Editor!Below(t, c, n) = p + 1
    BY <1>11, <2>3, <2>4
  <2>6. ted_move_forward(b, c, g, end, n) = 1 + p
    BY <1>7, <1>13, <2>1
  <2>7. 1 + p = p + 1 /\ 1 + p \in 0 .. m
    BY <2>3
  <2>8. QED
    BY <1>1, <1>2, <2>5, <2>6, <2>7
<1>14. QED
  BY <1>12, <1>13

-----------------------------------------------------------------------------
(***************************************************************************)
(* A character more, and one less.                                         *)
(***************************************************************************)
\* Text t with character x put after position p.
With(t, p, x) == SubSeq(t, 1, p) \o <<x>> \o SubSeq(t, p + 1, Len(t))

\* Text t without its character number p.
Without(t, p) == SubSeq(t, 1, p - 1) \o SubSeq(t, p + 1, Len(t))

LEMMA WithOneMore ==
  ASSUME NEW t \in Seq(Chars), NEW p \in 0 .. Len(t), NEW x \in Chars,
         NEW r \in Seq(Chars), Len(r) = Len(t) + 1,
         \A i \in 1 .. p : r[i] = t[i], r[p + 1] = x,
         \A i \in p + 2 .. Len(r) : r[i] = t[i - 1]
  PROVE  r = With(t, p, x)
<1>1. PICK m \in Nat : m = Len(t)
  OBVIOUS
<1>2. PICK u, v : u = SubSeq(t, 1, p) /\ v = SubSeq(t, p + 1, Len(t))
  OBVIOUS
<1>3. /\ u \in Seq(Chars) /\ Len(u) = p /\ \A i \in 1 .. p : u[i] = t[i]
      /\ v \in Seq(Chars) /\ Len(v) = m - p /\ \A i \in 1 .. m - p : v[i] = t[p + i]
  <2>1. p \in Nat /\ p <= m
    BY <1>1
  <2>2. /\ SubSeq(t, 1, p) = [i \in 1 .. p |-> t[i]]
        /\ SubSeq(t, p + 1, Len(t)) = [i \in 1 .. m - p |-> t[p + i]]
    BY <1>1, <2>1
  <2>3. /\ \A i \in 1 .. p : t[i] \in Chars
        /\ \A i \in 1 .. m - p : t[p + i] \in Chars
    BY <1>1, <2>1
  <2>4. u = [i \in 1 .. p |-> t[i]] /\ v = [i \in 1 .. m - p |-> t[p + i]]
    BY <1>2, <2>2
  <2>5. m - p \in Nat
    BY <1>1, <2>1
  <2>6. u \in Seq(Chars) /\ Len(u) = p /\ \A i \in 1 .. p : u[i] = t[i]
    BY <2>1, <2>3, <2>4
  <2>7. v \in Seq(Chars) /\ Len(v) = m - p /\ \A i \in 1 .. m - p : v[i] = t[p + i]
    BY <2>3, <2>4, <2>5
  <2>8. QED
    BY <2>6, <2>7
<1>4. PICK w : w = u \o <<x>> \o v
  OBVIOUS
<1>5. /\ w \in Seq(Chars) /\ Len(w) = m + 1
      /\ \A i \in 1 .. m + 1 :
           w[i] = IF i <= p THEN u[i] ELSE IF i = p + 1 THEN x ELSE v[i - (p + 1)]
  BY <1>1, <1>3, <1>4
<1>6. ASSUME NEW i \in 1 .. m + 1 PROVE r[i] = w[i]
  <2>1. CASE i <= p
    <3>1. i \in 1 .. p
      BY <2>1
    <3>2. w[i] = u[i]
      BY <1>5, <2>1
    <3>3. QED
      BY <1>3, <3>1, <3>2
  <2>2. CASE i = p + 1
    BY <1>5, <2>2
  <2>3. CASE i > p + 1
    <3>1. i \in p + 2 .. m + 1 /\ i - (p + 1) \in 1 .. m - p /\ p + (i - (p + 1)) = i - 1
      BY <1>1, <2>3
    <3>2. w[i] = v[i - (p + 1)]
      BY <1>5, <2>3
    <3>3. QED
      BY <1>1, <1>3, <3>1, <3>2
  <2>4. QED
    BY <2>1, <2>2, <2>3
<1>7. r = w
  BY <1>1, <1>5, <1>6, SeqEqual
<1>8. QED
  BY <1>2, <1>4, <1>7 DEF With

LEMMA WithOneLess ==
  ASSUME NEW t \in Seq(Chars), NEW p \in 1 .. Len(t),
         NEW r \in Seq(Chars), Len(r) = Len(t) - 1,
         \A i \in 1 .. p - 1 : r[i] = t[i],
         \A i \in p .. Len(r) : r[i] = t[i + 1]
  PROVE  r = Without(t, p)
<1>1. PICK m \in Nat : m = Len(t)
  OBVIOUS
<1>2. PICK u, v : u = SubSeq(t, 1, p - 1) /\ v = SubSeq(t, p + 1, Len(t))
  OBVIOUS
<1>3. /\ u \in Seq(Chars) /\ Len(u) = p - 1 /\ \A i \in 1 .. p - 1 : u[i] = t[i]
      /\ v \in Seq(Chars) /\ Len(v) = m - p /\ \A i \in 1 .. m - p : v[i] = t[p + i]
  <2>1. p \in Nat /\ p <= m /\ p - 1 \in Nat /\ m - p \in Nat
    BY <1>1
  <2>2. /\ SubSeq(t, 1, p - 1) = [i \in 1 .. p - 1 |-> t[i]]
        /\ SubSeq(t, p + 1, Len(t)) = [i \in 1 .. m - p |-> t[p + i]]
    BY <1>1, <2>1
  <2>3. /\ \A i \in 1 .. p - 1 : t[i] \in Chars
        /\ \A i \in 1 .. m - p : t[p + i] \in Chars
    BY <1>1, <2>1
  <2>4. u = [i \in 1 .. p - 1 |-> t[i]] /\ v = [i \in 1 .. m - p |-> t[p + i]]
    BY <1>2, <2>2
  <2>5. u \in Seq(Chars) /\ Len(u) = p - 1 /\ \A i \in 1 .. p - 1 : u[i] = t[i]
    BY <2>1, <2>3, <2>4
  <2>6. v \in Seq(Chars) /\ Len(v) = m - p /\ \A i \in 1 .. m - p : v[i] = t[p + i]
    BY <2>1, <2>3, <2>4
  <2>7. QED
    BY <2>5, <2>6
<1>4. PICK w : w = u \o v
  OBVIOUS
<1>5. /\ w \in Seq(Chars) /\ Len(w) = m - 1
      /\ \A i \in 1 .. m - 1 : w[i] = IF i <= p - 1 THEN u[i] ELSE v[i - (p - 1)]
  <2>1. PICK k \in Nat : k = p - 1
    OBVIOUS
  <2> p \in Nat /\ p <= m
    BY <1>1
  <2> PICK l \in Nat : l = m - p
    OBVIOUS
  <2> k + l = m - 1
    BY <2>1
  <2>2. u \in Seq(Chars) /\ v \in Seq(Chars) /\ Len(u) = k /\ Len(v) = l
    BY <1>3, <2>1
  <2>3. w \in Seq(Chars) /\ Len(w) = k + l
    <3>1. u \o v \in Seq(Chars) /\ Len(u \o v) = Len(u) + Len(v)
      BY <2>2, ConcatProperties
    <3>2. QED
      BY <1>4, <2>2, <3>1
  <2>4. \A i \in 1 .. k + l : w[i] = IF i <= k THEN u[i] ELSE v[i - k]
    BY <1>4, <2>1, <2>2
  <2>5. QED
    BY <2>1, <2>3, <2>4
<1>6. ASSUME NEW i \in 1 .. m - 1 PROVE r[i] = w[i]
  <2>1. CASE i <= p - 1
    BY <1>3, <1>5, <2>1
  <2>2. CASE i > p - 1
    <3>1. i \in p .. m - 1 /\ i - (p - 1) \in 1 .. m - p /\ p + (i - (p - 1)) = i + 1
      BY <1>1, <2>2
    <3>2. w[i] = v[i - (p - 1)]
      BY <1>5, <2>2
    <3>3. QED
      BY <1>1, <1>3, <3>1, <3>2
  <2>3. QED
    BY <2>1, <2>2
<1>7. r = w
  BY <1>1, <1>5, <1>6, SeqEqual
<1>8. QED
  BY <1>2, <1>4, <1>7 DEF Without

\* A character written in the gap, at the cursor.
LEMMA InsertIs ==
  ASSUME NEW b \in [Cells -> Chars], NEW c \in Nat, NEW g \in Nat, c + g <= MaxLength, g > 0,
         NEW x \in Chars, NEW d \in [Cells -> Chars],
         d[c] = x, \A a \in Cells : a # c => d[a] = b[a], NEW t, t = TextOf(b, c, g)
  PROVE  /\ c + 1 \in Nat /\ g - 1 \in Nat /\ c + 1 + (g - 1) <= MaxLength
         /\ TextOf(d, c + 1, g - 1) = With(t, c, x)
<1>1. c \in Cells
  BY EditConstants
<1>2. c + 1 \in Nat /\ g - 1 \in Nat /\ c + 1 + (g - 1) <= MaxLength
  BY EditConstants
<1>3. PICK m \in Nat : m = end - g /\ m + g = MaxLength /\ c <= m /\ end - (g - 1) = m + 1
  BY EditConstants
<1>4. /\ t \in Seq(Chars) /\ Len(t) = m
      /\ \A i \in 1 .. c : t[i] = b[i - 1]
      /\ \A i \in c + 1 .. m : t[i] = b[i - 1 + g]
  <2>1. IsText(t, b, c, g)
    BY TextIs
  <2>2. QED
    BY <1>3, <2>1 DEF IsText
<1>5. PICK r : r = TextOf(d, c + 1, g - 1)
  OBVIOUS
<1>6. /\ r \in Seq(Chars) /\ Len(r) = m + 1
      /\ \A i \in 1 .. c + 1 : r[i] = d[i - 1]
      /\ \A i \in c + 1 + 1 .. m + 1 : r[i] = d[i - 1 + (g - 1)]
  <2>1. IsText(r, d, c + 1, g - 1)
    BY <1>1, <1>2, <1>5, TextIs
  <2>2. QED
    BY <1>3, <2>1 DEF IsText
<1>7. ASSUME NEW i \in 1 .. c PROVE r[i] = t[i]
  <2>1. i \in 1 .. c + 1 /\ i - 1 \in Cells /\ i - 1 # c
    BY <1>3, EditConstants
  <2>2. QED
    BY <1>1, <1>4, <1>6, <2>1
<1>8. r[c + 1] = x
  <2>1. c + 1 \in 1 .. c + 1 /\ (c + 1) - 1 = c
    OBVIOUS
  <2>2. QED
    BY <1>1, <1>6, <2>1
<1>9. ASSUME NEW i \in c + 2 .. m + 1 PROVE r[i] = t[i - 1]
  <2>1. /\ i \in c + 1 + 1 .. m + 1 /\ i - 1 + (g - 1) \in Cells /\ i - 1 + (g - 1) # c
        /\ i - 1 \in c + 1 .. m /\ (i - 1) - 1 + g = i - 1 + (g - 1)
    BY <1>3, EditConstants
  <2>2. QED
    BY <1>1, <1>4, <1>6, <2>1
<1>10. c \in 0 .. Len(t) /\ r \in Seq(Chars) /\ Len(r) = Len(t) + 1 /\ Len(r) = m + 1
  BY <1>3, <1>4, <1>6
<1>11. r = With(t, c, x)
  <2>1. \A i \in c + 2 .. Len(r) : r[i] = t[i - 1]
    BY <1>9, <1>10
  <2>2. \A i \in 1 .. c : r[i] = t[i]
    BY <1>7
  <2>3. QED
    BY <1>4, <1>8, <1>10, <2>1, <2>2, WithOneMore
<1>12. QED
  BY <1>1, <1>2, <1>5, <1>11

\* The character before the cursor taken in the gap.
LEMMA EraseIs ==
  ASSUME NEW b \in [Cells -> Chars], NEW c \in Nat, NEW g \in Nat, c + g <= MaxLength, c > 0,
         NEW t, t = TextOf(b, c, g)
  PROVE  /\ c - 1 \in Nat /\ g + 1 \in Nat /\ c - 1 + (g + 1) <= MaxLength
         /\ TextOf(b, c - 1, g + 1) = Without(t, c)
<1>1. c - 1 \in Nat /\ g + 1 \in Nat /\ c - 1 + (g + 1) <= MaxLength
  BY EditConstants
<1>2. PICK m \in Nat : m = end - g /\ m + g = MaxLength /\ c <= m /\ end - (g + 1) = m - 1
  BY EditConstants
<1>3. /\ t \in Seq(Chars) /\ Len(t) = m
      /\ \A i \in 1 .. c : t[i] = b[i - 1]
      /\ \A i \in c + 1 .. m : t[i] = b[i - 1 + g]
  <2>1. IsText(t, b, c, g)
    BY TextIs
  <2>2. QED
    BY <1>2, <2>1 DEF IsText
<1>4. PICK r : r = TextOf(b, c - 1, g + 1)
  OBVIOUS
<1>5. /\ r \in Seq(Chars) /\ Len(r) = m - 1
      /\ \A i \in 1 .. c - 1 : r[i] = b[i - 1]
      /\ \A i \in c - 1 + 1 .. m - 1 : r[i] = b[i - 1 + (g + 1)]
  <2>1. IsText(r, b, c - 1, g + 1)
    BY <1>1, <1>4, TextIs
  <2>2. QED
    BY <1>2, <2>1 DEF IsText
<1>6. \A i \in 1 .. c - 1 : r[i] = t[i]
  BY <1>3, <1>5
<1>7. ASSUME NEW i \in c .. m - 1 PROVE r[i] = t[i + 1]
  <2>1. /\ i \in c - 1 + 1 .. m - 1 /\ i + 1 \in c + 1 .. m
        /\ i - 1 + (g + 1) = (i + 1) - 1 + g
    BY <1>2
  <2>2. QED
    BY <1>3, <1>5, <2>1
<1>8. c \in 1 .. Len(t) /\ r \in Seq(Chars) /\ Len(r) = Len(t) - 1 /\ Len(r) = m - 1
  BY <1>2, <1>3, <1>5
<1>9. r = Without(t, c)
  <2>1. \A i \in c .. Len(r) : r[i] = t[i + 1]
    BY <1>7, <1>8
  <2>2. QED
    BY <1>3, <1>6, <1>8, <2>1, WithOneLess
<1>10. QED
  BY <1>1, <1>4, <1>9

-----------------------------------------------------------------------------
(***************************************************************************)
(* The steps.                                                              *)
(***************************************************************************)
\* The cursor and the gap stay in the buffer, and there is no text before
\* the file is read.
EditInvariant ==
  /\ buffer \in [Cells -> Chars]
  /\ cursor \in Nat /\ gap \in Nat /\ length \in 0 .. MaxLength
  /\ pc \in {"open", "edit", "prompt", "save", "end"}
  /\ pc = "edit" => cursor + gap <= MaxLength
  /\ pc = "open" => cursor = 0 /\ length = 0 /\ file \in Files

LEMMA TextCases ==
  /\ pc = "edit" => Text = TextOf(buffer, cursor, gap)
  /\ pc # "edit" => Text = [i \in 1 .. length |-> buffer[i - 1]]
  /\ pc' = "edit" => Text' = TextOf(buffer', cursor', gap')
  /\ pc' # "edit" => Text' = [i \in 1 .. length' |-> buffer'[i - 1]]
  BY DEF Text, TextOf

LEMMA InitStep ==
  Init => EditInvariant /\ Editor!Init
<1> SUFFICES ASSUME Init PROVE EditInvariant /\ Editor!Init
  OBVIOUS
<1>1. EditInvariant
  <2>1. buffer \in [Cells -> Chars]
    BY EditConstants DEF Init, Cells
  <2>2. QED
    BY <2>1, EditConstants DEF Init, EditInvariant
<1>2. Text = <<>>
  <2>1. Text = [i \in 1 .. 0 |-> buffer[i - 1]]
    BY TextCases DEF Init
  <2>2. QED
    BY <2>1
<1>3. QED
  BY <1>1, <1>2, EditConstants DEF Init, Editor!Init

\* The contents of the file are the text, and the gap is moved to the offset.
LEMMA OpenStep ==
  ASSUME EditInvariant, NEW offset \in 0 .. MaxLength, Open(offset)
  PROVE  EditInvariant' /\ Editor!Open
<1> DEFINE contents == IF file = NoFile THEN <<>> ELSE file
           b == [a \in DOMAIN buffer |-> IF a < Len(contents) THEN contents[a + 1] ELSE buffer[a]]
           c == IF offset > Len(contents) THEN Len(contents) ELSE offset
<1>1. /\ pc = "open" /\ cursor = 0 /\ length = 0 /\ file \in Files
      /\ buffer \in [Cells -> Chars] /\ gap \in Nat
  BY DEF Open, EditInvariant
<1>2. contents \in Seq(Chars)
  BY <1>1, EditConstants
<1>3. PICK n \in Nat : n = Len(contents)
  BY <1>2
<1>4. UNCHANGED <<length, file, saved>>
  BY DEF Open
<1>5. Text = <<>>
  <2>1. Text = [i \in 1 .. 0 |-> buffer[i - 1]]
    BY <1>1, TextCases
  <2>2. QED
    BY <2>1
<1>6. CASE n >= MaxLength
  <2>1. pc' = "end" /\ UNCHANGED <<buffer, cursor, gap>>
    BY <1>3, <1>6 DEF Open
  <2>2. Text' = <<>>
    <3>1. Text' = [i \in 1 .. 0 |-> buffer'[i - 1]]
      BY <1>1, <1>4, <2>1, TextCases
    <3>2. QED
      BY <3>1
  <2>3. EditInvariant'
    BY <1>1, <1>4, <2>1, EditConstants DEF EditInvariant
  <2>4. ~ Len(contents) < MaxLength
    BY <1>3, <1>6, EditConstants
  <2> HIDE DEF b, c
  <2>5. QED
    BY <1>1, <1>4, <1>5, <2>1, <2>2, <2>3, <2>4 DEF Editor!Open
<1>7. CASE ~ n >= MaxLength
  <2>1. /\ pc' = "edit"
        /\ buffer' = ted_set_cursor(b, n, end - n, c) /\ cursor' = c /\ gap' = end - n
    BY <1>3, <1>7 DEF Open, Show
  <2>2. b \in [Cells -> Chars]
    <3>1. \A a \in Cells : a < n => contents[a + 1] \in Chars
      <4> TAKE a \in Cells
      <4>1. a < n => a + 1 \in 1 .. n
        BY EditConstants
      <4>2. QED
        BY <1>2, <1>3, <4>1
    <3> HIDE DEF contents
    <3>2. QED
      BY <1>1, <1>3, <3>1
  <2>3. \A i \in 1 .. n : b[i - 1] = contents[i]
    <3> TAKE i \in 1 .. n
    <3>1. i - 1 \in Cells /\ i - 1 < n /\ (i - 1) + 1 = i
      BY <1>7, EditConstants
    <3> HIDE DEF contents
    <3>2. QED
      BY <1>1, <1>3, <3>1
  <2>4. c \in 0 .. n
    BY <1>3
  <2> HIDE DEF b, c
  <2>5. PICK g \in Nat : g = end - n /\ n + g = MaxLength /\ end - g = n
    BY <1>7, EditConstants
  <2>6. c \in Nat /\ c + g <= MaxLength
    BY <2>4, <2>5
  <2>7. buffer' \in [Cells -> Chars] /\ TextOf(buffer', c, g) = TextOf(b, n, g)
    BY <2>1, <2>2, <2>5, <2>6, CursorMoves
  <2>8. TextOf(b, n, g) = contents
    <3>1. PICK t : t = TextOf(b, n, g)
      OBVIOUS
    <3>2. IsText(t, b, n, g)
      BY <2>2, <2>5, <3>1, TextIs
    <3>3. t \in Seq(Chars) /\ Len(t) = n /\ \A i \in 1 .. n : t[i] = b[i - 1]
      BY <2>5, <3>2 DEF IsText
    <3> HIDE DEF contents
    <3>4. t = contents
      BY <1>2, <1>3, <2>3, <3>3, SeqEqual
    <3>5. QED
      BY <3>1, <3>4
  <2>9. Text' = contents
    BY <2>1, <2>5, <2>7, <2>8, TextCases
  <2>10. EditInvariant'
    BY <1>1, <1>4, <2>1, <2>5, <2>6, <2>7, EditConstants DEF EditInvariant
  <2>11. Len(contents) < MaxLength /\ cursor' \in 0 .. Len(contents)
    BY <1>3, <1>7, <2>1, <2>4, EditConstants
  <2>12. QED
    BY <1>1, <1>4, <2>1, <2>9, <2>10, <2>11 DEF Editor!Open
<1>8. QED
  BY <1>6, <1>7

\* While the text is edited.
LEMMA EditingNow ==
  ASSUME EditInvariant, pc = "edit"
  PROVE  /\ buffer \in [Cells -> Chars] /\ cursor \in Nat /\ gap \in Nat
         /\ cursor + gap <= MaxLength
         /\ Text = TextOf(buffer, cursor, gap) /\ Text \in Seq(Chars)
         /\ end - gap \in Nat /\ Len(Text) = end - gap /\ cursor <= Len(Text)
<1>1. /\ buffer \in [Cells -> Chars] /\ cursor \in Nat /\ gap \in Nat /\ cursor + gap <= MaxLength
      /\ Text = TextOf(buffer, cursor, gap)
  BY TextCases DEF EditInvariant
<1>2. IsText(Text, buffer, cursor, gap)
  BY <1>1, TextIs
<1>3. QED
  BY <1>1, <1>2 DEF IsText

LEMMA EditingNext ==
  ASSUME EditInvariant, Editing,
         buffer' \in [Cells -> Chars], cursor' \in Nat, gap' \in Nat, cursor' + gap' <= MaxLength
  PROVE  EditInvariant' /\ Text' = TextOf(buffer', cursor', gap')
<1>1. pc = "edit" /\ UNCHANGED <<pc, length, file, saved>>
  BY DEF Editing
<1>2. Text' = TextOf(buffer', cursor', gap')
  BY <1>1, TextCases
<1>3. EditInvariant'
  BY <1>1 DEF EditInvariant
<1>4. QED
  BY <1>2, <1>3

LEMMA InsertStep ==
  ASSUME EditInvariant, NEW c \in Chars, Insert(c)
  PROVE  EditInvariant' /\ Editor!Edit
<1>1. Editing /\ pc = "edit" /\ UNCHANGED <<pc, length, file, saved>>
  BY DEF Insert, Editing
<1>2. /\ buffer \in [Cells -> Chars] /\ cursor \in Nat /\ gap \in Nat
      /\ cursor + gap <= MaxLength /\ Text = TextOf(buffer, cursor, gap)
      /\ Len(Text) = end - gap
  BY <1>1, EditingNow
<1>3. CASE gap > 0
  <2>1. buffer' = [buffer EXCEPT ![cursor] = c] /\ cursor' = cursor + 1 /\ gap' = gap - 1
    BY <1>3 DEF Insert, Show
  <2>2. /\ buffer' \in [Cells -> Chars] /\ cursor + 1 \in Nat /\ gap - 1 \in Nat
        /\ cursor + 1 + (gap - 1) <= MaxLength
        /\ TextOf(buffer', cursor + 1, gap - 1)
           = With(Text, cursor, c)
    <3>1. PICK d : d = [buffer EXCEPT ![cursor] = c]
      OBVIOUS
    <3>2. cursor \in Cells
      BY <1>2, <1>3, EditConstants
    <3>3. /\ d \in [Cells -> Chars] /\ d[cursor] = c
          /\ \A a \in Cells : a # cursor => d[a] = buffer[a]
      BY <1>2, <3>1, <3>2
    <3>4. /\ cursor + 1 \in Nat /\ gap - 1 \in Nat
          /\ cursor + 1 + (gap - 1) <= MaxLength
          /\ TextOf(d, cursor + 1, gap - 1) = With(Text, cursor, c)
      BY <1>2, <1>3, <3>3, InsertIs
    <3>5. QED
      BY <2>1, <3>1, <3>3, <3>4
  <2>3. EditInvariant' /\ Text' = TextOf(buffer', cursor', gap')
    BY <1>1, <2>1, <2>2, EditingNext
  <2>4. Len(Text) < MaxLength
    BY <1>2, <1>3, EditConstants
  <2>5. Editor!Type(c)
    BY <2>1, <2>2, <2>3, <2>4 DEF Editor!Type, With
  <2>6. QED
    BY <1>1, <2>3, <2>5 DEF Editor!Edit
<1>4. CASE ~ gap > 0
  <2>1. buffer' = buffer /\ cursor' = cursor /\ gap' = gap
    BY <1>4 DEF Insert, Show
  <2>2. EditInvariant' /\ Text' = TextOf(buffer', cursor', gap')
    BY <1>1, <1>2, <2>1, EditingNext
  <2>3. Text' = Text
    BY <1>2, <2>1, <2>2
  <2>4. ~ Len(Text) < MaxLength
    BY <1>2, <1>4, EditConstants
  <2>5. Editor!Type(c)
    BY <2>1, <2>3, <2>4 DEF Editor!Type
  <2>6. QED
    BY <1>1, <2>2, <2>5 DEF Editor!Edit
<1>5. QED
  BY <1>3, <1>4

LEMMA BackspaceStep ==
  ASSUME EditInvariant, Backspace
  PROVE  EditInvariant' /\ Editor!Edit
<1>1. Editing /\ pc = "edit" /\ UNCHANGED <<pc, length, file, saved>>
  BY DEF Backspace, Editing
<1>2. /\ buffer \in [Cells -> Chars] /\ cursor \in Nat /\ gap \in Nat
      /\ cursor + gap <= MaxLength /\ Text = TextOf(buffer, cursor, gap)
  BY <1>1, EditingNow
<1>3. CASE cursor > begin
  <2>1. cursor > 0 /\ buffer' = buffer /\ cursor' = cursor - 1 /\ gap' = gap + 1
    BY <1>3, EditConstants DEF Backspace, Show
  <2>2. /\ cursor - 1 \in Nat /\ gap + 1 \in Nat /\ cursor - 1 + (gap + 1) <= MaxLength
        /\ TextOf(buffer, cursor - 1, gap + 1)
           = Without(Text, cursor)
    BY <1>2, <2>1, EraseIs
  <2>3. EditInvariant' /\ Text' = TextOf(buffer', cursor', gap')
    BY <1>1, <1>2, <2>1, <2>2, EditingNext
  <2>4. Editor!Backspace
    BY <2>1, <2>2, <2>3 DEF Editor!Backspace, Without
  <2>5. QED
    BY <1>1, <2>3, <2>4 DEF Editor!Edit
<1>4. CASE ~ cursor > begin
  <2>1. ~ cursor > 0 /\ buffer' = buffer /\ cursor' = cursor /\ gap' = gap
    BY <1>4, EditConstants DEF Backspace, Show
  <2>2. EditInvariant' /\ Text' = TextOf(buffer', cursor', gap')
    BY <1>1, <1>2, <2>1, EditingNext
  <2>3. Editor!Backspace
    BY <1>2, <2>1, <2>2 DEF Editor!Backspace
  <2>4. QED
    BY <1>1, <2>2, <2>3 DEF Editor!Edit
<1>5. QED
  BY <1>3, <1>4

LEMMA CursorStep ==
  ASSUME EditInvariant, NEW new \in Nat, new <= end - gap, MoveCursor(new)
  PROVE  EditInvariant' /\ Editor!MoveTo(new) /\ pc = "edit" /\ UNCHANGED <<pc, file, saved>>
<1>1. Editing /\ pc = "edit" /\ UNCHANGED <<pc, length, file, saved>>
  BY DEF MoveCursor, Editing
<1>2. /\ buffer \in [Cells -> Chars] /\ cursor \in Nat /\ gap \in Nat
      /\ cursor + gap <= MaxLength /\ Text = TextOf(buffer, cursor, gap)
  BY <1>1, EditingNow
<1>3. buffer' = ted_set_cursor(buffer, cursor, gap, new) /\ cursor' = new /\ gap' = gap
  BY DEF MoveCursor, Show
<1>4. new + gap <= MaxLength
  BY <1>2, EditConstants
<1>5. buffer' \in [Cells -> Chars] /\ TextOf(buffer', new, gap) = Text
  BY <1>2, <1>3, <1>4, CursorMoves
<1>6. EditInvariant' /\ Text' = TextOf(buffer', cursor', gap')
  BY <1>1, <1>2, <1>3, <1>4, <1>5, EditingNext
<1>7. QED
  BY <1>1, <1>3, <1>5, <1>6 DEF Editor!MoveTo

LEMMA KeyStep ==
  ASSUME EditInvariant, HandleKey
  PROVE  EditInvariant' /\ Editor!Edit
<1>1. pc = "edit"
  BY DEF HandleKey, MoveCursor, Editing
<1>2. /\ buffer \in [Cells -> Chars] /\ cursor \in Nat /\ gap \in Nat
      /\ cursor + gap <= MaxLength /\ Text = TextOf(buffer, cursor, gap)
      /\ end - gap \in Nat /\ Len(Text) = end - gap /\ cursor <= Len(Text)
  BY <1>1, EditingNow
<1>3. CASE cursor > begin /\ MoveCursor(cursor - 1)
  <2>1. cursor > 0 /\ cursor - 1 \in Nat /\ cursor - 1 <= end - gap
    BY <1>2, <1>3, EditConstants
  <2>2. EditInvariant' /\ Editor!MoveTo(cursor - 1) /\ UNCHANGED <<pc, file, saved>>
    BY <1>3, <2>1, CursorStep
  <2>3. QED
    BY <1>1, <2>1, <2>2 DEF Editor!Edit
<1>4. CASE cursor < end - gap /\ MoveCursor(cursor + 1)
  <2>1. cursor < Len(Text) /\ cursor + 1 \in Nat /\ cursor + 1 <= end - gap
    BY <1>2, <1>4
  <2>2. EditInvariant' /\ Editor!MoveTo(cursor + 1) /\ UNCHANGED <<pc, file, saved>>
    BY <1>4, <2>1, CursorStep
  <2>3. QED
    BY <1>1, <2>1, <2>2 DEF Editor!Edit
<1>5. ASSUME NEW n \in {1, PageSize},
             MoveCursor(ted_move_backward(buffer, cursor, n).ptr)
      PROVE  EditInvariant' /\ Editor!Edit
  <2>1. PICK p : p = ted_move_backward(buffer, cursor, n).ptr
    OBVIOUS
  <2>2. n \in Nat
    BY EditConstants
  <2>3. p \in 0 .. cursor /\ p = Editor!Above(Text, cursor, n)
    BY <1>2, <2>1, <2>2, BackwardFinds
  <2>4. p \in Nat /\ p <= end - gap
    BY <1>2, <2>3
  <2>5. MoveCursor(p)
    BY <1>5, <2>1
  <2>6. EditInvariant' /\ Editor!MoveTo(p) /\ UNCHANGED <<pc, file, saved>>
    BY <2>4, <2>5, CursorStep
  <2>7. Editor!MoveTo(Editor!Above(Text, cursor, n))
    BY <2>3, <2>6
  <2>8. QED
    BY <1>1, <2>6, <2>7 DEF Editor!Edit
<1>6. ASSUME NEW n \in {1, PageSize},
             MoveCursor(ted_move_forward(buffer, cursor, gap, end, n))
      PROVE  EditInvariant' /\ Editor!Edit
  <2>1. PICK p : p = ted_move_forward(buffer, cursor, gap, end, n)
    OBVIOUS
  <2>2. n \in Nat
    BY EditConstants
  <2>3. p \in 0 .. end - gap /\ p = Editor!Below(Text, cursor, n)
    BY <1>2, <2>1, <2>2, ForwardFinds
  <2>4. p \in Nat /\ p <= end - gap
    BY <1>2, <2>3
  <2>5. MoveCursor(p)
    BY <1>6, <2>1
  <2>6. EditInvariant' /\ Editor!MoveTo(p) /\ UNCHANGED <<pc, file, saved>>
    BY <2>4, <2>5, CursorStep
  <2>7. Editor!MoveTo(Editor!Below(Text, cursor, n))
    BY <2>3, <2>6
  <2>8. QED
    BY <1>1, <2>6, <2>7 DEF Editor!Edit
<1>7. QED
  BY <1>3, <1>4, <1>5, <1>6 DEF HandleKey

LEMMA EscapeStep ==
  ASSUME EditInvariant, Escape
  PROVE  EditInvariant' /\ Editor!Leave
<1>1. /\ pc = "edit" /\ pc' = "prompt" /\ length' = end - gap /\ cursor' = end - gap
      /\ buffer' = ted_set_cursor(buffer, cursor, gap, end - gap)
      /\ UNCHANGED <<gap, file, saved>>
  BY DEF Escape
<1>2. /\ buffer \in [Cells -> Chars] /\ cursor \in Nat /\ gap \in Nat
      /\ cursor + gap <= MaxLength /\ Text = TextOf(buffer, cursor, gap)
      /\ end - gap \in Nat /\ Len(Text) = end - gap
  BY <1>1, EditingNow
<1>3. PICK m \in Nat : m = end - gap /\ m + gap <= MaxLength /\ m \in 0 .. MaxLength
  BY <1>2, EditConstants
<1>4. buffer' \in [Cells -> Chars] /\ TextOf(buffer', m, gap) = Text
  BY <1>1, <1>2, <1>3, CursorMoves
<1>5. Text' = [i \in 1 .. m |-> buffer'[i - 1]]
  BY <1>1, <1>3, TextCases
<1>6. TextOf(buffer', m, gap) = [i \in 1 .. m |-> buffer'[i - 1]]
  <2>1. TextOf(buffer', m, gap)
        = [i \in 1 .. m |-> buffer'[IF i <= m THEN i - 1 ELSE i - 1 + gap]]
    BY <1>3 DEF TextOf
  <2>2. \A i \in 1 .. m : (IF i <= m THEN i - 1 ELSE i - 1 + gap) = i - 1
    OBVIOUS
  <2>3. QED
    BY <2>1, <2>2
<1>7. EditInvariant'
  BY <1>1, <1>2, <1>3, <1>4 DEF EditInvariant
<1>8. QED
  BY <1>1, <1>2, <1>4, <1>5, <1>6, <1>7 DEF Editor!Leave

LEMMA LeaveStep ==
  ASSUME EditInvariant, Leave
  PROVE  EditInvariant' /\ Editor!Discard
<1>1. pc = "prompt" /\ pc' = "end" /\ UNCHANGED <<buffer, cursor, gap, length, file, saved>>
  BY DEF Leave
<1>2. Text' = Text
  BY <1>1, TextCases
<1>3. QED
  BY <1>1, <1>2 DEF EditInvariant, Editor!Discard

LEMMA OpenToSaveStep ==
  ASSUME EditInvariant, OpenToSave
  PROVE  EditInvariant' /\ Editor!Clear
<1>1. /\ pc = "prompt" /\ pc' = "save" /\ file' = <<>>
      /\ UNCHANGED <<buffer, cursor, gap, length, saved>>
  BY DEF OpenToSave
<1>2. Text' = Text
  BY <1>1, TextCases
<1>3. QED
  BY <1>1, <1>2 DEF EditInvariant, Editor!Clear

LEMMA SaveStep ==
  ASSUME EditInvariant, Save
  PROVE  EditInvariant' /\ Editor!Save
<1>1. pc = "save" /\ pc' = "end" /\ UNCHANGED <<buffer, cursor, gap, length>>
  BY DEF Save
<1>2. PICK n \in 0 .. length : /\ file' = [i \in 1 .. n |-> buffer[begin + i - 1]]
                               /\ saved' = (n = length)
  BY DEF Save
<1>3. buffer \in [Cells -> Chars] /\ length \in 0 .. MaxLength
  BY DEF EditInvariant
<1>4. Text = [i \in 1 .. length |-> buffer[i - 1]] /\ Text' = Text
  BY <1>1, TextCases
<1>5. Len(Text) = length /\ SubSeq(Text, 1, n) = file'
  <2>1. length \in Nat
    BY <1>3
  <2>2. Len(Text) = length /\ \A i \in 1 .. length : Text[i] = buffer[i - 1]
    BY <1>4, <2>1
  <2>3. SubSeq(Text, 1, n) = [i \in 1 .. n |-> Text[i]]
    <3>1. n \in Nat
      BY <2>1
    <3>2. SubSeq(Text, 1, n) = [i \in 1 .. n |-> Text[1 + i - 1]]
      BY <3>1
    <3>3. \A i \in 1 .. n : 1 + i - 1 = i
      OBVIOUS
    <3>4. QED
      BY <3>2, <3>3
  <2>4. \A i \in 1 .. n : Text[i] = buffer[begin + i - 1]
    <3> TAKE i \in 1 .. n
    <3>1. i \in 1 .. length /\ begin + i - 1 = i - 1
      BY <2>1, EditConstants
    <3>2. QED
      BY <2>2, <3>1
  <2>5. QED
    BY <1>2, <2>2, <2>3, <2>4
<1>6. Editor!Save
  BY <1>1, <1>2, <1>4, <1>5 DEF Editor!Save
<1>7. EditInvariant'
  BY <1>1 DEF EditInvariant
<1>8. QED
  BY <1>6, <1>7

LEMMA EditStep ==
  ASSUME EditInvariant, [Next]_vars
  PROVE  EditInvariant' /\ [Editor!Next]_(Editor!vars)
<1>1. ASSUME NEW offset \in 0 .. MaxLength, Open(offset)
      PROVE  EditInvariant' /\ Editor!Next
  BY <1>1, OpenStep DEF Editor!Next
<1>2. ASSUME NEW c \in Chars, Insert(c)
      PROVE  EditInvariant' /\ Editor!Next
  BY <1>2, InsertStep DEF Editor!Next
<1>3. CASE Backspace
  BY <1>3, BackspaceStep DEF Editor!Next
<1>4. CASE HandleKey
  BY <1>4, KeyStep DEF Editor!Next
<1>5. CASE Escape
  BY <1>5, EscapeStep DEF Editor!Next
<1>6. CASE Leave
  BY <1>6, LeaveStep DEF Editor!Next
<1>7. CASE OpenToSave
  BY <1>7, OpenToSaveStep DEF Editor!Next
<1>8. CASE Save
  BY <1>8, SaveStep DEF Editor!Next
<1>9. CASE UNCHANGED vars
  <2>1. UNCHANGED <<buffer, cursor, gap, length, pc, file, saved>>
    BY <1>9 DEF vars
  <2>2. Text' = Text
    BY <2>1, TextCases
  <2>3. QED
    BY <2>1, <2>2 DEF EditInvariant, Editor!vars
<1>10. QED
  BY <1>1, <1>2, <1>3, <1>4, <1>5, <1>6, <1>7, <1>8, <1>9 DEF Next

-----------------------------------------------------------------------------
(***************************************************************************)
(* The lines that are drawn: those of Line, for any text t and any first   *)
(* position top.                                                           *)
(***************************************************************************)
StartOf(t, top, k) == IF k = 0 THEN top ELSE Editor!Below(t, top, k)

IsStop(t, s, e) ==
  /\ e \in s .. Len(t) /\ (e = Len(t) \/ t[e + 1] = Enter)
  /\ \A i \in s + 1 .. e : t[i] # Enter

StopOf(t, s) ==
  CHOOSE e \in s .. Len(t) : /\ e = Len(t) \/ t[e + 1] = Enter
                             /\ \A i \in s + 1 .. e : t[i] # Enter

LineOf(t, top, k) == SubSeq(t, StartOf(t, top, k) + 1, StopOf(t, StartOf(t, top, k)))

LinesOf(t, top) ==
  [k \in 0 .. NumRows - 1 |->
     IF k < Cardinality(Feeds(t, top, Len(t))) + 1 THEN Expanded(LineOf(t, top, k)) ELSE <<>>]

\* s is the start of the line of position p.
IsStart(t, top, s, p) ==
  /\ s \in top .. p /\ (s = top \/ t[s] = Enter)
  /\ Feeds(t, s, p) = {}

\* One position more.
LEMMA FeedsMore ==
  ASSUME NEW t, NEW i \in Nat, NEW j \in Nat, i <= j
  PROVE  /\ Feeds(t, i, j + 1) = Feeds(t, i, j) \cup (IF t[j + 1] = Enter THEN {j + 1} ELSE {})
         /\ Cardinality(Feeds(t, i, j + 1))
            = Cardinality(Feeds(t, i, j)) + (IF t[j + 1] = Enter THEN 1 ELSE 0)
<1>1. Feeds(t, i, j + 1) = Feeds(t, i, j) \cup (IF t[j + 1] = Enter THEN {j + 1} ELSE {})
  <2>1. i + 1 .. j + 1 = (i + 1 .. j) \cup {j + 1}
    OBVIOUS
  <2>2. QED
    BY <2>1 DEF Feeds
<1>2. j + 1 \notin Feeds(t, i, j) /\ IsFiniteSet(Feeds(t, i, j))
  <2>1. j + 1 \notin Feeds(t, i, j)
    BY DEF Feeds
  <2>2. IsFiniteSet(Feeds(t, i, j))
    BY FeedsFinite
  <2>3. QED
    BY <2>1, <2>2
<1>3. Cardinality(Feeds(t, i, j)) \in Nat
  BY FeedsFinite
<1>4. CASE t[j + 1] = Enter
  <2>1. Feeds(t, i, j + 1) = Feeds(t, i, j) \cup {j + 1}
    BY <1>1, <1>4
  <2>2. Cardinality(Feeds(t, i, j + 1)) = Cardinality(Feeds(t, i, j)) + 1
    BY <1>2, <2>1, FS_AddElement
  <2>3. QED
    BY <1>1, <1>4, <2>2
<1>5. CASE t[j + 1] # Enter
  <2>1. Feeds(t, i, j + 1) = Feeds(t, i, j)
    BY <1>1, <1>5
  <2>2. QED
    BY <1>1, <1>3, <1>5, <2>1
<1>6. QED
  BY <1>4, <1>5

\* Up to a further position, there are the line feeds in between more.
LEMMA FeedsSame ==
  ASSUME NEW t, NEW i \in Nat, NEW j \in Nat, NEW k \in Nat, i <= j, j <= k,
         Feeds(t, j, k) = {}
  PROVE  Feeds(t, i, k) = Feeds(t, i, j)
<1>1. \A q \in i + 1 .. k : q \in i + 1 .. j \/ q \in j + 1 .. k
  OBVIOUS
<1>2. \A q \in i + 1 .. j : q \in i + 1 .. k
  OBVIOUS
<1>3. \A q \in j + 1 .. k : t[q] # Enter
  BY DEF Feeds
<1>4. QED
  BY <1>1, <1>2, <1>3 DEF Feeds

LEMMA FeedsWithin ==
  ASSUME NEW t, NEW i \in Nat, NEW j \in Nat, NEW k \in Nat, j <= k
  PROVE  Cardinality(Feeds(t, i, j)) <= Cardinality(Feeds(t, i, k))
<1>1. Feeds(t, i, j) \subseteq Feeds(t, i, k)
  BY DEF Feeds
<1>2. QED
  BY <1>1, FeedsFinite, FS_Subset

\* The only position with a line feed and n of them up to it.
LEMMA BelowIs ==
  ASSUME NEW t \in Seq(Chars), NEW c \in Nat, NEW n \in Nat, NEW v \in Feeds(t, c, Len(t)),
         Cardinality(Feeds(t, c, v)) = n
  PROVE  Editor!Below(t, c, n) = v
<1> DEFINE starts == {s \in Editor!LineStarts(t) :
                        s > c /\ Editor!Count(Editor!LineStarts(t), c, s) = n}
<1>0. PICK m \in Nat : m = Len(t)
  OBVIOUS
<1>6. ASSUME NEW s
      PROVE  s \in starts <=> /\ s \in c + 1 .. m /\ t[s] = Enter
                              /\ Cardinality(Feeds(t, c, s)) = n
  <2>1. s \in Editor!LineStarts(t) /\ s > c <=> s \in c + 1 .. m /\ t[s] = Enter
    <3>1. s \in Editor!LineStarts(t) <=> s = 0 \/ (s \in 1 .. m /\ t[s] = Enter)
      BY <1>0 DEF Editor!LineStarts
    <3>2. QED
      BY <3>1
  <2>2. s \in c + 1 .. m =>
          Editor!Count(Editor!LineStarts(t), c, s) = Cardinality(Feeds(t, c, s))
    <3>1. s \in c + 1 .. m => s \in 0 .. Len(t)
      BY <1>0
    <3>2. QED
      BY <3>1, CountIsFeeds
  <2>3. QED
    BY <2>1, <2>2
<1>7. Editor!Below(t, c, n) = IF starts = {} THEN Len(t) ELSE CHOOSE s \in starts : TRUE
  BY DEF Editor!Below
<1> HIDE DEF starts
<1>8. v \in starts
  <2>1. v \in c + 1 .. m /\ t[v] = Enter
    BY <1>0 DEF Feeds
  <2>2. QED
    BY <1>6, <2>1
<1>10. ASSUME NEW u \in starts, NEW s \in starts, u < s PROVE FALSE
  <2>1. /\ s \in c + 1 .. m /\ t[s] = Enter /\ Cardinality(Feeds(t, c, s)) = n
        /\ u \in c + 1 .. m /\ Cardinality(Feeds(t, c, u)) = n
    BY <1>6
  <2>2. s \in Feeds(t, c, s) /\ s \in Nat /\ u \in Nat
    BY <2>1 DEF Feeds
  <2>3. Cardinality(Feeds(t, c, u)) < Cardinality(Feeds(t, c, s))
    BY <1>10, <2>2, FewerBefore
  <2>4. QED
    BY <2>1, <2>3
<1>11. \A u, s \in starts : u = s
  <2> SUFFICES ASSUME NEW u \in starts, NEW s \in starts PROVE u = s
    OBVIOUS
  <2>1. u \in Nat /\ s \in Nat
    BY <1>6
  <2>2. QED
    BY <1>10, <2>1
<1>12. Editor!Below(t, c, n) \in starts
  BY <1>7, <1>8
<1>13. QED
  BY <1>8, <1>11, <1>12

LEMMA StartIs ==
  ASSUME NEW t \in Seq(Chars), NEW top \in Nat, NEW p \in 0 .. Len(t), NEW s, IsStart(t, top, s, p)
  PROVE  StartOf(t, top, Cardinality(Feeds(t, top, p))) = s
<1>1. PICK m \in Nat : m = Len(t)
  OBVIOUS
<1>2. s \in Nat /\ top <= s /\ s <= p /\ p <= m /\ p \in Nat /\ Feeds(t, s, p) = {}
      /\ (s = top \/ t[s] = Enter)
  BY <1>1 DEF IsStart
<1>3. Feeds(t, top, p) = Feeds(t, top, s)
  BY <1>2, FeedsSame
<1>4. CASE s = top
  <2>1. Cardinality(Feeds(t, top, p)) = 0
    BY <1>2, <1>3, <1>4, NoFeeds
  <2>2. QED
    BY <1>4, <2>1 DEF StartOf
<1>5. CASE s # top
  <2>1. s \in Feeds(t, top, m) /\ s \in Feeds(t, top, s)
    BY <1>2, <1>5 DEF Feeds
  <2>2. PICK n : n = Cardinality(Feeds(t, top, s))
    OBVIOUS
  <2>3. n \in Nat
    BY <1>2, <2>2, FeedsFinite
  <2>4. Editor!Below(t, top, n) = s
    BY <1>1, <2>1, <2>2, <2>3, BelowIs
  <2>5. n # 0
    <3>1. 0 = Cardinality(Feeds(t, top, top)) /\ top < s
      BY <1>2, <1>5, NoFeeds
    <3>2. Cardinality(Feeds(t, top, top)) < Cardinality(Feeds(t, top, s))
      BY <1>2, <2>1, <3>1, FewerBefore
    <3>3. QED
      BY <2>2, <3>1, <3>2
  <2>6. QED
    BY <1>3, <2>2, <2>4, <2>5 DEF StartOf
<1>6. QED
  BY <1>4, <1>5

LEMMA StopIsOne ==
  ASSUME NEW t \in Seq(Chars), NEW s \in Nat, NEW e, IsStop(t, s, e)
  PROVE  StopOf(t, s) = e
<1>1. PICK m \in Nat : m = Len(t)
  OBVIOUS
<1>2. ASSUME NEW x, NEW y, IsStop(t, s, x), IsStop(t, s, y), x < y PROVE FALSE
  <2>1. x \in Nat /\ y \in Nat /\ s <= x /\ y <= m /\ (x = m \/ t[x + 1] = Enter)
        /\ \A i \in s + 1 .. y : t[i] # Enter
    BY <1>1, <1>2 DEF IsStop
  <2>2. x + 1 \in s + 1 .. y /\ x # m
    BY <1>2, <2>1
  <2>3. QED
    BY <2>1, <2>2
<1>3. ASSUME NEW x, IsStop(t, s, x) PROVE x = e
  <2>1. x \in Nat /\ e \in Nat
    BY <1>1, <1>3 DEF IsStop
  <2>2. ~ x < e
    BY <1>2, <1>3, Zenon
  <2>3. ~ e < x
    BY <1>2, <1>3, Zenon
  <2>4. QED
    BY <2>1, <2>2, <2>3
<1>4. StopOf(t, s) = CHOOSE x \in s .. Len(t) : IsStop(t, s, x)
  BY DEF StopOf, IsStop
<1>5. e \in s .. Len(t)
  BY DEF IsStop
<1>6. QED
  BY <1>3, <1>4, <1>5

\* A line ends after each of its positions.
LEMMA StopIs ==
  ASSUME NEW t \in Seq(Chars), NEW s \in Nat, NEW p \in 0 .. Len(t), s <= p, Feeds(t, s, p) = {}
  PROVE  IsStop(t, s, StopOf(t, s)) /\ p <= StopOf(t, s)
<1>1. PICK m \in Nat : m = Len(t)
  OBVIOUS
<1>2. PICK S : S = {e \in Nat : p <= e /\ e <= m /\ (e = m \/ t[e + 1] = Enter)}
  OBVIOUS
<1>3. m \in S /\ S \subseteq Nat
  BY <1>1, <1>2
<1>4. PICK e \in S : \A x \in S : e <= x
  BY <1>3, LeastNatural
<1>5. e \in Nat /\ p <= e /\ e <= m /\ (e = m \/ t[e + 1] = Enter)
  BY <1>2
<1>6. ASSUME NEW i \in s + 1 .. e, t[i] = Enter PROVE FALSE
  <2>1. CASE i <= p
    <3>1. i \in s + 1 .. p
      BY <2>1
    <3>2. QED
      BY <1>6, <3>1 DEF Feeds
  <2>2. CASE ~ i <= p
    <3>1. PICK j \in Nat : j = i - 1 /\ j + 1 = i /\ p <= j /\ j < e
      BY <1>5, <2>2
    <3>2. j \in S
      BY <1>2, <1>5, <1>6, <3>1
    <3>3. QED
      BY <1>4, <1>5, <3>1, <3>2
  <2>3. QED
    BY <2>1, <2>2
<1>7. IsStop(t, s, e)
  BY <1>1, <1>5, <1>6 DEF IsStop
<1>8. StopOf(t, s) = e
  BY <1>7, StopIsOne
<1>9. QED
  BY <1>5, <1>7, <1>8

\* The line that is drawn on row r, from its start to a position p.
LEMMA LineAt ==
  ASSUME NEW t \in Seq(Chars), NEW top \in Nat, NEW p \in 0 .. Len(t), NEW s, IsStart(t, top, s, p),
         NEW r \in 0 .. NumRows - 1, r = Cardinality(Feeds(t, top, p))
  PROVE  /\ Begins(Drawn(t, s, p), LinesOf(t, top)[r]) /\ LinesOf(t, top)[r] \in Seq(Glyphs)
         /\ p = Len(t) \/ t[p + 1] = Enter => LinesOf(t, top)[r] = Drawn(t, s, p)
<1>1. PICK m \in Nat : m = Len(t)
  OBVIOUS
<1>2. s \in Nat /\ top <= s /\ s <= p /\ p <= m /\ p \in Nat /\ Feeds(t, s, p) = {}
  BY <1>1 DEF IsStart
<1>3. PICK e : e = StopOf(t, s)
  OBVIOUS
<1>4. IsStop(t, s, e) /\ p <= e
  BY <1>2, <1>3, StopIs
<1>5. e \in Nat /\ e <= m /\ s <= e
  BY <1>1, <1>2, <1>4 DEF IsStop
<1>6. StartOf(t, top, r) = s
  BY StartIs
<1>7. LineOf(t, top, r) = SubSeq(t, s + 1, e)
  BY <1>3, <1>6 DEF LineOf
<1>8. r < Cardinality(Feeds(t, top, Len(t))) + 1
  <2>1. Cardinality(Feeds(t, top, p)) <= Cardinality(Feeds(t, top, m))
    BY <1>2, FeedsWithin
  <2>2. Cardinality(Feeds(t, top, p)) \in Nat /\ Cardinality(Feeds(t, top, m)) \in Nat
    BY <1>2, FeedsFinite
  <2>3. QED
    BY <1>1, <2>1, <2>2
<1>9. LinesOf(t, top)[r] = Drawn(t, s, e)
  BY <1>7, <1>8 DEF LinesOf, Drawn
<1>10. Drawn(t, s, e) \in Seq(Glyphs) /\ Begins(Drawn(t, s, p), Drawn(t, s, e))
  <2>1. e \in 0 .. Len(t) /\ e <= Len(t)
    BY <1>1, <1>5
  <2>2. QED
    BY <1>2, <1>4, <1>5, <2>1, DrawnIsSeq, DrawnBegins
<1>11. ASSUME p = m \/ t[p + 1] = Enter PROVE e = p
  <2>1. \A i \in s + 1 .. e : t[i] # Enter
    BY <1>4 DEF IsStop
  <2>2. ASSUME p < e PROVE FALSE
    <3>1. p # m /\ p + 1 \in s + 1 .. e
      BY <1>2, <1>5, <2>2
    <3>2. QED
      BY <1>11, <2>1, <3>1
  <2>3. QED
    BY <1>2, <1>4, <1>5, <2>2
<1>12. QED
  BY <1>1, <1>9, <1>10, <1>11

-----------------------------------------------------------------------------
(***************************************************************************)
(* The screen.                                                             *)
(***************************************************************************)
Colors == {BLACK, GREEN} \X {BLACK, GREEN}
ScreenCells == [char : Glyphs, color : Colors]
Gpus == [col : 0 .. NumCols - 1, row : 0 .. NumRows - 1, color : Colors,
         draw : [Positions -> ScreenCells], shown : [Positions -> ScreenCells]]
BlankCell == [char |-> Space, color |-> <<BLACK, BLACK>>]
Green == Foreground(GREEN)

LEMMA ScreenSizes == NumCols \in Nat \ {0} /\ NumRows \in Nat \ {0} /\ HalfScreen \in 0 .. NumRows - 1
  BY ScreenAssumption, EditAssumption DEF EditAssumption

LEMMA PlaceOnScreen ==
  ASSUME NEW c \in 0 .. NumCols - 1, NEW r \in 0 .. NumRows - 1
  PROVE  /\ At(c, r) \in Positions
         /\ At(c, r) % NumCols = c /\ At(c, r) \div NumCols = r
<1> DEFINE N == NumCols
           M == NumRows
<1>1. N \in Nat \ {0} /\ M \in Nat \ {0} /\ c \in 0 .. N - 1 /\ r \in 0 .. M - 1 /\ r \in Nat
  BY ScreenSizes
<1> HIDE DEF N, M
<1>2. (c + r * N) % N = c /\ (c + r * N) \div N = r
  BY <1>1, DivModUnique
<1>3. r * N <= (M - 1) * N
  <2>1. M - 1 \in Nat /\ r <= M - 1 /\ N \in Nat
    BY <1>1
  <2>2. QED
    BY <1>1, <2>1, ProductMonotonic
<1>4. (M - 1) * N = N * M - N /\ r * N \in Nat /\ N * M \in Nat
  BY <1>1
<1>5. c + r * N \in 0 .. N * M - 1
  BY <1>1, <1>3, <1>4
<1>6. QED
  BY <1>2, <1>5 DEF At, Positions, N, M

\* Where gpu_draw_char goes next.
LEMMA NextPlace ==
  ASSUME NEW c \in 0 .. NumCols - 1, NEW r \in 0 .. NumRows - 1
  PROVE  LET p == (At(c, r) + 1) % (NumCols * NumRows) IN
         /\ p % NumCols \in 0 .. NumCols - 1 /\ p \div NumCols \in 0 .. NumRows - 1
         /\ c + 1 < NumCols => p % NumCols = c + 1 /\ p \div NumCols = r
<1> DEFINE N == NumCols
           M == NumRows
           a == At(c, r) + 1
           p == a % (N * M)
<1>1. N \in Nat \ {0} /\ M \in Nat \ {0} /\ c \in 0 .. N - 1 /\ r \in 0 .. M - 1
  BY ScreenSizes
<1>2. N * M \in Nat \ {0}
  BY <1>1
<1>3. At(c, r) \in 0 .. N * M - 1
  BY PlaceOnScreen DEF Positions
<1>4. a \in Nat /\ a - 1 < N * M
  BY <1>2, <1>3
<1>5. p \in Nat /\ p < N * M /\ (a < N * M => p = a)
  <2> HIDE DEF a
  <2>1. PICK m \in Nat \ {0} : m = N * M
    BY <1>2
  <2>2. a % m \in 0 .. m - 1
    BY <1>4, <2>1
  <2>3. ASSUME a < m PROVE a % m = a
    <3>1. a \in 0 .. m - 1 /\ a + 0 * m = a
      BY <1>4, <2>1, <2>3
    <3>2. (a + 0 * m) % m = a
      BY <2>1, <3>1, DivModUnique
    <3>3. QED
      BY <3>1, <3>2
  <2>4. QED
    BY <2>1, <2>2, <2>3
<1>6. p % N \in 0 .. N - 1 /\ p \div N \in 0 .. M - 1
  <2> HIDE DEF p, N, M
  <2>1. p % N \in 0 .. N - 1 /\ p \div N \in Nat
    BY <1>1, <1>5, DivMod
  <2>2. p \div N < M
    BY <1>1, <1>5, DivBelow
  <2>3. QED
    BY <1>1, <2>1, <2>2
<1>7. ASSUME c + 1 < N PROVE p % N = c + 1 /\ p \div N = r
  <2>1. c + 1 \in 0 .. NumCols - 1 /\ a = At(c + 1, r)
    BY <1>1, <1>7 DEF At
  <2>2. At(c + 1, r) \in 0 .. N * M - 1 /\ At(c + 1, r) % N = c + 1 /\ At(c + 1, r) \div N = r
    BY <2>1, PlaceOnScreen DEF Positions
  <2>3. p = At(c + 1, r)
    BY <1>2, <1>5, <2>1, <2>2
  <2>4. QED
    BY <2>2, <2>3
<1>8. QED
  BY <1>6, <1>7

LEMMA CursorSet ==
  ASSUME NEW g \in Gpus, NEW c \in Nat, NEW r \in Nat
  PROVE  /\ gpu_set_cursor(g, c, r) \in Gpus
         /\ gpu_set_cursor(g, c, r).draw = g.draw
         /\ gpu_set_cursor(g, c, r).color = g.color
         /\ OnScreen(c, r) => gpu_set_cursor(g, c, r).col = c /\ gpu_set_cursor(g, c, r).row = r
  BY DEF gpu_set_cursor, OnScreen, Gpus

LEMMA CharDrawn ==
  ASSUME NEW g \in Gpus, NEW c \in Glyphs
  PROVE  /\ gpu_draw_char(g, c) \in Gpus /\ gpu_draw_char(g, c).color = g.color
         /\ gpu_draw_char(g, c).draw
            = [g.draw EXCEPT ![At(g.col, g.row)] = [char |-> c, color |-> g.color]]
         /\ g.col + 1 < NumCols =>
              gpu_draw_char(g, c).col = g.col + 1 /\ gpu_draw_char(g, c).row = g.row
<1>0. g.col \in 0 .. NumCols - 1 /\ g.row \in 0 .. NumRows - 1 /\ g.color \in Colors
      /\ g.draw \in [Positions -> ScreenCells]
  BY DEF Gpus
<1> DEFINE p == (At(g.col, g.row) + 1) % (NumCols * NumRows)
           x == [char |-> c, color |-> g.color]
<1>1. /\ p % NumCols \in 0 .. NumCols - 1 /\ p \div NumCols \in 0 .. NumRows - 1
      /\ g.col + 1 < NumCols => p % NumCols = g.col + 1 /\ p \div NumCols = g.row
  BY <1>0, NextPlace
<1>2. x \in ScreenCells
  BY <1>0 DEF ScreenCells
<1>3. gpu_draw_char(g, c) = [g EXCEPT !.draw[At(g.col, g.row)] = x,
                                      !.col = p % NumCols, !.row = p \div NumCols]
  BY DEF gpu_draw_char
<1> HIDE DEF p, x
<1>4. [g.draw EXCEPT ![At(g.col, g.row)] = x] \in [Positions -> ScreenCells]
  BY <1>0, <1>2
<1>5. PICK d : d = [g.draw EXCEPT ![At(g.col, g.row)] = x]
  OBVIOUS
<1>6. PICK c1, r1 : c1 = p % NumCols /\ r1 = p \div NumCols
  OBVIOUS
<1>7. gpu_draw_char(g, c) = [g EXCEPT !.draw = d, !.col = c1, !.row = r1]
  BY <1>3, <1>5, <1>6
<1>8. gpu_draw_char(g, c) \in Gpus /\ gpu_draw_char(g, c).color = g.color
      /\ gpu_draw_char(g, c).draw = d
      /\ gpu_draw_char(g, c).col = c1 /\ gpu_draw_char(g, c).row = r1
  BY <1>1, <1>4, <1>5, <1>6, <1>7 DEF Gpus
<1>9. QED
  BY <1>1, <1>5, <1>6, <1>8 DEF x

\* The lines L up to column w of row r.
CellAt(L, r, w, c1, r1) ==
  IF (r1 < r \/ (r1 = r /\ c1 < w)) /\ c1 < Len(L[r1])
    THEN [char |-> L[r1][c1 + 1], color |-> Green]
    ELSE BlankCell

Shows(g, L, r, w) ==
  \A c1 \in 0 .. NumCols - 1, r1 \in 0 .. NumRows - 1 :
    g.draw[At(c1, r1)] = CellAt(L, r, w, c1, r1)

\* The pen is where the next character goes.
PenAt(g, r, w) == w < NumCols /\ r < NumRows => g.col = w /\ g.row = r

DrawnTo(g, L, r, w) == g \in Gpus /\ g.color = Green /\ PenAt(g, r, w) /\ Shows(g, L, r, w)

LEMMA CharShown ==
  ASSUME NEW g, NEW L, NEW r \in 0 .. NumRows - 1, NEW w \in 0 .. NumCols - 1,
         DrawnTo(g, L, r, w), w < Len(L[r]), L[r][w + 1] \in Glyphs
  PROVE  DrawnTo(gpu_draw_char(g, L[r][w + 1]), L, r, w + 1)
<1>1. PICK x : x = L[r][w + 1]
  OBVIOUS
<1>2. PICK h : h = gpu_draw_char(g, x)
  OBVIOUS
<1>3. g \in Gpus /\ g.color = Green /\ g.col = w /\ g.row = r /\ w < NumCols /\ w \in Nat
      /\ g.draw \in [Positions -> ScreenCells]
  BY ScreenSizes DEF DrawnTo, PenAt, Gpus
<1>4. /\ h \in Gpus /\ h.color = Green
      /\ h.draw = [g.draw EXCEPT ![At(w, r)] = [char |-> x, color |-> Green]]
      /\ w + 1 < NumCols => h.col = w + 1 /\ h.row = r
  BY <1>1, <1>2, <1>3, CharDrawn
<1>5. ASSUME NEW c1 \in 0 .. NumCols - 1, NEW r1 \in 0 .. NumRows - 1
      PROVE  h.draw[At(c1, r1)] = CellAt(L, r, w + 1, c1, r1)
  <2>1. At(c1, r1) \in Positions /\ At(w, r) \in Positions
    BY PlaceOnScreen
  <2>2. CASE c1 = w /\ r1 = r
    <3>1. h.draw[At(c1, r1)] = [char |-> x, color |-> Green]
      BY <1>3, <1>4, <2>1, <2>2
    <3>2. c1 < w + 1 /\ c1 < Len(L[r1]) /\ L[r1][c1 + 1] = x
      BY <1>1, <1>3, <2>2
    <3>3. QED
      BY <2>2, <3>1, <3>2 DEF CellAt
  <2>3. CASE ~ (c1 = w /\ r1 = r)
    <3>1. At(c1, r1) # At(w, r)
      <4>1. At(c1, r1) % NumCols = c1 /\ At(c1, r1) \div NumCols = r1
            /\ At(w, r) % NumCols = w /\ At(w, r) \div NumCols = r
        BY PlaceOnScreen
      <4>2. QED
        BY <2>3, <4>1
    <3>2. h.draw[At(c1, r1)] = g.draw[At(c1, r1)]
      BY <1>3, <1>4, <2>1, <3>1
    <3>3. g.draw[At(c1, r1)] = CellAt(L, r, w, c1, r1)
      BY DEF DrawnTo, Shows
    <3>4. (r1 = r /\ c1 < w) <=> (r1 = r /\ c1 < w + 1)
      BY <1>3, <2>3
    <3>5. QED
      BY <3>2, <3>3, <3>4 DEF CellAt
  <2>4. QED
    BY <2>2, <2>3
<1>6. QED
  BY <1>1, <1>2, <1>4, <1>5 DEF DrawnTo, PenAt, Shows

LEMMA LineShown ==
  ASSUME NEW g, NEW L, NEW r \in 0 .. NumRows - 1, NEW w \in Nat,
         DrawnTo(g, L, r, w), w = Len(L[r])
  PROVE  DrawnTo(gpu_set_cursor(g, 0, r + 1), L, r + 1, 0)
<1>1. PICK h : h = gpu_set_cursor(g, 0, r + 1)
  OBVIOUS
<1>2. g \in Gpus /\ g.color = Green
  BY DEF DrawnTo
<1>3. /\ h \in Gpus /\ h.draw = g.draw /\ h.color = Green
      /\ OnScreen(0, r + 1) => h.col = 0 /\ h.row = r + 1
  <2>1. 0 \in Nat /\ r + 1 \in Nat
    BY ScreenSizes
  <2>2. QED
    BY <1>1, <1>2, <2>1, CursorSet
<1>4. PenAt(h, r + 1, 0)
  <2>1. r + 1 < NumRows => OnScreen(0, r + 1)
    BY ScreenSizes DEF OnScreen
  <2>2. QED
    BY <1>3, <2>1 DEF PenAt
<1>5. ASSUME NEW c1 \in 0 .. NumCols - 1, NEW r1 \in 0 .. NumRows - 1
      PROVE  h.draw[At(c1, r1)] = CellAt(L, r + 1, 0, c1, r1)
  <2>1. g.draw[At(c1, r1)] = CellAt(L, r, w, c1, r1)
    BY DEF DrawnTo, Shows
  <2>2. ((r1 < r \/ (r1 = r /\ c1 < w)) /\ c1 < Len(L[r1]))
        <=> ((r1 < r + 1 \/ (r1 = r + 1 /\ c1 < 0)) /\ c1 < Len(L[r1]))
    <3>1. r1 \in Int /\ r \in Int /\ c1 \in Nat /\ ~ c1 < 0
      BY ScreenSizes
    <3>2. r1 < r + 1 <=> (r1 < r \/ r1 = r)
      BY <3>1
    <3>3. r1 = r => (c1 < w <=> c1 < Len(L[r1]))
      OBVIOUS
    <3>4. QED
      BY <3>1, <3>2, <3>3
  <2>3. QED
    BY <1>3, <2>1, <2>2 DEF CellAt
<1>6. QED
  BY <1>1, <1>3, <1>4, <1>5 DEF DrawnTo, Shows

-----------------------------------------------------------------------------
(***************************************************************************)
(* ted_draw: one character of the text after the other.                    *)
(***************************************************************************)
Fits(L) == \A k \in 0 .. NumRows - 1 : Len(L[k]) <= NumCols

DrawChar(g, r, k) ==
  CASE k = Enter -> gpu_set_cursor(g, 0, r + 1)
    [] k = Tab -> gpu_draw_char(gpu_draw_char(g, Space), Space)
    [] OTHER -> gpu_draw_char(g, k)

LEMMA DrawCharIs ==
  ASSUME NEW g, NEW r, NEW k
  PROVE  /\ k = Enter => DrawChar(g, r, k) = gpu_set_cursor(g, 0, r + 1)
         /\ k # Enter /\ k = Tab => DrawChar(g, r, k) = gpu_draw_char(gpu_draw_char(g, Space), Space)
         /\ k # Enter /\ k # Tab => DrawChar(g, r, k) = gpu_draw_char(g, k)
<1>1. Enter # Tab
  BY EditAssumption DEF EditAssumption
<1>2. CASE k = Enter
  BY <1>1, <1>2 DEF DrawChar
<1>3. CASE k # Enter /\ k = Tab
  BY <1>1, <1>3 DEF DrawChar
<1>4. CASE k # Enter /\ k # Tab
  BY <1>4 DEF DrawChar
<1>5. QED
  BY <1>2, <1>3, <1>4

LEMMA DrawCharTyped ==
  ASSUME NEW g \in Gpus, g.color = Green, NEW r \in Nat, NEW k \in Chars
  PROVE  DrawChar(g, r, k) \in Gpus /\ DrawChar(g, r, k).color = Green
<1>1. Space \in Glyphs /\ k \in Glyphs
  BY DEF Glyphs
<1>2. CASE k = Enter
  <2>1. 0 \in Nat /\ r + 1 \in Nat
    OBVIOUS
  <2>2. gpu_set_cursor(g, 0, r + 1) \in Gpus /\ gpu_set_cursor(g, 0, r + 1).color = Green
    BY <2>1, CursorSet
  <2>3. QED
    BY <1>2, <2>2, DrawCharIs
<1>3. CASE k # Enter /\ k = Tab
  <2>1. PICK h : h = gpu_draw_char(g, Space)
    OBVIOUS
  <2>2. h \in Gpus /\ h.color = Green
    BY <1>1, <2>1, CharDrawn
  <2>3. gpu_draw_char(h, Space) \in Gpus /\ gpu_draw_char(h, Space).color = Green
    BY <1>1, <2>2, CharDrawn
  <2>4. QED
    BY <1>3, <2>1, <2>3, DrawCharIs
<1>4. CASE k # Enter /\ k # Tab
  <2>1. gpu_draw_char(g, k) \in Gpus /\ gpu_draw_char(g, k).color = Green
    BY <1>1, CharDrawn
  <2>2. QED
    BY <1>4, <2>1, DrawCharIs
<1>5. QED
  BY <1>2, <1>3, <1>4

\* What is drawn up to position p, in the line that starts at s.
ShownTo(g, t, top, p, s) ==
  /\ IsStart(t, top, s, p)
  /\ DrawnTo(g, LinesOf(t, top), Cardinality(Feeds(t, top, p)), Len(Drawn(t, s, p)))

LEMMA ShowChar ==
  ASSUME NEW t \in Seq(Chars), NEW top \in Nat, NEW p \in Nat, p < Len(t), NEW s, NEW g,
         NEW r \in 0 .. NumRows - 1, r = Cardinality(Feeds(t, top, p)),
         Fits(LinesOf(t, top)), ShownTo(g, t, top, p, s)
  PROVE  \E s2 : ShownTo(DrawChar(g, r, t[p + 1]), t, top, p + 1, s2)
<1>1. PICK L, k : L = LinesOf(t, top) /\ k = t[p + 1]
  OBVIOUS
<1>2. /\ s \in Nat /\ top <= s /\ s <= p /\ Feeds(t, s, p) = {} /\ IsStart(t, top, s, p)
      /\ (s = top \/ t[s] = Enter) /\ top <= p
  BY DEF IsStart, ShownTo
<1>3. PICK u : u = Drawn(t, s, p)
  OBVIOUS
<1>4. u \in Seq(Glyphs) /\ k \in Chars /\ Drawn(t, s, p + 1) = u \o Glyph(k)
  BY <1>1, <1>2, <1>3, DrawnMore
<1>5. PICK w \in Nat : w = Len(u)
  BY <1>4
<1>6. DrawnTo(g, L, r, w)
  BY <1>1, <1>3, <1>5 DEF ShownTo
<1>7. p \in 0 .. Len(t) /\ p + 1 \in 0 .. Len(t) /\ p + 1 \in Nat
  OBVIOUS
<1>8. PICK h : h = DrawChar(g, r, k)
  OBVIOUS
<1>9. CASE k = Enter
  <2>1. L[r] = u
    <3>1. p \in 0 .. Len(t) /\ IsStart(t, top, s, p) /\ (p = Len(t) \/ t[p + 1] = Enter)
      BY <1>1, <1>2, <1>7, <1>9
    <3>2. LinesOf(t, top)[r] = Drawn(t, s, p)
      BY <3>1, LineAt
    <3>3. QED
      BY <1>1, <1>3, <3>2
  <2>2. h = gpu_set_cursor(g, 0, r + 1)
    BY <1>8, <1>9, DrawCharIs
  <2>3. DrawnTo(h, L, r + 1, 0)
    <3>1. w = Len(L[r])
      BY <1>5, <2>1
    <3>2. QED
      BY <1>6, <2>2, <3>1, LineShown
  <2>4. Cardinality(Feeds(t, top, p + 1)) = r + 1
    <3>1. Cardinality(Feeds(t, top, p + 1))
          = Cardinality(Feeds(t, top, p)) + (IF t[p + 1] = Enter THEN 1 ELSE 0)
      BY <1>2, <1>7, FeedsMore
    <3>2. r \in Nat /\ t[p + 1] = Enter
      BY <1>1, <1>9, ScreenSizes
    <3>3. QED
      BY <3>1, <3>2
  <2>5. IsStart(t, top, p + 1, p + 1)
    <3>1. Feeds(t, p + 1, p + 1) = {} /\ p + 1 \in top .. p + 1
      BY <1>2, NoFeeds
    <3>2. QED
      BY <1>1, <1>9, <3>1 DEF IsStart
  <2>6. Len(Drawn(t, p + 1, p + 1)) = 0
    <3>1. Drawn(t, p + 1, p + 1) = <<>>
      BY <1>7, DrawnNone
    <3>2. QED
      BY <3>1
  <2>7. ShownTo(h, t, top, p + 1, p + 1)
    BY <1>1, <2>3, <2>4, <2>5, <2>6 DEF ShownTo
  <2>8. QED
    BY <1>1, <1>8, <2>7
<1>10. CASE k # Enter
  <2>1. Cardinality(Feeds(t, top, p + 1)) = r
    <3>1. Cardinality(Feeds(t, top, p + 1))
          = Cardinality(Feeds(t, top, p)) + (IF t[p + 1] = Enter THEN 1 ELSE 0)
      BY <1>2, <1>7, FeedsMore
    <3>2. r \in Nat /\ t[p + 1] # Enter
      BY <1>1, <1>10, ScreenSizes
    <3>3. QED
      BY <3>1, <3>2
  <2>2. IsStart(t, top, s, p + 1)
    <3>1. Feeds(t, s, p + 1) = Feeds(t, s, p) \cup {}
      BY <1>1, <1>2, <1>10, FeedsMore
    <3>2. s \in top .. p + 1
      BY <1>2
    <3>3. QED
      BY <1>2, <3>1, <3>2 DEF IsStart
  <2>3. PICK v, x : v = Drawn(t, s, p + 1) /\ x = Glyph(k)
    OBVIOUS
  <2>4. Begins(v, L[r]) /\ L[r] \in Seq(Glyphs)
    BY <1>1, <1>7, <2>1, <2>2, <2>3, LineAt
  <2>5. x \in Seq(Glyphs) /\ v = u \o x
    BY <1>4, <2>3, GlyphIs
  <2>6. Len(x) \in Nat /\ Len(v) = w + Len(x) /\ \A j \in 1 .. Len(x) : v[w + j] = x[j]
    <3>1. PICK n \in Nat : n = Len(x)
      BY <2>5
    <3>2. /\ Len(v) = w + n
          /\ \A i \in 1 .. w + n : v[i] = IF i <= w THEN u[i] ELSE x[i - w]
      BY <1>4, <1>5, <2>5, <3>1, ConcatProperties
    <3>3. \A j \in 1 .. n : w + j \in 1 .. w + n /\ ~ w + j <= w /\ (w + j) - w = j
      OBVIOUS
    <3>4. \A j \in 1 .. n : v[w + j] = x[j]
      BY <3>2, <3>3
    <3>5. QED
      BY <3>1, <3>2, <3>4
  <2>7. Len(L[r]) \in Nat /\ w + Len(x) <= Len(L[r]) /\ Len(L[r]) <= NumCols
    BY <1>1, <2>4, <2>6 DEF Begins, Fits
  <2>8. ASSUME NEW j \in 1 .. Len(x)
        PROVE  /\ L[r][w + j] = x[j] /\ x[j] \in Glyphs
               /\ w + j - 1 \in 0 .. NumCols - 1 /\ w + j - 1 < Len(L[r])
    <3>1. w + j \in 1 .. Len(v)
      BY <2>6
    <3>2. L[r][w + j] = x[j]
      BY <2>4, <2>6, <3>1 DEF Begins
    <3>3. QED
      BY <2>5, <2>6, <2>7, <3>2, ScreenSizes
  <2>9. CASE k = Tab
    <3>1. x = <<Space, Space>> /\ Len(x) = 2 /\ x[1] = Space /\ x[2] = Space
      BY <2>3, <2>9 DEF Glyph
    <3>2. /\ L[r][w + 1] = Space /\ Space \in Glyphs /\ w \in 0 .. NumCols - 1 /\ w < Len(L[r])
      <4>1. 1 \in 1 .. Len(x) /\ w + 1 - 1 = w
        BY <3>1
      <4>2. QED
        BY <2>8, <3>1, <4>1
    <3>3. /\ L[r][(w + 1) + 1] = Space /\ w + 1 \in 0 .. NumCols - 1 /\ w + 1 < Len(L[r])
      <4>1. 2 \in 1 .. Len(x) /\ w + 2 - 1 = w + 1 /\ w + 2 = (w + 1) + 1
        BY <3>1
      <4>2. QED
        BY <2>8, <3>1, <4>1
    <3>4. PICK h1 : h1 = gpu_draw_char(g, Space)
      OBVIOUS
    <3>5. DrawnTo(h1, L, r, w + 1)
      BY <1>6, <3>2, <3>4, CharShown
    <3>6. h = gpu_draw_char(h1, Space)
      BY <1>8, <1>10, <2>9, <3>4, DrawCharIs
    <3>7. DrawnTo(h, L, r, (w + 1) + 1)
      BY <3>2, <3>3, <3>5, <3>6, CharShown
    <3>8. (w + 1) + 1 = Len(v)
      BY <2>6, <3>1
    <3>9. ShownTo(h, t, top, p + 1, s)
      BY <1>1, <2>1, <2>2, <2>3, <3>7, <3>8 DEF ShownTo
    <3>10. QED
      BY <1>1, <1>8, <3>9
  <2>10. CASE k # Tab
    <3>1. x = <<k>> /\ Len(x) = 1 /\ x[1] = k
      BY <2>3, <2>10 DEF Glyph
    <3>2. /\ L[r][w + 1] = k /\ k \in Glyphs /\ w \in 0 .. NumCols - 1 /\ w < Len(L[r])
      <4>1. 1 \in 1 .. Len(x) /\ w + 1 - 1 = w
        BY <3>1
      <4>2. QED
        BY <2>8, <3>1, <4>1
    <3>3. h = gpu_draw_char(g, k)
      BY <1>8, <1>10, <2>10, DrawCharIs
    <3>4. DrawnTo(h, L, r, w + 1)
      BY <1>6, <3>2, <3>3, CharShown
    <3>5. w + 1 = Len(v)
      BY <2>6, <3>1
    <3>6. ShownTo(h, t, top, p + 1, s)
      BY <1>1, <2>1, <2>2, <2>3, <3>4, <3>5 DEF ShownTo
    <3>7. QED
      BY <1>1, <1>8, <3>6
  <2>11. QED
    BY <2>9, <2>10
<1>11. QED
  BY <1>9, <1>10

\* A loop of ted_draw is at position p of the text.
PlaceOf(p, c, g) == IF p < c THEN p ELSE p + g

Drew(x, t, top, c, g, p) ==
  /\ x.ptr = PlaceOf(p, c, g) /\ x.r = Cardinality(Feeds(t, top, p))
  /\ x.gpu \in Gpus /\ x.gpu.color = Green
  /\ Fits(LinesOf(t, top)) => \E s : ShownTo(x.gpu, t, top, p, s)

DrawNext(x, b, c, g) ==
  [ptr |-> IF x.ptr + 1 = c THEN x.ptr + 1 + g ELSE x.ptr + 1,
   r |-> IF b[x.ptr] = Enter THEN x.r + 1 ELSE x.r,
   gpu |-> DrawChar(x.gpu, x.r, b[x.ptr])]

LEMMA PlaceInText ==
  ASSUME NEW t, NEW b, NEW c \in Nat, NEW g \in Nat, c + g <= MaxLength, IsText(t, b, c, g),
         NEW p \in 0 .. Len(t)
  PROVE  /\ PlaceOf(p, c, g) \in Nat
         /\ PlaceOf(p, c, g) < end <=> p < Len(t)
         /\ p < Len(t) =>
              /\ b[PlaceOf(p, c, g)] = t[p + 1]
              /\ PlaceOf(p + 1, c, g)
                 = IF PlaceOf(p, c, g) + 1 = c THEN PlaceOf(p, c, g) + 1 + g ELSE PlaceOf(p, c, g) + 1
<1>1. PICK m \in Nat : m = Len(t) /\ m = end - g /\ m + g = MaxLength /\ end = MaxLength
  BY EditConstants DEF IsText
<1>2. p \in Nat /\ p <= m /\ c <= m
  BY <1>1
<1>3. CASE p < c
  <2>1. PlaceOf(p, c, g) = p /\ p < end /\ p < m
    BY <1>1, <1>2, <1>3 DEF PlaceOf
  <2>2. b[p] = t[p + 1]
    <3>1. p + 1 \in 1 .. c /\ (p + 1) - 1 = p
      BY <1>2, <1>3
    <3>2. QED
      BY <3>1 DEF IsText
  <2>3. PlaceOf(p + 1, c, g) = IF p + 1 = c THEN p + 1 + g ELSE p + 1
    BY <1>2, <1>3 DEF PlaceOf
  <2>4. QED
    BY <1>1, <1>2, <2>1, <2>2, <2>3
<1>4. CASE ~ p < c
  <2>1. PlaceOf(p, c, g) = p + g /\ (p + g < end <=> p < m) /\ p + g \in Nat
    BY <1>1, <1>2, <1>4 DEF PlaceOf
  <2>2. p < m => b[p + g] = t[p + 1]
    <3>1. p < m => p + 1 \in c + 1 .. end - g /\ (p + 1) - 1 + g = p + g
      BY <1>1, <1>2, <1>4
    <3>2. QED
      BY <3>1 DEF IsText
  <2>3. PlaceOf(p + 1, c, g) = (p + g) + 1 /\ (p + g) + 1 # c
    BY <1>2, <1>4 DEF PlaceOf
  <2>4. QED
    BY <1>1, <2>1, <2>2, <2>3
<1>5. QED
  BY <1>3, <1>4

LEMMA DrawGoesOn ==
  ASSUME NEW t, NEW b, NEW c \in Nat, NEW g \in Nat, c + g <= MaxLength, IsText(t, b, c, g),
         NEW top \in Nat, NEW p \in top .. Len(t), NEW x,
         Drew(x, t, top, c, g, p), x.ptr < end, x.r < NumRows
  PROVE  p < Len(t) /\ Drew(DrawNext(x, b, c, g), t, top, c, g, p + 1)
<1>1. t \in Seq(Chars) /\ p \in Nat /\ p \in 0 .. Len(t) /\ top <= p
  BY DEF IsText
<1>2. /\ x.ptr = PlaceOf(p, c, g) /\ x.r = Cardinality(Feeds(t, top, p))
      /\ x.gpu \in Gpus /\ x.gpu.color = Green
      /\ Fits(LinesOf(t, top)) => \E s : ShownTo(x.gpu, t, top, p, s)
  BY DEF Drew
<1>3. /\ p < Len(t) /\ b[x.ptr] = t[p + 1]
      /\ PlaceOf(p + 1, c, g) = IF x.ptr + 1 = c THEN x.ptr + 1 + g ELSE x.ptr + 1
  BY <1>1, <1>2, PlaceInText
<1>4. t[p + 1] \in Chars
  BY <1>1, <1>3
<1>5. PICK r : r = x.r
  OBVIOUS
<1>6. r \in Nat /\ r \in 0 .. NumRows - 1
  <2>1. r \in Nat
    BY <1>1, <1>2, <1>5, FeedsFinite
  <2>2. QED
    BY <1>5, <2>1, ScreenSizes
<1>7. PICK h : h = DrawChar(x.gpu, r, t[p + 1])
  OBVIOUS
<1>8. h \in Gpus /\ h.color = Green
  BY <1>2, <1>4, <1>6, <1>7, DrawCharTyped
<1>9. Fits(LinesOf(t, top)) => \E s : ShownTo(h, t, top, p + 1, s)
  <2>1. SUFFICES ASSUME Fits(LinesOf(t, top)) PROVE \E s : ShownTo(h, t, top, p + 1, s)
    OBVIOUS
  <2>2. PICK s : ShownTo(x.gpu, t, top, p, s)
    BY <1>2, <2>1
  <2>3. QED
    BY <1>1, <1>2, <1>3, <1>5, <1>6, <1>7, <2>1, <2>2, ShowChar
<1>10. Cardinality(Feeds(t, top, p + 1)) = IF t[p + 1] = Enter THEN r + 1 ELSE r
  <2>1. Cardinality(Feeds(t, top, p + 1))
        = Cardinality(Feeds(t, top, p)) + (IF t[p + 1] = Enter THEN 1 ELSE 0)
    BY <1>1, FeedsMore
  <2>2. QED
    BY <1>2, <1>5, <1>6, <2>1
<1>11. PICK y : y = DrawNext(x, b, c, g)
  OBVIOUS
<1>12. y.ptr = PlaceOf(p + 1, c, g) /\ y.r = Cardinality(Feeds(t, top, p + 1)) /\ y.gpu = h
  BY <1>3, <1>5, <1>7, <1>10, <1>11 DEF DrawNext
<1>13. Drew(y, t, top, c, g, p + 1)
  BY <1>8, <1>9, <1>12 DEF Drew
<1>14. QED
  BY <1>3, <1>11, <1>13

\* All of the lines are on the screen.
ShowsAll(g, L) ==
  \A c1 \in 0 .. NumCols - 1, r1 \in 0 .. NumRows - 1 :
    g.draw[At(c1, r1)] = IF c1 < Len(L[r1]) THEN [char |-> L[r1][c1 + 1], color |-> Green]
                         ELSE BlankCell

LEMMA DrawIsDone ==
  ASSUME NEW t \in Seq(Chars), NEW top \in Nat, NEW p \in top .. Len(t), NEW x, NEW s,
         NEW r, r = Cardinality(Feeds(t, top, p)), p = Len(t) \/ ~ r < NumRows,
         ShownTo(x, t, top, p, s)
  PROVE  ShowsAll(x, LinesOf(t, top))
<1>1. PICK m \in Nat : m = Len(t)
  OBVIOUS
<1>2. PICK L, w : L = LinesOf(t, top) /\ w = Len(Drawn(t, s, p))
  OBVIOUS
<1>3. IsStart(t, top, s, p) /\ Shows(x, L, r, w) /\ p \in Nat /\ p <= m
  BY <1>1, <1>2 DEF ShownTo, DrawnTo
<1>4. r \in Nat
  BY FeedsFinite
<1>5. SUFFICES ASSUME NEW c1 \in 0 .. NumCols - 1, NEW r1 \in 0 .. NumRows - 1
               PROVE  CellAt(L, r, w, c1, r1)
                      = IF c1 < Len(L[r1]) THEN [char |-> L[r1][c1 + 1], color |-> Green]
                        ELSE BlankCell
  BY <1>2, <1>3 DEF ShowsAll, Shows
<1>6. CASE r1 < r
  BY <1>6 DEF CellAt
<1>7. CASE r1 = r
  <2>1. p = Len(t)
    BY <1>4, <1>7, ScreenSizes
  <2>2. p \in 0 .. Len(t) /\ r \in 0 .. NumRows - 1
    BY <1>1, <1>3, <1>7
  <2>3. L[r] = Drawn(t, s, p)
    BY <1>2, <1>3, <2>1, <2>2, LineAt
  <2>4. w = Len(L[r1])
    BY <1>2, <1>7, <2>3
  <2>5. QED
    BY <1>7, <2>4 DEF CellAt
<1>8. CASE r1 > r
  <2>1. p = Len(t)
    BY <1>4, <1>8, ScreenSizes
  <2>2. ~ r1 < Cardinality(Feeds(t, top, Len(t))) + 1
    BY <1>4, <1>8, <2>1, ScreenSizes
  <2>3. L[r1] = <<>>
    BY <1>2, <2>2 DEF LinesOf
  <2>4. Len(L[r1]) = 0 /\ ~ c1 < 0
    BY <2>3, ScreenSizes
  <2>5. QED
    BY <2>4 DEF CellAt
<1>9. QED
  BY <1>4, <1>6, <1>7, <1>8, ScreenSizes

LEMMA Cleared ==
  ASSUME NEW screen \in Gpus, screen.color = Green, NEW L, NEW w, w = 0
  PROVE  LET x == gpu_set_cursor(gpu_clear_screen(screen), 0, 0) IN
         x \in Gpus /\ x.color = Green /\ DrawnTo(x, L, 0, w)
<1>1. PICK h : h = gpu_clear_screen(screen)
  OBVIOUS
<1>2. BlankCell \in ScreenCells
  BY DEF BlankCell, ScreenCells, Glyphs, Colors
<1>3. Blank = [p \in Positions |-> BlankCell]
  BY DEF Blank, BlankCell
<1>4. PICK d \in [Positions -> ScreenCells] : d = Blank /\ \A p \in Positions : d[p] = BlankCell
  BY <1>2, <1>3
<1>5. h \in Gpus /\ h.draw = d /\ h.color = Green
  <2>1. h = [screen EXCEPT !.draw = d]
    BY <1>1, <1>4 DEF gpu_clear_screen
  <2>2. QED
    BY <2>1 DEF Gpus
<1>6. PICK x : x = gpu_set_cursor(h, 0, 0)
  OBVIOUS
<1>7. x \in Gpus /\ x.draw = d /\ x.color = Green /\ x.col = 0 /\ x.row = 0
  <2>1. OnScreen(0, 0) /\ 0 \in Nat
    BY ScreenSizes DEF OnScreen
  <2>2. QED
    BY <1>5, <1>6, <2>1, CursorSet
<1>8. Shows(x, L, 0, w)
  <2> SUFFICES ASSUME NEW c1 \in 0 .. NumCols - 1, NEW r1 \in 0 .. NumRows - 1
               PROVE  x.draw[At(c1, r1)] = CellAt(L, 0, w, c1, r1)
    BY DEF Shows
  <2>1. x.draw[At(c1, r1)] = BlankCell
    BY <1>4, <1>7, PlaceOnScreen
  <2>2. ~ (r1 < 0) /\ ~ (c1 < 0)
    BY ScreenSizes
  <2>3. QED
    BY <2>1, <2>2 DEF CellAt
<1>9. QED
  BY <1>1, <1>6, <1>7, <1>8 DEF DrawnTo, PenAt

LEMMA LoopDraws ==
  ASSUME NEW b \in [Cells -> Chars], NEW c \in Nat, NEW g \in Nat, c + g <= MaxLength,
         NEW screen \in Gpus, screen.color = Green, NEW t, t = TextOf(b, c, g),
         NEW tb, tb = ted_move_backward(b, c, HalfScreen), NEW top \in 0 .. c, tb.ptr = top
  PROVE  \E x : /\ ted_draw(b, c, g, end, screen)
                   = gpu_switch_buffer(gpu_draw_cursor(x, tb.col, tb.row))
                /\ x \in Gpus /\ x.color = Green
                /\ Fits(LinesOf(t, top)) => ShowsAll(x, LinesOf(t, top))
<1>1. IsText(t, b, c, g)
  BY TextIs
<1>2. PICK m \in Nat : m = Len(t) /\ m = end - g /\ c <= m /\ m <= end
  BY <1>1, EditConstants DEF IsText
<1>3. t \in Seq(Chars) /\ top \in Nat /\ top <= m /\ end \in Nat
  BY <1>1, <1>2, EditConstants DEF IsText
<1> DEFINE More(s) == s.ptr < end /\ s.r < NumRows
           first == [ptr |-> IF top = c THEN top + g ELSE top, r |-> 0,
                     gpu |-> gpu_set_cursor(gpu_clear_screen(screen), 0, 0)]
           P(f) == f = [i \in 0 .. end |->
                          IF i = 0 THEN first
                          ELSE IF More(f[i - 1]) THEN DrawNext(f[i - 1], b, c, g) ELSE f[i - 1]]
           loop == CHOOSE f : P(f)
           At1(x, p) == p \in top .. m /\ Drew(x, t, top, c, g, p)
           V == {x \in [ptr : Nat, r : Nat, gpu : Gpus] : \E p : At1(x, p)}
           step == [s \in V |-> IF More(s) THEN DrawNext(s, b, c, g) ELSE s]
<1>4. ted_draw(b, c, g, end, screen) = gpu_switch_buffer(gpu_draw_cursor(loop[end].gpu, tb.col, tb.row))
  BY DEF ted_draw, DrawNext, DrawChar
<1>5. At1(first, top) /\ first \in V
  <2>1. PICK h : h = gpu_set_cursor(gpu_clear_screen(screen), 0, 0)
    OBVIOUS
  <2>2. Cardinality(Feeds(t, top, top)) = 0 /\ Feeds(t, top, top) = {}
    BY <1>3, NoFeeds
  <2>3. Len(Drawn(t, top, top)) = 0
    <3>1. top \in 0 .. Len(t)
      BY <1>2, <1>3
    <3>2. Drawn(t, top, top) = <<>>
      BY <1>3, <3>1, DrawnNone
    <3>3. QED
      BY <3>2
  <2>4. h \in Gpus /\ h.color = Green /\ DrawnTo(h, LinesOf(t, top), 0, Len(Drawn(t, top, top)))
    BY <2>1, <2>3, Cleared
  <2>5. ShownTo(h, t, top, top, top)
    <3>1. top \in top .. top
      BY <1>3
    <3>2. IsStart(t, top, top, top)
      BY <2>2, <3>1 DEF IsStart
    <3>3. QED
      BY <2>2, <2>4, <3>2 DEF ShownTo
  <2>6. PICK x : x = first
    OBVIOUS
  <2>7. x.ptr = PlaceOf(top, c, g) /\ x.r = 0 /\ x.gpu = h
    BY <2>1, <2>6 DEF PlaceOf
  <2>8. Drew(x, t, top, c, g, top)
    BY <2>2, <2>4, <2>5, <2>7 DEF Drew
  <2>9. x \in [ptr : Nat, r : Nat, gpu : Gpus]
    BY <1>3, <2>1, <2>4, <2>6
  <2>10. top \in top .. m
    BY <1>3
  <2> HIDE DEF first
  <2>11. QED
    BY <2>6, <2>8, <2>9, <2>10
<1>6. ASSUME NEW s, NEW p, At1(s, p), s \in [ptr : Nat, r : Nat, gpu : Gpus], More(s)
      PROVE  /\ At1(DrawNext(s, b, c, g), p + 1)
             /\ DrawNext(s, b, c, g) \in [ptr : Nat, r : Nat, gpu : Gpus]
  <2>1. p < Len(t) /\ Drew(DrawNext(s, b, c, g), t, top, c, g, p + 1)
    BY <1>1, <1>2, <1>3, <1>6, DrawGoesOn
  <2>2. p + 1 \in top .. m
    BY <1>2, <1>3, <1>6, <2>1
  <2>3. PICK y : y = DrawNext(s, b, c, g)
    OBVIOUS
  <2>4. y.gpu \in Gpus
    BY <2>1, <2>3 DEF Drew
  <2>5. y \in [ptr : Nat, r : Nat, gpu : Gpus]
    <3>1. s.ptr \in Nat /\ s.r \in Nat
      BY <1>6
    <3>2. /\ (IF s.ptr + 1 = c THEN s.ptr + 1 + g ELSE s.ptr + 1) \in Nat
          /\ (IF b[s.ptr] = Enter THEN s.r + 1 ELSE s.r) \in Nat
      BY <3>1
    <3>3. DrawChar(s.gpu, s.r, b[s.ptr]) \in Gpus
      BY <2>3, <2>4 DEF DrawNext
    <3>4. QED
      BY <2>3, <3>2, <3>3 DEF DrawNext
  <2>6. QED
    BY <2>1, <2>2, <2>3, <2>5
<1>7. step \in [V -> V]
  <2> HIDE DEF More, At1
  <2>1. ASSUME NEW s \in V PROVE (IF More(s) THEN DrawNext(s, b, c, g) ELSE s) \in V
    BY <1>6
  <2>2. QED
    BY <2>1
<1>8. \E f : P(f)
  <2>1. PICK f : Iterated(f, end, V, first, step)
    <3> HIDE DEF V, first, step
    <3>1. QED
      BY <1>3, <1>5, <1>7, Iterates
  <2> HIDE DEF V, first, step, More
  <2>2. f \in [0 .. end -> V] /\ f[0] = first /\ \A i \in 1 .. end : f[i] = step[f[i - 1]]
    BY <2>1 DEF Iterated
  <2>3. ASSUME NEW i \in 0 .. end
        PROVE  f[i] = IF i = 0 THEN first
                      ELSE IF More(f[i - 1]) THEN DrawNext(f[i - 1], b, c, g) ELSE f[i - 1]
    <3>1. CASE i = 0
      BY <2>2, <3>1
    <3>2. CASE i # 0
      <4>1. i \in 1 .. end /\ i - 1 \in 0 .. end
        BY <1>3, <3>2
      <4>2. f[i - 1] \in V /\ f[i] = step[f[i - 1]]
        BY <2>2, <4>1
      <4>3. QED
        BY <3>2, <4>2 DEF step
    <3>3. QED
      BY <3>1, <3>2
  <2>4. P(f)
    BY <2>2, <2>3
  <2>5. QED
    BY <2>4
<1>9. P(loop)
  BY <1>8
<1> HIDE DEF loop, first, More
<1>10. /\ loop[0] = first
       /\ \A i \in 1 .. end :
            loop[i] = IF More(loop[i - 1]) THEN DrawNext(loop[i - 1], b, c, g) ELSE loop[i - 1]
  <2>1. 0 \in 0 .. end /\ \A i \in 1 .. end : i \in 0 .. end /\ i # 0
    BY <1>3
  <2>2. \A i \in 0 .. end :
          loop[i] = IF i = 0 THEN first
                    ELSE IF More(loop[i - 1]) THEN DrawNext(loop[i - 1], b, c, g) ELSE loop[i - 1]
    BY <1>9
  <2>3. QED
    BY <2>1, <2>2
<1> HIDE DEF At1, V, P, step
<1>11. PICK S : S = {i \in 0 .. end :
                      /\ loop[i] \in [ptr : Nat, r : Nat, gpu : Gpus]
                      /\ \E p : At1(loop[i], p) /\ (~ More(loop[i]) \/ p = top + i)}
  OBVIOUS
<1>12. 0 \in S
  <2>1. top = top + 0 /\ 0 \in 0 .. end
    BY <1>3
  <2>2. first \in [ptr : Nat, r : Nat, gpu : Gpus]
    BY <1>5 DEF V
  <2>3. QED
    BY <1>5, <1>10, <1>11, <2>1, <2>2
<1>13. ASSUME NEW i \in 0 .. end - 1, i \in S PROVE i + 1 \in S
  <2>1. i + 1 \in 1 .. end /\ i + 1 \in 0 .. end /\ (i + 1) - 1 = i
    BY <1>3
  <2>2. loop[i + 1] = IF More(loop[i]) THEN DrawNext(loop[i], b, c, g) ELSE loop[i]
    BY <1>10, <2>1
  <2>3. PICK p : At1(loop[i], p) /\ (~ More(loop[i]) \/ p = top + i)
    BY <1>11, <1>13
  <2>4. loop[i] \in [ptr : Nat, r : Nat, gpu : Gpus]
    BY <1>11, <1>13
  <2>5. CASE More(loop[i])
    <3>1. p = top + i /\ p + 1 = top + (i + 1)
      BY <1>3, <2>3, <2>5
    <3>2. /\ At1(loop[i + 1], p + 1) /\ loop[i + 1] \in [ptr : Nat, r : Nat, gpu : Gpus]
      BY <1>6, <2>2, <2>3, <2>4, <2>5
    <3>3. QED
      BY <1>11, <2>1, <3>1, <3>2
  <2>6. CASE ~ More(loop[i])
    BY <1>11, <2>1, <2>2, <2>3, <2>4, <2>6
  <2>7. QED
    BY <2>5, <2>6
<1>14. end \in S
  <2>1. 0 \in Int /\ end \in Int /\ end \in 0 .. end
    BY <1>3
  <2>2. \A i \in 0 .. end : i \in S
    BY <1>12, <1>13, <2>1, IntervalInduction
  <2>3. QED
    BY <2>1, <2>2
<1>15. PICK x : x = loop[end]
  OBVIOUS
<1>16. PICK p : At1(x, p) /\ (~ More(x) \/ p = top + end)
  BY <1>11, <1>14, <1>15
<1>17. p \in top .. m /\ Drew(x, t, top, c, g, p)
  BY <1>16 DEF At1
<1>18. p = Len(t) \/ ~ x.r < NumRows
  <2>1. CASE p = top + end
    BY <1>2, <1>3, <1>17, <2>1
  <2>2. CASE ~ More(x)
    <3>1. CASE ~ x.r < NumRows
      BY <3>1
    <3>2. CASE x.r < NumRows
      <4>1. ~ x.ptr < end
        BY <2>2, <3>2 DEF More
      <4>2. p \in 0 .. Len(t) /\ x.ptr = PlaceOf(p, c, g)
        BY <1>2, <1>3, <1>17 DEF Drew
      <4>3. ~ p < Len(t)
        BY <1>1, <4>1, <4>2, PlaceInText
      <4>4. QED
        BY <1>2, <1>17, <4>3
    <3>3. QED
      BY <3>1, <3>2
  <2>3. QED
    BY <1>16, <2>1, <2>2
<1>19. /\ x.r = Cardinality(Feeds(t, top, p)) /\ x.gpu \in Gpus /\ x.gpu.color = Green
       /\ Fits(LinesOf(t, top)) => \E s : ShownTo(x.gpu, t, top, p, s)
  BY <1>17 DEF Drew
<1>20. Fits(LinesOf(t, top)) => ShowsAll(x.gpu, LinesOf(t, top))
  <2>1. SUFFICES ASSUME Fits(LinesOf(t, top)) PROVE ShowsAll(x.gpu, LinesOf(t, top))
    OBVIOUS
  <2>2. PICK s : ShownTo(x.gpu, t, top, p, s)
    BY <1>19, <2>1
  <2>3. p \in top .. Len(t)
    BY <1>2, <1>17
  <2>4. QED
    BY <1>3, <1>18, <1>19, <2>2, <2>3, DrawIsDone
<1>21. QED
  BY <1>4, <1>15, <1>19, <1>20

-----------------------------------------------------------------------------
(***************************************************************************)
(* The screen after ted_draw.                                              *)
(***************************************************************************)
\* y is the screen x with the cursor at column c of row r.
HasCursor(y, x, c, r) ==
  /\ y \in Gpus /\ y.color = Green
  /\ \A c1 \in 0 .. NumCols - 1, r1 \in 0 .. NumRows - 1 :
       /\ y.draw[At(c1, r1)].char = x.draw[At(c1, r1)].char
       /\ y.draw[At(c1, r1)].color
          = IF c1 = c /\ r1 = r THEN <<GREEN, BLACK>> ELSE x.draw[At(c1, r1)].color

LEMMA CursorDrawn ==
  ASSUME NEW x \in Gpus, x.color = Green, NEW c \in Nat, NEW r \in Nat,
         NEW y, y = gpu_draw_cursor(x, c, r)
  PROVE  HasCursor(y, x, c, r)
<1>2. PICK d : d = x.draw
  OBVIOUS
<1>3. d \in [Positions -> ScreenCells]
  BY <1>2 DEF Gpus
<1>4. CASE OnScreen(c, r)
  <2>1. c \in 0 .. NumCols - 1 /\ r \in 0 .. NumRows - 1
    BY <1>4 DEF OnScreen
  <2>2. PICK a \in Positions : a = At(c, r)
    BY <2>1, PlaceOnScreen
  <2>3. PICK k : k = <<GREEN, BLACK>>
    OBVIOUS
  <2>4. k \in Colors
    BY <2>3 DEF Colors
  <2>5. <<x.color[2], x.color[1]>> = k
    BY <2>3 DEF Green, Foreground
  <2>6. PICK z : z = [d[a] EXCEPT !.color = k]
    OBVIOUS
  <2>7. z \in ScreenCells /\ z.char = d[a].char /\ z.color = k
    BY <1>3, <2>4, <2>6 DEF ScreenCells
  <2>8. PICK e : e = [d EXCEPT ![a] = z]
    OBVIOUS
  <2>9. e \in [Positions -> ScreenCells] /\ e[a] = z /\ \A p \in Positions : p # a => e[p] = d[p]
    BY <1>3, <2>7, <2>8
  <2>10. y = [x EXCEPT !.draw = e]
    <3>1. y = [x EXCEPT !.draw[a].color = k]
      BY <1>4, <2>2, <2>5 DEF gpu_draw_cursor
    <3>2. [x EXCEPT !.draw[a].color = k] = [x EXCEPT !.draw = e]
      BY <1>2, <2>6, <2>8
    <3>3. QED
      BY <3>1, <3>2
  <2>11. y \in Gpus /\ y.color = Green /\ y.draw = e
    BY <2>9, <2>10 DEF Gpus
  <2>12. ASSUME NEW c1 \in 0 .. NumCols - 1, NEW r1 \in 0 .. NumRows - 1
         PROVE  /\ e[At(c1, r1)].char = d[At(c1, r1)].char
                /\ e[At(c1, r1)].color = IF c1 = c /\ r1 = r THEN k ELSE d[At(c1, r1)].color
    <3>1. CASE c1 = c /\ r1 = r
      BY <2>2, <2>7, <2>9, <3>1
    <3>2. CASE ~ (c1 = c /\ r1 = r)
      <4>1. /\ At(c1, r1) % NumCols = c1 /\ At(c1, r1) \div NumCols = r1 /\ At(c1, r1) \in Positions
            /\ a % NumCols = c /\ a \div NumCols = r
        BY <2>1, <2>2, PlaceOnScreen
      <4>2. At(c1, r1) # a
        BY <3>2, <4>1
      <4>3. QED
        BY <2>9, <3>2, <4>1, <4>2
    <3>3. QED
      BY <3>1, <3>2
  <2>13. QED
    BY <1>2, <2>3, <2>11, <2>12 DEF HasCursor
<1>5. CASE ~ OnScreen(c, r)
  <2>1. y = x
    BY <1>5 DEF gpu_draw_cursor
  <2>2. \A c1 \in 0 .. NumCols - 1, r1 \in 0 .. NumRows - 1 : ~ (c1 = c /\ r1 = r)
    BY <1>5 DEF OnScreen
  <2>3. QED
    BY <2>1, <2>2 DEF HasCursor
<1>6. QED
  BY <1>4, <1>5

\* The lines of text t around position c, with the cursor there.
ShowsText(y, t, c) ==
  LET top == Editor!Above(t, c, HalfScreen)
      row == Cardinality(Feeds(t, top, c))
      col == Len(Drawn(t, Editor!Above(t, c, 0), c))
      lines == LinesOf(t, top)
  IN
  Fits(lines) =>
    /\ row <= HalfScreen
    /\ \A c1 \in 0 .. NumCols - 1, r1 \in 0 .. NumRows - 1 :
         LET cell == y.shown[At(c1, r1)] IN
         /\ cell.char = IF c1 < Len(lines[r1]) THEN lines[r1][c1 + 1] ELSE Space
         /\ <<c1, r1>> = <<col, row>> => cell.color = <<GREEN, BLACK>>
         /\ <<c1, r1>> # <<col, row>> =>
              cell.color = IF c1 < Len(lines[r1]) THEN Foreground(GREEN) ELSE <<BLACK, BLACK>>

LEMMA TextDrawn ==
  ASSUME NEW b \in [Cells -> Chars], NEW c \in Nat, NEW g \in Nat, c + g <= MaxLength,
         NEW screen \in Gpus, screen.color = Green
  PROVE  LET y == ted_draw(b, c, g, end, screen) IN
         y \in Gpus /\ y.color = Green /\ ShowsText(y, TextOf(b, c, g), c)
<1>1. PICK t : t = TextOf(b, c, g)
  OBVIOUS
<1>2. PICK tb : tb = ted_move_backward(b, c, HalfScreen)
  OBVIOUS
<1>3. HalfScreen \in Nat
  BY EditConstants
<1>4. PICK top \in 0 .. c : top = tb.ptr
  BY <1>1, <1>2, <1>3, BackwardFinds
<1>5. /\ Editor!Above(t, c, HalfScreen) = top
      /\ tb.row = Cardinality(Feeds(t, top, c)) /\ tb.row <= HalfScreen
      /\ tb.col = Len(Drawn(t, Editor!Above(t, c, 0), c)) /\ tb.col \in Nat
  BY <1>1, <1>2, <1>3, <1>4, BackwardFinds
<1>6. PICK x : /\ ted_draw(b, c, g, end, screen)
                  = gpu_switch_buffer(gpu_draw_cursor(x, tb.col, tb.row))
               /\ x \in Gpus /\ x.color = Green
               /\ Fits(LinesOf(t, top)) => ShowsAll(x, LinesOf(t, top))
  BY <1>1, <1>2, <1>4, LoopDraws
<1>7. PICK col \in Nat, row \in Nat : col = tb.col /\ row = tb.row
  <2>1. tb.row \in Nat
    BY <1>5, FeedsFinite
  <2>2. QED
    BY <1>5, <2>1
<1>8. PICK z : z = gpu_draw_cursor(x, col, row)
  OBVIOUS
<1>9. HasCursor(z, x, col, row)
  <2>1. x \in Gpus /\ x.color = Green
    BY <1>6
  <2>2. QED
    BY <1>8, <2>1, CursorDrawn
<1>10. PICK y : y = ted_draw(b, c, g, end, screen)
  OBVIOUS
<1>11. y \in Gpus /\ y.color = Green /\ y.shown = z.draw
  <2>1. y = [z EXCEPT !.shown = z.draw]
    BY <1>6, <1>7, <1>8, <1>10 DEF gpu_switch_buffer
  <2>2. QED
    BY <1>9, <2>1 DEF Gpus, HasCursor
<1>12. PICK L : L = LinesOf(t, top)
  OBVIOUS
<1>13. ASSUME Fits(L), NEW c1 \in 0 .. NumCols - 1, NEW r1 \in 0 .. NumRows - 1
       PROVE  /\ y.shown[At(c1, r1)].char = IF c1 < Len(L[r1]) THEN L[r1][c1 + 1] ELSE Space
              /\ <<c1, r1>> = <<col, row>> => y.shown[At(c1, r1)].color = <<GREEN, BLACK>>
              /\ <<c1, r1>> # <<col, row>> =>
                   y.shown[At(c1, r1)].color
                   = IF c1 < Len(L[r1]) THEN Foreground(GREEN) ELSE <<BLACK, BLACK>>
  <2>1. x.draw[At(c1, r1)] = IF c1 < Len(L[r1]) THEN [char |-> L[r1][c1 + 1], color |-> Green]
                             ELSE BlankCell
    BY <1>6, <1>12, <1>13 DEF ShowsAll
  <2>2. /\ x.draw[At(c1, r1)].char = IF c1 < Len(L[r1]) THEN L[r1][c1 + 1] ELSE Space
        /\ x.draw[At(c1, r1)].color = IF c1 < Len(L[r1]) THEN Foreground(GREEN) ELSE <<BLACK, BLACK>>
    BY <2>1 DEF BlankCell, Green
  <2>3. <<c1, r1>> = <<col, row>> <=> c1 = col /\ r1 = row
    OBVIOUS
  <2>4. QED
    BY <1>9, <1>11, <2>2, <2>3 DEF HasCursor
<1>14. ShowsText(y, t, c)
  <2>1. row <= HalfScreen
    BY <1>5, <1>7
  <2>2. ShowsText(y, t, c) <=>
          (Fits(L) =>
            /\ row <= HalfScreen
            /\ \A c1 \in 0 .. NumCols - 1, r1 \in 0 .. NumRows - 1 :
                 /\ y.shown[At(c1, r1)].char = IF c1 < Len(L[r1]) THEN L[r1][c1 + 1] ELSE Space
                 /\ <<c1, r1>> = <<col, row>> => y.shown[At(c1, r1)].color = <<GREEN, BLACK>>
                 /\ <<c1, r1>> # <<col, row>> =>
                      y.shown[At(c1, r1)].color
                      = IF c1 < Len(L[r1]) THEN Foreground(GREEN) ELSE <<BLACK, BLACK>>)
    <3>1. /\ Editor!Above(t, c, HalfScreen) = top /\ L = LinesOf(t, top)
          /\ row = Cardinality(Feeds(t, top, c)) /\ col = Len(Drawn(t, Editor!Above(t, c, 0), c))
      BY <1>5, <1>7, <1>12
    <3>2. QED
      BY <3>1, Zenon DEF ShowsText
  <2>3. QED
    BY <1>13, <2>1, <2>2
<1>15. QED
  BY <1>1, <1>10, <1>11, <1>14

LEMMA StartsAreFeeds ==
  ASSUME NEW t \in Seq(Chars), NEW i \in Nat, NEW j \in 0 .. Len(t)
  PROVE  /\ {s \in Editor!LineStarts(t) : i < s /\ s <= j} = Feeds(t, i, j)
         /\ {s \in Editor!LineStarts(t) : s > i} = Feeds(t, i, Len(t))
<1>1. PICK m \in Nat : m = Len(t)
  OBVIOUS
<1>2. \A s : s \in Editor!LineStarts(t) <=> s = 0 \/ (s \in 1 .. m /\ t[s] = Enter)
  BY <1>1 DEF Editor!LineStarts
<1>3. \A s : s \in Editor!LineStarts(t) /\ i < s /\ s <= j <=> s \in Feeds(t, i, j)
  BY <1>1, <1>2 DEF Feeds
<1>4. \A s : s \in Editor!LineStarts(t) /\ s > i <=> s \in Feeds(t, i, m)
  BY <1>1, <1>2 DEF Feeds
<1>5. QED
  BY <1>1, <1>3, <1>4

\* What the property says, for a buffer.
LEMMA ShowsTextIs ==
  ASSUME Text \in Seq(Chars), cursor \in Nat, cursor <= Len(Text), Top \in 0 .. cursor,
         ShowsText(gpu, Text, cursor)
  PROVE  ScreenShowsText
<1>1. PICK L : L = LinesOf(Text, Top)
  OBVIOUS
<1>2. PICK row : row = Cardinality(Feeds(Text, Top, cursor))
  OBVIOUS
<1>3. PICK col : col = Len(Drawn(Text, Editor!Above(Text, cursor, 0), cursor))
  OBVIOUS
<1>4. Fits(L) =>
        /\ row <= HalfScreen
        /\ \A c1 \in 0 .. NumCols - 1, r1 \in 0 .. NumRows - 1 :
             LET cell == gpu.shown[At(c1, r1)] IN
             /\ cell.char = IF c1 < Len(L[r1]) THEN L[r1][c1 + 1] ELSE Space
             /\ <<c1, r1>> = <<col, row>> => cell.color = <<GREEN, BLACK>>
             /\ <<c1, r1>> # <<col, row>> =>
                  cell.color = IF c1 < Len(L[r1]) THEN Foreground(GREEN) ELSE <<BLACK, BLACK>>
  BY <1>1, <1>2, <1>3, Zenon DEF ShowsText, Top
<1>5. Cardinality({s \in Starts : Top < s /\ s <= cursor}) = row
  <2>1. cursor \in 0 .. Len(Text) /\ Top \in Nat
    OBVIOUS
  <2>2. {s \in Starts : Top < s /\ s <= cursor} = Feeds(Text, Top, cursor)
    BY <2>1, StartsAreFeeds DEF Starts
  <2>3. QED
    BY <1>2, <2>2
<1>6. Len(Expanded(SubSeq(Text, Editor!Above(Text, cursor, 0) + 1, cursor))) = col
  BY <1>3 DEF Drawn
<1>7. NumLines = Cardinality(Feeds(Text, Top, Len(Text))) + 1
  <2>1. cursor \in 0 .. Len(Text) /\ Top \in Nat
    OBVIOUS
  <2>2. {s \in Starts : s > Top} = Feeds(Text, Top, Len(Text))
    BY <2>1, StartsAreFeeds DEF Starts
  <2>3. QED
    BY <2>2 DEF NumLines
<1>8. \A k : Line(k) = LineOf(Text, Top, k)
  BY Zenon DEF Line, LineOf, StartOf, StopOf
<1>9. [k \in 0 .. NumRows - 1 |-> IF k < NumLines THEN Expanded(Line(k)) ELSE <<>>] = L
  BY <1>1, <1>7, <1>8, Zenon DEF LinesOf
<1>10. (\A k \in DOMAIN L : Len(L[k]) <= NumCols) => Fits(L)
  <2>1. DOMAIN L = 0 .. NumRows - 1
    BY <1>1 DEF LinesOf
  <2>2. QED
    BY <2>1 DEF Fits
<1>11. ScreenShowsText <=>
         (pc = "edit" /\ (\A k \in DOMAIN L : Len(L[k]) <= NumCols) =>
            /\ row <= HalfScreen
            /\ \A c \in 0 .. NumCols - 1, r \in 0 .. NumRows - 1 :
                 LET cell == gpu.shown[At(c, r)] IN
                 /\ cell.char = IF c < Len(L[r]) THEN L[r][c + 1] ELSE Space
                 /\ <<c, r>> = <<col, row>> => cell.color = <<GREEN, BLACK>>
                 /\ <<c, r>> # <<col, row>> =>
                      cell.color = IF c < Len(L[r]) THEN Foreground(GREEN) ELSE <<BLACK, BLACK>>)
  BY <1>5, <1>6, <1>9, Zenon DEF ScreenShowsText
<1>12. QED
  BY <1>4, <1>10, <1>11, Zenon

\* The text that is edited is on the screen, that is drawn in green.
ScreenInvariant ==
  /\ EditInvariant
  /\ pc \in {"open", "edit"} => gpu \in Gpus
  /\ pc = "edit" => gpu.color = Green /\ ShowsText(gpu, TextOf(buffer, cursor, gap), cursor)

LEMMA ScreenInvariantShows ==
  ScreenInvariant => ScreenShowsText
<1> SUFFICES ASSUME ScreenInvariant PROVE ScreenShowsText
  OBVIOUS
<1>1. CASE pc = "edit"
  <2>1. EditInvariant /\ ShowsText(gpu, TextOf(buffer, cursor, gap), cursor)
    BY <1>1 DEF ScreenInvariant
  <2>2. /\ buffer \in [Cells -> Chars] /\ cursor \in Nat /\ gap \in Nat
        /\ cursor + gap <= MaxLength /\ Text = TextOf(buffer, cursor, gap)
        /\ Text \in Seq(Chars) /\ cursor <= Len(Text)
    BY <1>1, <2>1, EditingNow
  <2>3. HalfScreen \in Nat
    BY EditConstants
  <2>4. PICK p \in 0 .. cursor : p = Editor!Above(Text, cursor, HalfScreen)
    <3>1. /\ ted_move_backward(buffer, cursor, HalfScreen).ptr \in 0 .. cursor
          /\ ted_move_backward(buffer, cursor, HalfScreen).ptr = Editor!Above(Text, cursor, HalfScreen)
      BY <2>2, <2>3, BackwardFinds
    <3>2. QED
      BY <3>1
  <2>5. Top \in 0 .. cursor
    BY <2>4 DEF Top
  <2>6. QED
    BY <2>1, <2>2, <2>5, ShowsTextIs
<1>2. CASE pc # "edit"
  BY <1>2, Zenon DEF ScreenShowsText
<1>3. QED
  BY <1>1, <1>2

LEMMA ShowStep ==
  ASSUME EditInvariant', pc' = "edit", NEW b, NEW c, NEW g, NEW screen \in Gpus, screen.color = Green,
         Show(b, c, g, screen)
  PROVE  ScreenInvariant'
<1>1. /\ buffer' \in [Cells -> Chars] /\ cursor' \in Nat /\ gap' \in Nat
      /\ cursor' + gap' <= MaxLength
  BY DEF EditInvariant
<1>2. gpu' = ted_draw(buffer', cursor', gap', end, screen)
  BY DEF Show
<1>3. gpu' \in Gpus /\ gpu'.color = Green /\ ShowsText(gpu', TextOf(buffer', cursor', gap'), cursor')
  BY <1>1, <1>2, TextDrawn
<1>4. QED
  BY <1>3 DEF ScreenInvariant

LEMMA ScreenStart ==
  Init => ScreenInvariant
<1> SUFFICES ASSUME Init PROVE ScreenInvariant
  OBVIOUS
<1>1. EditInvariant
  BY InitStep
<1>2. gpu \in Gpus
  <2>1. BlankCell \in ScreenCells /\ Green \in Colors
    BY DEF BlankCell, ScreenCells, Glyphs, Colors, Green, Foreground
  <2>2. Blank \in [Positions -> ScreenCells]
    BY <2>1 DEF Blank, BlankCell
  <2>3. 0 \in 0 .. NumCols - 1 /\ 0 \in 0 .. NumRows - 1
    BY ScreenSizes
  <2>4. gpu = [col |-> 0, row |-> 0, color |-> Green, draw |-> Blank, shown |-> Blank]
    BY DEF Init, gpu_new, Green
  <2> HIDE DEF Blank
  <2>5. QED
    BY <2>1, <2>2, <2>3, <2>4 DEF Gpus
<1>3. pc = "open"
  BY DEF Init
<1>4. QED
  BY <1>1, <1>2, <1>3 DEF ScreenInvariant

LEMMA ScreenStep ==
  ASSUME ScreenInvariant, [Next]_vars
  PROVE  ScreenInvariant'
<1>0. EditInvariant /\ EditInvariant'
  <2>1. EditInvariant
    BY DEF ScreenInvariant
  <2>2. QED
    BY <2>1, EditStep
<1>1. ASSUME pc = "edit", pc' = "edit", NEW b, NEW c, NEW g, Show(b, c, g, gpu)
      PROVE  ScreenInvariant'
  <2>1. gpu \in Gpus /\ gpu.color = Green
    BY <1>1 DEF ScreenInvariant
  <2>2. QED
    BY <1>0, <1>1, <2>1, ShowStep
<1>2. ASSUME pc' # "open", pc' # "edit" PROVE ScreenInvariant'
  BY <1>0, <1>2 DEF ScreenInvariant
<1>3. ASSUME NEW offset \in 0 .. MaxLength, Open(offset) PROVE ScreenInvariant'
  <2>1. CASE pc' = "end"
    BY <1>2, <2>1
  <2>2. CASE pc' # "end"
    <3>1. pc = "open" /\ pc' = "edit" /\ \E b, c, g : Show(b, c, g, gpu_set_color(gpu, Green))
      BY <1>3, <2>2 DEF Open, Green
    <3>2. PICK screen : screen = gpu_set_color(gpu, Green)
      OBVIOUS
    <3>3. screen \in Gpus /\ screen.color = Green
      <4>1. gpu \in Gpus /\ Green \in Colors
        BY <3>1 DEF ScreenInvariant, Green, Foreground, Colors
      <4>2. QED
        BY <3>2, <4>1 DEF gpu_set_color, Gpus
    <3>4. PICK b, c, g : Show(b, c, g, screen)
      BY <3>1, <3>2
    <3>5. QED
      BY <1>0, <3>1, <3>3, <3>4, ShowStep
  <2>3. QED
    BY <2>1, <2>2
<1>4. ASSUME NEW k \in Chars, Insert(k) PROVE ScreenInvariant'
  <2>1. pc = "edit" /\ pc' = "edit" /\ \E b, c, g : Show(b, c, g, gpu)
    BY <1>4, Zenon DEF Insert, Editing
  <2>2. QED
    BY <1>1, <2>1
<1>5. CASE Backspace
  <2>1. pc = "edit" /\ pc' = "edit" /\ \E b, c, g : Show(b, c, g, gpu)
    BY <1>5, Zenon DEF Backspace, Editing
  <2>2. QED
    BY <1>1, <2>1
<1>6. CASE HandleKey
  <2>1. ASSUME NEW n, MoveCursor(n) PROVE ScreenInvariant'
    <3>1. pc = "edit" /\ pc' = "edit" /\ \E b, c, g : Show(b, c, g, gpu)
      BY <2>1, Zenon DEF MoveCursor, Editing
    <3>2. QED
      BY <1>1, <3>1
  <2>2. \E n : MoveCursor(n)
    BY <1>6, Zenon DEF HandleKey
  <2>3. QED
    BY <2>1, <2>2
<1>7. CASE Escape
  BY <1>2, <1>7 DEF Escape
<1>8. CASE Leave
  BY <1>2, <1>8 DEF Leave
<1>9. CASE OpenToSave
  BY <1>2, <1>9 DEF OpenToSave
<1>10. CASE Save
  BY <1>2, <1>10 DEF Save
<1>11. CASE UNCHANGED vars
  <2>1. UNCHANGED <<buffer, cursor, gap, pc, gpu>>
    BY <1>11 DEF vars
  <2>2. QED
    BY <1>0, <2>1 DEF ScreenInvariant
<1>12. QED
  BY <1>3, <1>4, <1>5, <1>6, <1>7, <1>8, <1>9, <1>10, <1>11 DEF Next

-----------------------------------------------------------------------------
(***************************************************************************)
(* The theorems.                                                           *)
(***************************************************************************)
\* The cursor and the gap never leave the buffer: text_editor writes, and
\* mem_copy reads and writes, between the begin and the end of it.
THEOREM EditInvariantHolds == Spec => []EditInvariant
<1>1. Init => EditInvariant
  BY InitStep
<1>2. EditInvariant /\ [Next]_vars => EditInvariant'
  BY EditStep
<1>3. QED
  BY <1>1, <1>2, PTL DEF Spec

\* Whatever the keys, text_editor edits the text as TextEditor describes it,
\* and the file gets the text or, if the disk is full, a part of it: neither
\* the moves of the gap nor the search of the lines go wrong.
THEOREM EditImplementsEditor == Spec => EditorSpec
<1>1. Init => Editor!Init
  BY InitStep
<1>2. EditInvariant /\ [Next]_vars => [Editor!Next]_(Editor!vars)
  BY EditStep
<1>3. QED
  BY <1>1, <1>2, EditInvariantHolds, PTL DEF Spec, EditorSpec, Editor!Spec

\* After each key the screen shows the lines of the text around the cursor,
\* from the one HalfScreen lines above it, tabs as two spaces, and the cursor
\* where the next character goes: ted_draw, which goes over the buffer and its
\* gap, draws the text of TextEditor, for buffers and screens of any size.
THEOREM ScreenShowsTheText == Spec => []ScreenShowsText
<1>1. Init => ScreenInvariant
  BY ScreenStart
<1>2. ScreenInvariant /\ [Next]_vars => ScreenInvariant'
  BY ScreenStep
<1>3. QED
  BY <1>1, <1>2, ScreenInvariantShows, PTL DEF Spec

=============================================================================
