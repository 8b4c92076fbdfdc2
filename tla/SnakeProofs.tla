---------------------------- MODULE SnakeProofs ----------------------------
(***************************************************************************)
(* Proofs about the game of snake, for every size of the board and of the  *)
(* first snake:                                                            *)
(*   - the cells that are found from the tail are the body (FollowBody);   *)
(*   - what the two operations on the list of free cells do to it (UseCell,*)
(*     FreeCell), and to a snake on the board (Grow, Shrink);              *)
(*   - the first board, by induction on the cells of the snake             *)
(*     (FirstBoardUsed), and the first body on it;                         *)
(*   - each action keeps SnakeInvariant, and is a step of SnakeGame.       *)
(***************************************************************************)
EXTENDS Snake, Induction, SequenceTheorems

LEMMA LeftOf ==
  ASSUME NEW x \in Int, NEW y \in Int
  PROVE  Neighbor(<<x, y>>, LEFT) = <<x - 1, y>>
  BY DEF Neighbor, LEFT, RIGHT, UP, DOWN

LEMMA OtherCell ==
  ASSUME NEW c \in Cells, NEW d \in Directions
  PROVE  Neighbor(c, d) # c
  BY DEF Neighbor, LEFT, RIGHT, UP, DOWN, Directions, Cells

LEMMA SameNeighbor ==
  ASSUME NEW c, NEW d \in Directions
  PROVE  Neighbor(c, d) = Game!Neighbor(c, d)
  BY DEF Neighbor, LEFT, RIGHT, UP, DOWN, Directions,
         Game!Neighbor, Game!LEFT, Game!RIGHT, Game!UP, Game!DOWN

\* A sequence that is a body is the one that is found from its tail.
LEMMA FollowBody ==
  ASSUME NEW t, NEW state, NEW b, IsBody(b, t, state)
  PROVE  Follow(t, state, Len(b)) = b
<1> DEFINE n == Len(b)
           P(f) == f = [k \in 1 .. n |-> IF k = 1 THEN t ELSE Neighbor(f[k - 1], state[f[k - 1]])]
           from == CHOOSE f : P(f)
           g == [k \in 1 .. n |-> b[n + 1 - k]]
<1>1. n \in Nat /\ b = [k \in 1 .. n |-> b[k]]
  BY DEF IsBody
<1>2. P(g)
  <2> SUFFICES ASSUME NEW k \in 1 .. n
               PROVE  g[k] = IF k = 1 THEN t ELSE Neighbor(g[k - 1], state[g[k - 1]])
    OBVIOUS
  <2>1. CASE k = 1
    BY <2>1, <1>1 DEF IsBody
  <2>2. CASE k # 1
    <3>1. g[k - 1] = b[n + 2 - k] /\ n + 2 - k \in 2 .. n /\ g[k] = b[n + 2 - k - 1]
      BY <2>2, <1>1
    <3>2. QED
      BY <3>1, <2>2 DEF IsBody
  <2>3. QED
    BY <2>1, <2>2
<1>3. P(from)
  BY <1>2
<1> HIDE DEF from
<1>4. \A k \in 1 .. n : from[k] = g[k]
  <2> DEFINE S == {k \in 1 .. n : from[k] = g[k]}
  <2> HIDE DEF g
  <2>1. 1 \in S
    <3>1. 1 \in 1 .. n
      BY <1>1 DEF IsBody
    <3>2. from[1] = t /\ g[1] = t
      BY <1>2, <1>3, <3>1
    <3>3. QED
      BY <3>1, <3>2
  <2>2. ASSUME NEW k \in 1 .. n - 1, k \in S PROVE k + 1 \in S
    <3>1. k + 1 \in 1 .. n /\ k + 1 # 1 /\ (k + 1) - 1 = k
      BY <1>1
    <3>2. from[k + 1] = Neighbor(from[k], state[from[k]])
      BY <1>3, <3>1
    <3>3. g[k + 1] = Neighbor(g[k], state[g[k]])
      BY <1>2, <3>1
    <3>4. QED
      BY <2>2, <3>1, <3>2, <3>3
  <2> HIDE DEF S
  <2>3. \A k \in 1 .. n : k \in S
    <3>1. n \in Int /\ 1 \in Int
      BY <1>1
    <3>2. \A k \in 1 .. n - 1 : k \in S => k + 1 \in S
      BY <2>2
    <3>3. QED
      BY <3>1, <3>2, <2>1, IntervalInduction, Zenon
  <2>4. QED
    BY <2>3 DEF S
<1>5. Follow(t, state, n) = [k \in 1 .. n |-> from[n + 1 - k]]
  BY DEF Follow, from
<1>6. \A k \in 1 .. n : n + 1 - k \in 1 .. n /\ from[n + 1 - k] = b[k]
  <2> SUFFICES ASSUME NEW k \in 1 .. n PROVE n + 1 - k \in 1 .. n /\ from[n + 1 - k] = b[k]
    OBVIOUS
  <2>1. n + 1 - k \in 1 .. n /\ n + 1 - (n + 1 - k) = k
    BY <1>1
  <2>2. QED
    BY <1>4, <2>1
<1>7. QED
  BY <1>1, <1>5, <1>6

-----------------------------------------------------------------------------
(***************************************************************************)
(* The list of free cells.                                                 *)
(***************************************************************************)
LEMMA BoardFields ==
  ASSUME NEW b \in Boards
  PROVE  /\ b.state \in [Cells -> Nat] /\ b.free \in Seq(Cells)
         /\ Len(b.free) \in Nat /\ DOMAIN b.free = 1 .. Len(b.free)
         /\ \A i \in 1 .. Len(b.free) : b.free[i] \in Cells
  BY DEF Boards, States

\* A cell is at most once in the list: its state tells where.
LEMMA ListedOnce ==
  ASSUME NEW b \in Boards, ListSound(b), NEW i \in DOMAIN b.free, NEW j \in DOMAIN b.free,
         b.free[i] = b.free[j]
  PROVE  i = j
  BY BoardFields DEF ListSound

\* The cell that is used leaves the list, the last one takes its place.
CellUsed(b, i, d, r) ==
  /\ r \in Boards /\ ListSound(r)
  /\ Len(r.free) = Len(b.free) - 1
  /\ \A x : x \in Listed(r.free) <=> x \in Listed(b.free) /\ x # b.free[i]
  /\ \A c \in Cells \ Listed(b.free) : r.state[c] = b.state[c]
  /\ r.state[b.free[i]] = IF i # Len(b.free) THEN d ELSE i + 3
  /\ \A j \in 1 .. Len(r.free) : r.free[j] = IF j = i THEN b.free[Len(b.free)] ELSE b.free[j]

LEMMA UseCell ==
  ASSUME NEW b \in Boards, ListSound(b), NEW i \in 1 .. Len(b.free), NEW d \in Nat
  PROVE  CellUsed(b, i, d, game_use_cell(b, b.free[i], d))
<1> DEFINE r == game_use_cell(b, b.free[i], d)
           n == Len(b.free)
           c == b.free[i]
           last == b.free[n]
<1>1. /\ b.state \in [Cells -> Nat] /\ b.free \in Seq(Cells) /\ n \in Nat
      /\ DOMAIN b.free = 1 .. n /\ n \in 1 .. n
      /\ \A j \in 1 .. n : b.free[j] \in Cells
  BY BoardFields
<1>2. b.state[c] = i + 3 /\ c \in Cells /\ last \in Cells
  BY <1>1 DEF ListSound
<1> DEFINE f == [b.free EXCEPT ![i] = last]
           g == SubSeq(f, 1, n - 1)
           t == [b.state EXCEPT ![c] = d, ![last] = i + 3]
<1>3. r = [state |-> t, free |-> g]
  <2>1. b.state[c] - 4 + 1 = i /\ b.state[c] - 4 + 4 = i + 3
    BY <1>2
  <2>2. QED
    BY <2>1 DEF game_use_cell
<1>4. f \in Seq(Cells) /\ Len(f) = n /\ \A j \in 1 .. n : f[j] = IF j = i THEN last ELSE b.free[j]
  BY <1>1, <1>2, ExceptSeq
<1>5. g \in Seq(Cells) /\ Len(g) = n - 1 /\ \A j \in 1 .. n - 1 : g[j] = IF j = i THEN last ELSE b.free[j]
  <2> HIDE DEF f
  <2>1. n - 1 \in 0 .. n /\ 1 \in 1 .. n + 1
    BY <1>1
  <2>2. QED
    BY <1>4, <2>1, SubSeqProperties
<1>6. /\ t \in [Cells -> Nat]
      /\ \A x \in Cells : t[x] = IF x = last THEN i + 3 ELSE IF x = c THEN d ELSE b.state[x]
  BY <1>1, <1>2
<1> HIDE DEF f, g, t, r
<1>7. r \in Boards
  BY <1>3, <1>5, <1>6 DEF Boards, States
<1>8. DOMAIN g = 1 .. n - 1
  BY <1>5
<1>9. ListSound(r)
  <2>1. ASSUME NEW j \in 1 .. n - 1 PROVE t[g[j]] = j + 3
    <3>1. j \in 1 .. n /\ j # n
      BY <1>1
    <3>2. CASE j = i
      BY <3>2, <1>5, <1>6, <1>2
    <3>3. CASE j # i
      <4>1. g[j] = b.free[j] /\ b.free[j] # c /\ b.free[j] # last
        BY <3>1, <3>3, <1>1, <1>5, ListedOnce
      <4>2. QED
        BY <4>1, <3>1, <1>1, <1>6 DEF ListSound
    <3>4. QED
      BY <3>2, <3>3
  <2>2. QED
    BY <2>1, <1>3, <1>8 DEF ListSound
<1>10. \A x : x \in Listed(g) <=> x \in Listed(b.free) /\ x # c
  <2>1. ASSUME NEW x \in Listed(g) PROVE x \in Listed(b.free) /\ x # c
    <3>1. PICK j \in 1 .. n - 1 : x = g[j]
      BY <1>8 DEF Listed
    <3>2. j \in 1 .. n /\ j # n
      BY <1>1
    <3>3. CASE j = i
      BY <3>1, <3>2, <3>3, <1>1, <1>5, ListedOnce DEF Listed
    <3>4. CASE j # i
      BY <3>1, <3>2, <3>4, <1>1, <1>5, ListedOnce DEF Listed
    <3>5. QED
      BY <3>3, <3>4
  <2>2. ASSUME NEW x \in Listed(b.free), x # c PROVE x \in Listed(g)
    <3>1. PICK j \in 1 .. n : x = b.free[j]
      BY <1>1 DEF Listed
    <3>2. CASE j = n
      <4>1. i \in 1 .. n - 1 /\ g[i] = x
        BY <3>1, <3>2, <2>2, <1>1, <1>5
      <4>2. QED
        BY <4>1, <1>8 DEF Listed
    <3>3. CASE j # n
      <4>1. j \in 1 .. n - 1 /\ g[j] = x
        BY <3>1, <3>3, <2>2, <1>1, <1>5
      <4>2. QED
        BY <4>1, <1>8 DEF Listed
    <3>4. QED
      BY <3>2, <3>3
  <2>3. QED
    BY <2>1, <2>2
<1>11. \A x \in Cells \ Listed(b.free) : t[x] = b.state[x]
  BY <1>1, <1>6 DEF Listed
<1>12. t[c] = IF i # n THEN d ELSE i + 3
  BY <1>1, <1>2, <1>6, ListedOnce
<1>13. QED
  BY <1>3, <1>5, <1>7, <1>9, <1>10, <1>11, <1>12 DEF CellUsed, r

\* A cell that is not in the list goes to its end.
CellFreed(b, c, r) ==
  /\ r \in Boards /\ ListSound(r)
  /\ \A x : x \in Listed(r.free) <=> x \in Listed(b.free) \/ x = c
  /\ \A x \in Cells \ {c} : r.state[x] = b.state[x]

LEMMA FreeCell ==
  ASSUME NEW b \in Boards, ListSound(b), NEW c \in Cells \ Listed(b.free)
  PROVE  CellFreed(b, c, game_free_cell(b, c))
<1> DEFINE r == game_free_cell(b, c)
           n == Len(b.free)
           f == Append(b.free, c)
           t == [b.state EXCEPT ![c] = n + 4]
<1>1. /\ b.state \in [Cells -> Nat] /\ b.free \in Seq(Cells) /\ n \in Nat
      /\ DOMAIN b.free = 1 .. n
      /\ \A j \in 1 .. n : b.free[j] \in Cells
  BY BoardFields
<1>2. r = [state |-> t, free |-> f]
  BY DEF game_free_cell
<1>3. /\ f \in Seq(Cells) /\ Len(f) = n + 1 /\ f[n + 1] = c
      /\ \A j \in 1 .. n : f[j] = b.free[j]
  BY <1>1, AppendProperties
<1>4. /\ t \in [Cells -> Nat] /\ t[c] = n + 4
      /\ \A x \in Cells \ {c} : t[x] = b.state[x]
  BY <1>1
<1> HIDE DEF f, t, r
<1>5. DOMAIN f = 1 .. n + 1 /\ n + 1 \in 1 .. n + 1
  BY <1>1, <1>3
<1>6. r \in Boards
  BY <1>2, <1>3, <1>4 DEF Boards, States
<1>7. \A j \in 1 .. n : b.free[j] # c /\ b.state[b.free[j]] = j + 3
  BY <1>1 DEF Listed, ListSound
<1>8. ListSound(r)
  <2>1. ASSUME NEW j \in 1 .. n + 1 PROVE t[f[j]] = j + 3
    <3>1. CASE j = n + 1
      BY <3>1, <1>1, <1>3, <1>4
    <3>2. CASE j # n + 1
      <4>1. j \in 1 .. n
        BY <3>2, <1>1
      <4>2. QED
        BY <4>1, <1>1, <1>3, <1>4, <1>7
    <3>3. QED
      BY <3>1, <3>2
  <2>2. QED
    BY <2>1, <1>2, <1>5 DEF ListSound
<1>9. Listed(f) = Listed(b.free) \cup {c}
  <2>1. \A x \in Listed(f) : x \in Listed(b.free) \cup {c}
    <3>1. \A j \in 1 .. n + 1 : j = n + 1 \/ j \in 1 .. n
      BY <1>1
    <3>2. QED
      BY <3>1, <1>1, <1>3, <1>5 DEF Listed
  <2>2. \A x \in Listed(b.free) : x \in Listed(f)
    <3>1. \A j \in 1 .. n : j \in 1 .. n + 1
      BY <1>1
    <3>2. QED
      BY <3>1, <1>1, <1>3, <1>5 DEF Listed
  <2>3. c \in Listed(f)
    BY <1>3, <1>5 DEF Listed
  <2>4. QED
    BY <2>1, <2>2, <2>3
<1>10. QED
  BY <1>2, <1>4, <1>6, <1>8, <1>9 DEF CellFreed, r

-----------------------------------------------------------------------------
(***************************************************************************)
(* The first board.                                                        *)
(***************************************************************************)
\* The place of the first head in the list of all the cells.
First == Width \div 2 + (Height \div 2) * Width

LEMMA Sizes ==
  /\ Width \in Nat \ {0} /\ Height \in Nat /\ TailOffset \in Nat \ {0}
  /\ Width * Height \in Nat
  /\ First \in Nat
  /\ FirstHead[1] \in Nat /\ FirstHead[2] \in 0 .. Height - 1
  /\ FirstHead[1] + TailOffset < Width
  /\ First + 2 * TailOffset + 2 <= Width * Height
<1>1. /\ Width \in Nat \ {0} /\ Height \in Nat /\ TailOffset \in Nat \ {0}
      /\ FirstHead[1] \in Nat /\ FirstHead[2] \in 0 .. Height - 1
      /\ FirstHead[1] + TailOffset < Width
      /\ FirstHead[1] = Width \div 2 /\ FirstHead[2] = Height \div 2
      /\ Height \div 2 + 2 <= Height
  BY SnakeAssumption DEF SnakeAssumption, FirstHead
<1> DEFINE h == Height \div 2
<1>2. h \in Nat /\ h + 2 \in Nat
  BY <1>1
<1>3. (h + 2) * Width <= Height * Width
  BY <1>1, <1>2, ProductMonotonic
<1>4. (h + 2) * Width = h * Width + Width + Width /\ h * Width \in Nat
  BY <1>1, <1>2
<1>5. Width * Height \in Nat /\ Width * Height = Height * Width
  BY <1>1
<1>6. QED
  BY <1>1, <1>3, <1>4, <1>5 DEF First

\* The cell at a place of the list, and the place of a cell.
LEMMA NewList ==
  /\ game_new.free \in Seq(Cells)
  /\ Len(game_new.free) = Width * Height
  /\ \A i \in 1 .. Width * Height :
       game_new.free[i] = <<(i - 1) % Width, (i - 1) \div Width>>
<1>1. ASSUME NEW i \in 1 .. Width * Height
      PROVE  <<(i - 1) % Width, (i - 1) \div Width>> \in Cells
  <2>1. i - 1 \in Nat /\ i - 1 < Width * Height
    BY Sizes
  <2>2. (i - 1) % Width \in 0 .. Width - 1 /\ (i - 1) \div Width \in Nat
    BY <2>1, Sizes, DivMod
  <2>3. (i - 1) \div Width < Height
    BY <2>1, Sizes, DivBelow
  <2>4. (i - 1) \div Width \in 0 .. Height - 1
    BY <2>2, <2>3, Sizes
  <2>5. QED
    BY <2>2, <2>4 DEF Cells
<1> DEFINE f == [i \in 1 .. Width * Height |-> <<(i - 1) % Width, (i - 1) \div Width>>]
<1>2. game_new.free = f
  BY DEF game_new
<1>3. f \in [1 .. Width * Height -> Cells]
  BY <1>1
<1>4. Width * Height \in Nat
  BY Sizes
<1>5. \A i \in 1 .. Width * Height : f[i] = <<(i - 1) % Width, (i - 1) \div Width>>
  OBVIOUS
<1> HIDE DEF f
<1>6. f \in Seq(Cells) /\ Len(f) = Width * Height
  BY <1>3, <1>4, SeqDef, LenProperties
<1>7. QED
  BY <1>2, <1>5, <1>6

LEMMA CellPlace ==
  ASSUME NEW c \in Cells
  PROVE  /\ c[1] \in 0 .. Width - 1 /\ c[2] \in 0 .. Height - 1 /\ c = <<c[1], c[2]>>
         /\ c[1] + c[2] * Width + 1 \in 1 .. Width * Height
         /\ game_new.free[c[1] + c[2] * Width + 1] = c
<1>1. /\ c[1] \in 0 .. Width - 1 /\ c[2] \in 0 .. Height - 1 /\ c = <<c[1], c[2]>>
      /\ c[2] \in Nat /\ c[2] + 1 \in Nat
  BY Sizes DEF Cells
<1>2. (c[2] + 1) * Width <= Height * Width
  BY <1>1, Sizes, ProductMonotonic
<1>3. (c[2] + 1) * Width = c[2] * Width + Width /\ c[2] * Width \in Nat
      /\ Height * Width = Width * Height
  BY <1>1, Sizes
<1>4. c[1] + c[2] * Width + 1 \in 1 .. Width * Height
      /\ c[1] + c[2] * Width + 1 - 1 = c[1] + c[2] * Width
  BY <1>1, <1>2, <1>3, Sizes
<1>5. (c[1] + c[2] * Width) % Width = c[1] /\ (c[1] + c[2] * Width) \div Width = c[2]
  BY <1>1, Sizes, DivModUnique
<1> DEFINE i == c[1] + c[2] * Width + 1
<1>6. game_new.free[i] = <<(i - 1) % Width, (i - 1) \div Width>>
  BY <1>4, NewList
<1>7. game_new.free[i] = <<c[1], c[2]>>
  <2>1. i - 1 = c[1] + c[2] * Width
    BY <1>1, <1>3
  <2>2. QED
    BY <2>1, <1>5, <1>6
<1>8. QED
  BY <1>1, <1>4, <1>7

LEMMA NewBoard ==
  game_new \in Boards /\ ListSound(game_new) /\ Listed(game_new.free) = Cells
<1>1. ASSUME NEW c \in Cells
      PROVE  game_new.state[c] = c[1] + c[2] * Width + 4 /\ game_new.state[c] \in Nat
  <2>1. game_new.state[c] = c[1] + c[2] * Width + 4
    BY DEF game_new
  <2>2. c[1] + c[2] * Width + 1 \in Nat /\ c[1] \in Nat /\ c[2] \in Nat
    BY CellPlace, Sizes
  <2>3. c[2] * Width \in Nat
    BY <2>2, Sizes
  <2>4. QED
    BY <2>1, <2>2, <2>3
<1>2. game_new \in Boards
  <2>1. game_new = [state |-> game_new.state, free |-> game_new.free]
    BY DEF game_new
  <2>2. game_new.state \in [Cells -> Nat]
    BY <1>1 DEF game_new
  <2>3. QED
    BY <2>1, <2>2, NewList DEF Boards, States
<1>3. ListSound(game_new)
  <2>1. ASSUME NEW i \in 1 .. Width * Height PROVE game_new.state[game_new.free[i]] = i + 3
    <3>1. i - 1 \in Nat /\ game_new.free[i] \in Cells
      <4>1. game_new.free \in Seq(Cells) /\ Len(game_new.free) = Width * Height
        BY NewList
      <4>2. i \in 1 .. Len(game_new.free)
        BY <4>1
      <4>3. i - 1 \in Nat
        BY Sizes
      <4>4. QED
        BY <4>1, <4>2, <4>3, ElementOfSeq
    <3>2. i - 1 = ((i - 1) % Width) + ((i - 1) \div Width) * Width
      BY <3>1, Sizes, DivMod
    <3>3. game_new.free[i] = <<(i - 1) % Width, (i - 1) \div Width>>
      BY NewList
    <3>4. game_new.state[game_new.free[i]] = ((i - 1) % Width) + ((i - 1) \div Width) * Width + 4
      BY <3>1, <3>3, <1>1
    <3>5. QED
      BY <3>1, <3>2, <3>4
  <2>2. QED
    BY <2>1, NewList DEF ListSound
<1>4. Listed(game_new.free) = Cells
  <2>1. DOMAIN game_new.free = 1 .. Width * Height
    BY NewList
  <2>2. \A i \in 1 .. Width * Height : game_new.free[i] \in Cells
    BY <2>1, NewList
  <2>3. \A c \in Cells : \E i \in 1 .. Width * Height : game_new.free[i] = c
    BY CellPlace
  <2>4. QED
    BY <2>1, <2>2, <2>3 DEF Listed
<1>5. QED
  BY <1>2, <1>3, <1>4

\* The cells of the first snake are on the board, one after the other.
LEMMA FirstCellsPlaces ==
  ASSUME NEW k \in 0 .. TailOffset
  PROVE  /\ FirstCells[k] \in Cells /\ FirstCells[k] = <<FirstHead[1] + k, FirstHead[2]>>
         /\ game_new.free[First + k + 1] = FirstCells[k]
         /\ First + k + 1 \in 1 .. Width * Height
<1>1. FirstCells[k] = <<FirstHead[1] + k, FirstHead[2]>>
  BY DEF FirstCells
<1>2. FirstCells[k] \in Cells
  BY <1>1, Sizes DEF Cells
<1>3. FirstHead[1] + k + FirstHead[2] * Width + 1 = First + k + 1
  BY Sizes DEF First, FirstHead
<1>4. QED
  BY <1>1, <1>2, <1>3, CellPlace

\* The board after the first k cells of the snake are used: the list is as it
\* was after their places, but for the end of it.
Used(b, k) ==
  /\ b \in Boards /\ ListSound(b)
  /\ Listed(b.free) = Cells \ {FirstCells[j] : j \in 0 .. k - 1}
  /\ Len(b.free) = Width * Height - k
  /\ \A j \in First + k + 1 .. Width * Height - k : b.free[j] = game_new.free[j]
  /\ \A j \in 0 .. k - 1 : b.state[FirstCells[j]] = LEFT

LEMMA UseFirstCell ==
  ASSUME NEW b, NEW k \in 0 .. TailOffset, Used(b, k),
         NEW r, r = game_use_cell(b, FirstCells[k], LEFT)
  PROVE  Used(r, k + 1)
<1> PICK i : i = First + k + 1
  OBVIOUS
<1> PICK n : n = Width * Height - k
  OBVIOUS
<1>1. /\ i \in First + k + 1 .. n /\ i \in 1 .. n /\ i # n /\ n \in Nat /\ k \in Nat
      /\ k + 1 - 1 = k /\ LEFT \in Nat
      /\ n - 1 = Width * Height - (k + 1)
  BY Sizes DEF LEFT
<1>2. b.free[i] = FirstCells[k]
  BY <1>1, FirstCellsPlaces DEF Used
<1>3. b \in Boards /\ ListSound(b) /\ Len(b.free) = n
  BY DEF Used
<1>4. /\ r \in Boards /\ ListSound(r) /\ Len(r.free) = n - 1
      /\ \A x : x \in Listed(r.free) <=> x \in Listed(b.free) /\ x # FirstCells[k]
      /\ \A c \in Cells \ Listed(b.free) : r.state[c] = b.state[c]
      /\ r.state[FirstCells[k]] = LEFT
      /\ \A j \in 1 .. n - 1 : r.free[j] = IF j = i THEN b.free[n] ELSE b.free[j]
  <2>1. i \in 1 .. Len(b.free) /\ i # Len(b.free)
    BY <1>1, <1>3
  <2>2. CellUsed(b, i, LEFT, game_use_cell(b, b.free[i], LEFT))
    BY <1>1, <1>3, <2>1, UseCell
  <2>3. CellUsed(b, i, LEFT, r)
    BY <1>2, <2>2
  <2>4. QED
    BY ONLY <1>2, <1>3, <2>1, <2>3 DEF CellUsed
<1>5. Listed(r.free) = Cells \ {FirstCells[j] : j \in 0 .. (k + 1) - 1}
  <2>1. {FirstCells[j] : j \in 0 .. k} = {FirstCells[j] : j \in 0 .. k - 1} \cup {FirstCells[k]}
    <3>1. \A j \in 0 .. k : j = k \/ j \in 0 .. k - 1
      BY <1>1
    <3>2. \A j \in 0 .. k - 1 : j \in 0 .. k
      BY <1>1
    <3>3. k \in 0 .. k
      BY <1>1
    <3>4. QED
      BY <3>1, <3>2, <3>3
  <2>2. Listed(b.free) = Cells \ {FirstCells[j] : j \in 0 .. k - 1}
    BY DEF Used
  <2>3. {FirstCells[j] : j \in 0 .. (k + 1) - 1} = {FirstCells[j] : j \in 0 .. k}
    BY <1>1
  <2>4. \A x : x \in Listed(r.free) <=> x \in Listed(b.free) /\ x # FirstCells[k]
    BY <1>4
  <2>5. QED
    BY <2>1, <2>2, <2>3, <2>4, Zenon
<1>6. \A j \in First + (k + 1) + 1 .. Width * Height - (k + 1) : r.free[j] = game_new.free[j]
  <2>1. SUFFICES ASSUME NEW j \in First + (k + 1) + 1 .. Width * Height - (k + 1)
                 PROVE  r.free[j] = game_new.free[j]
    OBVIOUS
  <2>2. j \in 1 .. n - 1 /\ j # i /\ j \in First + k + 1 .. n
    BY <1>1, Sizes
  <2>3. QED
    BY <2>2, <1>4 DEF Used
<1>7. \A j \in 0 .. (k + 1) - 1 : r.state[FirstCells[j]] = LEFT
  <2>1. SUFFICES ASSUME NEW j \in 0 .. k - 1 PROVE r.state[FirstCells[j]] = LEFT
    BY <1>1, <1>4
  <2>2. j \in 0 .. TailOffset
    BY <1>1, Sizes
  <2>3. FirstCells[j] \in Cells \ Listed(b.free)
    BY <2>2, FirstCellsPlaces DEF Used
  <2>4. QED
    BY <2>3, <1>4 DEF Used
<1>8. QED
  BY <1>1, <1>4, <1>5, <1>6, <1>7 DEF Used
-----------------------------------------------------------------------------
(***************************************************************************)
(* A snake on a board: a body that follows the directions, on cells that   *)
(* are not in the list.                                                    *)
(***************************************************************************)
Occupied(b) == {b[k] : k \in 1 .. Len(b)}

Fits(B, b, t) ==
  /\ B \in Boards /\ ListSound(B)
  /\ IsBody(b, t, B.state)
  /\ Occupied(b) \cap Listed(B.free) = {}

LEMMA BodyCells ==
  ASSUME NEW b, NEW t, NEW state, IsBody(b, t, state)
  PROVE  /\ b \in Seq(Cells) /\ Len(b) \in Nat /\ Len(b) > 1
         /\ \A k \in 1 .. Len(b) : b[k] \in Cells /\ b[k] \in Occupied(b)
         /\ Game!CellsOf(b) = Occupied(b)
         /\ b[1] \in Cells /\ t \in Cells /\ t \in Occupied(b)
<1>1. b \in Seq(Cells) /\ Len(b) \in Nat /\ Len(b) > 1 /\ DOMAIN b = 1 .. Len(b) /\ b[Len(b)] = t
  BY DEF IsBody
<1>2. \A k \in 1 .. Len(b) : b[k] \in Cells /\ b[k] \in Occupied(b)
  BY <1>1 DEF Occupied
<1>3. 1 \in 1 .. Len(b) /\ Len(b) \in 1 .. Len(b)
  BY <1>1
<1>4. Game!CellsOf(b) = Occupied(b)
  BY <1>1 DEF Game!CellsOf, Occupied
<1>5. QED
  BY <1>1, <1>2, <1>3, <1>4

\* The snake is longer by its head; its former head holds a direction.
Grown(B, b, t, i, r) ==
  /\ Fits(r, <<B.free[i]>> \o b, t) /\ IsBody(b, t, r.state)
  /\ Len(r.free) = Len(B.free) - 1
  /\ \A x : x \in Listed(r.free) <=> x \in Listed(B.free) /\ x # B.free[i]
  /\ \A x : x \in Occupied(<<B.free[i]>> \o b) <=> x \in Occupied(b) \/ x = B.free[i]

LEMMA Longer ==
  ASSUME NEW b \in Seq(Cells), NEW c \in Cells
  PROVE  /\ <<c>> \o b \in Seq(Cells) /\ Len(<<c>> \o b) = Len(b) + 1
         /\ (<<c>> \o b)[1] = c
         /\ \A k \in 2 .. Len(b) + 1 : (<<c>> \o b)[k] = b[k - 1]
         /\ \A x : x \in Occupied(<<c>> \o b) <=> x \in Occupied(b) \/ x = c
<1> DEFINE nb == <<c>> \o b
<1>1. /\ nb \in Seq(Cells) /\ Len(nb) = Len(b) + 1 /\ nb[1] = c /\ Len(b) \in Nat
      /\ \A k \in 2 .. Len(b) + 1 : nb[k] = b[k - 1]
  OBVIOUS
<1> HIDE DEF nb
<1>2. ASSUME NEW x, x \in Occupied(nb) PROVE x \in Occupied(b) \/ x = c
  <2>1. PICK k \in 1 .. Len(b) + 1 : x = nb[k]
    BY <1>1, <1>2 DEF Occupied
  <2>2. CASE k = 1
    BY <2>1, <2>2, <1>1
  <2>3. CASE k # 1
    <3>1. k \in 2 .. Len(b) + 1 /\ k - 1 \in 1 .. Len(b)
      BY <2>3, <1>1
    <3>2. QED
      BY <3>1, <2>1, <1>1 DEF Occupied
  <2>4. QED
    BY <2>2, <2>3
<1>3. c \in Occupied(nb)
  <2>1. 1 \in 1 .. Len(nb)
    BY <1>1
  <2>2. QED
    BY <2>1, <1>1 DEF Occupied
<1>4. ASSUME NEW x \in Occupied(b) PROVE x \in Occupied(nb)
  <2>1. PICK k \in 1 .. Len(b) : x = b[k]
    BY DEF Occupied
  <2>2. k + 1 \in 2 .. Len(b) + 1 /\ k + 1 \in 1 .. Len(nb) /\ (k + 1) - 1 = k
    BY <1>1
  <2>3. nb[k + 1] = x
    BY <2>1, <2>2, <1>1
  <2>4. QED
    BY <2>2, <2>3 DEF Occupied
<1>5. QED
  BY <1>1, <1>2, <1>3, <1>4 DEF nb

LEMMA Grow ==
  ASSUME NEW B, NEW b, NEW t, Fits(B, b, t), NEW d \in Directions,
         NEW i \in 1 .. Len(B.free), B.free[i] = Neighbor(b[1], d)
  PROVE  Grown(B, b, t, i,
               game_use_cell([B EXCEPT !.state[b[1]] = d], B.free[i], LEFT))
<1> DEFINE B0 == [B EXCEPT !.state[b[1]] = d]
           r == game_use_cell(B0, B.free[i], LEFT)
           next == B.free[i]
           nb == <<next>> \o b
<1>1. /\ B \in Boards /\ ListSound(B) /\ IsBody(b, t, B.state)
      /\ Occupied(b) \cap Listed(B.free) = {}
  BY DEF Fits
<1>2. /\ b[1] \in Cells /\ b[1] \in Occupied(b) /\ b[1] \notin Listed(B.free)
      /\ Len(b) \in Nat /\ Len(b) > 1 /\ d \in Nat /\ LEFT \in Nat
  BY <1>1, BodyCells DEF Occupied, Directions, LEFT, RIGHT, UP, DOWN
<1>3. /\ B.state \in [Cells -> Nat] /\ B.free \in Seq(Cells) /\ DOMAIN B.free = 1 .. Len(B.free)
      /\ \A j \in 1 .. Len(B.free) : B.free[j] \in Cells /\ B.free[j] \in Listed(B.free)
  BY <1>1, BoardFields DEF Listed
<1>4. /\ B0 \in Boards /\ B0.free = B.free
      /\ \A x \in Cells : B0.state[x] = IF x = b[1] THEN d ELSE B.state[x]
  <2>1. B0 = [state |-> [B.state EXCEPT ![b[1]] = d], free |-> B.free]
    BY <1>1 DEF Boards
  <2>2. [B.state EXCEPT ![b[1]] = d] \in [Cells -> Nat]
    BY <1>2, <1>3
  <2>3. \A x \in Cells : [B.state EXCEPT ![b[1]] = d][x] = IF x = b[1] THEN d ELSE B.state[x]
    BY <1>3
  <2> HIDE DEF B0
  <2>4. QED
    BY <2>1, <2>2, <2>3, <1>3 DEF Boards, States
<1> HIDE DEF B0
<1>5. ListSound(B0)
  BY <1>1, <1>2, <1>3, <1>4 DEF ListSound
<1>6. CellUsed(B0, i, LEFT, r)
  <2>1. CellUsed(B0, i, LEFT, game_use_cell(B0, B0.free[i], LEFT))
    BY <1>2, <1>4, <1>5, UseCell
  <2>2. QED
    BY <2>1, <1>4
<1> HIDE DEF r
<1>7. /\ r \in Boards /\ ListSound(r) /\ Len(r.free) = Len(B.free) - 1
      /\ \A x : x \in Listed(r.free) <=> x \in Listed(B.free) /\ x # next
      /\ \A x \in Cells \ Listed(B.free) : r.state[x] = B0.state[x]
  BY <1>4, <1>6 DEF CellUsed
<1>8. \A k \in 1 .. Len(b) : /\ b[k] \in Cells \ Listed(B.free)
                             /\ r.state[b[k]] = IF b[k] = b[1] THEN d ELSE B.state[b[k]]
  BY <1>1, <1>4, <1>7, BodyCells
<1>9. \A k \in 2 .. Len(b) : r.state[b[k]] = B.state[b[k]] /\ k \in 1 .. Len(b)
  BY <1>1, <1>2, <1>8 DEF IsBody
<1>10. IsBody(b, t, r.state)
  BY <1>1, <1>9 DEF IsBody
<1>11. next \in Cells /\ next \in Listed(B.free) /\ b \in Seq(Cells)
  BY <1>1, <1>3 DEF IsBody
<1>12. /\ nb \in Seq(Cells) /\ Len(nb) = Len(b) + 1 /\ nb[1] = next
       /\ \A k \in 2 .. Len(b) + 1 : nb[k] = b[k - 1]
       /\ \A x : x \in Occupied(nb) <=> x \in Occupied(b) \/ x = next
  BY <1>11, Longer
<1> HIDE DEF nb
<1>13. \A k \in 2 .. Len(nb) : r.state[nb[k]] \in Directions /\ nb[k - 1] = Neighbor(nb[k], r.state[nb[k]])
  <2> SUFFICES ASSUME NEW k \in 2 .. Len(b) + 1
               PROVE  r.state[nb[k]] \in Directions /\ nb[k - 1] = Neighbor(nb[k], r.state[nb[k]])
    BY <1>12
  <2>1. CASE k = 2
    <3>1. nb[2] = b[1] /\ nb[1] = next /\ 1 \in 1 .. Len(b)
      BY <2>1, <1>12, <1>2
    <3>2. r.state[b[1]] = d
      BY <1>8, <3>1
    <3>3. QED
      BY <2>1, <3>1, <3>2
  <2>2. CASE k # 2
    <3>1. k - 1 \in 2 .. Len(b) /\ k - 1 \in 2 .. Len(b) + 1 /\ k \in 2 .. Len(b) + 1
      BY <2>2, <1>2
    <3>2. nb[k] = b[k - 1] /\ nb[k - 1] = b[(k - 1) - 1]
      BY <3>1, <1>12
    <3>3. QED
      BY <3>1, <3>2, <1>10 DEF IsBody
  <2>3. QED
    BY <2>1, <2>2
<1>14. \A j, k \in 1 .. Len(nb) : nb[j] = nb[k] => j = k
  <2>1. \A k \in 1 .. Len(b) + 1 : k # 1 => nb[k] = b[k - 1] /\ k - 1 \in 1 .. Len(b)
    BY <1>2, <1>12
  <2>2. \A k \in 1 .. Len(b) : b[k] # next
    BY <1>8, <1>11
  <2>3. \A j, k \in 1 .. Len(b) : b[j] = b[k] => j = k
    BY <1>1 DEF IsBody
  <2>4. SUFFICES ASSUME NEW j \in 1 .. Len(b) + 1, NEW k \in 1 .. Len(b) + 1, nb[j] = nb[k]
                 PROVE  j = k
    BY <1>12
  <2>5. CASE j = 1 \/ k = 1
    BY <2>1, <2>2, <2>4, <2>5, <1>12
  <2>6. CASE j # 1 /\ k # 1
    <3>1. j - 1 = k - 1
      BY <2>1, <2>3, <2>4, <2>6
    <3>2. QED
      BY <3>1
  <2>7. QED
    BY <2>5, <2>6
<1>15. nb[Len(nb)] = t
  <2>1. Len(b) + 1 \in 2 .. Len(b) + 1 /\ (Len(b) + 1) - 1 = Len(b)
    BY <1>2
  <2>2. QED
    BY <2>1, <1>1, <1>12 DEF IsBody
<1>16. IsBody(nb, t, r.state)
  BY <1>2, <1>12, <1>13, <1>14, <1>15 DEF IsBody
<1>17. Occupied(nb) \cap Listed(r.free) = {}
  BY <1>1, <1>7, <1>12
<1>18. Fits(r, nb, t)
  BY <1>7, <1>16, <1>17 DEF Fits
<1>19. QED
  BY <1>7, <1>10, <1>12, <1>18 DEF Grown, nb, r, B0
\* The snake is shorter by its tail, whose cell goes to the list.
Shrunk(B, b, t, r) ==
  LET front == SubSeq(b, 1, Len(b) - 1) IN
  /\ Fits(r, front, Neighbor(t, B.state[t]))
  /\ \A x : x \in Listed(r.free) <=> x \in Listed(B.free) \/ x = t
  /\ \A x : x \in Occupied(front) <=> x \in Occupied(b) /\ x # t

LEMMA Shrink ==
  ASSUME NEW B, NEW b, NEW t, Fits(B, b, t), Len(b) > 2
  PROVE  Shrunk(B, b, t, game_free_cell(B, t))
<1> DEFINE r == game_free_cell(B, t)
           front == SubSeq(b, 1, Len(b) - 1)
           t2 == Neighbor(t, B.state[t])
<1>1. /\ B \in Boards /\ ListSound(B) /\ IsBody(b, t, B.state)
      /\ Occupied(b) \cap Listed(B.free) = {}
  BY DEF Fits
<1>2. /\ Len(b) \in Nat /\ b \in Seq(Cells) /\ t = b[Len(b)] /\ t \in Cells /\ t \in Occupied(b)
      /\ \A k \in 1 .. Len(b) : b[k] \in Cells /\ b[k] \in Occupied(b)
  BY <1>1, BodyCells DEF IsBody
<1>3. t \in Cells \ Listed(B.free)
  BY <1>1, <1>2
<1>4. CellFreed(B, t, r)
  BY <1>1, <1>3, FreeCell
<1> HIDE DEF r
<1>5. /\ r \in Boards /\ ListSound(r)
      /\ \A x : x \in Listed(r.free) <=> x \in Listed(B.free) \/ x = t
      /\ \A x \in Cells \ {t} : r.state[x] = B.state[x]
  BY <1>4 DEF CellFreed
<1>6. /\ front \in Seq(Cells) /\ Len(front) = Len(b) - 1
      /\ \A k \in 1 .. Len(b) - 1 : front[k] = b[k] /\ k \in 1 .. Len(b)
  <2>1. Len(b) - 1 \in 0 .. Len(b) /\ 1 \in 1 .. Len(b) + 1
    BY <1>2
  <2>2. QED
    BY <1>2, <2>1, SubSeqProperties
<1> HIDE DEF front
<1>7. \A j, k \in 1 .. Len(b) : b[j] = b[k] => j = k
  BY <1>1 DEF IsBody
<1>8. \A k \in 1 .. Len(b) - 1 : b[k] # t
  BY <1>2, <1>7
<1>9. \A x : x \in Occupied(front) <=> x \in Occupied(b) /\ x # t
  <2>1. \A k \in 1 .. Len(b) : k = Len(b) \/ k \in 1 .. Len(b) - 1
    BY <1>2
  <2>2. QED
    BY <2>1, <1>2, <1>6, <1>8 DEF Occupied
<1>10. front[Len(front)] = t2
  <2>1. Len(b) \in 2 .. Len(b) /\ Len(b) - 1 \in 1 .. Len(b) - 1
    BY <1>2
  <2>2. QED
    BY <2>1, <1>1, <1>2, <1>6 DEF IsBody
<1>11. \A k \in 2 .. Len(front) : r.state[front[k]] \in Directions /\ front[k - 1] = Neighbor(front[k], r.state[front[k]])
  <2> SUFFICES ASSUME NEW k \in 2 .. Len(b) - 1
               PROVE  r.state[front[k]] \in Directions /\ front[k - 1] = Neighbor(front[k], r.state[front[k]])
    BY <1>6
  <2>1. k \in 1 .. Len(b) - 1 /\ k - 1 \in 1 .. Len(b) - 1 /\ k \in 2 .. Len(b) /\ k \in 1 .. Len(b)
    BY <1>2
  <2>2. front[k] = b[k] /\ front[k - 1] = b[k - 1] /\ b[k] \in Cells \ {t}
    BY <2>1, <1>2, <1>6, <1>8
  <2>3. QED
    BY <2>1, <2>2, <1>1, <1>5 DEF IsBody
<1>12. IsBody(front, t2, r.state)
  <2>1. Len(front) > 1
    BY <1>2, <1>6
  <2>2. \A j, k \in 1 .. Len(front) : front[j] = front[k] => j = k
    BY <1>6, <1>7
  <2>3. QED
    BY <2>1, <2>2, <1>6, <1>10, <1>11 DEF IsBody
<1>13. Occupied(front) \cap Listed(r.free) = {}
  BY <1>1, <1>5, <1>9
<1>14. QED
  BY <1>5, <1>9, <1>12, <1>13 DEF Shrunk, Fits, front, r
-----------------------------------------------------------------------------
(***************************************************************************)
(* The invariant holds at first.                                           *)
(***************************************************************************)
LEMMA FirstBoardUsed == Used(FirstBoard, TailOffset + 1)
<1> DEFINE n == TailOffset
           Step(f, k) == game_use_cell(IF k = 0 THEN game_new ELSE f[k - 1], FirstCells[k], LEFT)
           P(f, m) == f = [k \in 0 .. m |-> Step(f, k)]
           S == {m \in 0 .. n : \E f : P(f, m)}
           use == CHOOSE f : P(f, n)
<1>1. n \in Nat /\ 0 \in 0 .. n /\ n \in 0 .. n /\ n \in Int /\ 0 \in Int
  BY Sizes
<1>2. \E f : P(f, n)
  <2>1. 0 \in S
    <3> DEFINE f == [k \in 0 .. 0 |-> game_use_cell(game_new, FirstCells[k], LEFT)]
    <3>1. P(f, 0)
      OBVIOUS
    <3>2. QED
      BY <3>1, <1>1
  <2>2. ASSUME NEW m \in 0 .. n - 1, m \in S PROVE m + 1 \in S
    <3>1. PICK f : P(f, m)
      BY <2>2
    <3> DEFINE last == game_use_cell(f[m], FirstCells[m + 1], LEFT)
               g == [k \in 0 .. m + 1 |-> IF k <= m THEN f[k] ELSE last]
    <3>2. m \in Nat /\ m + 1 \in 0 .. n
      BY <1>1
    <3>3. \A k \in 0 .. m : k \in 0 .. m + 1 /\ k <= m /\ (k # 0 => k - 1 \in 0 .. m)
      BY <3>2
    <3>4. \A k \in 0 .. m : g[k] = f[k]
      BY <3>3
    <3>5. g[m + 1] = last /\ (m + 1) - 1 = m /\ m \in 0 .. m /\ m + 1 # 0
      BY <3>2
    <3>6. g = [k \in 0 .. m + 1 |-> g[k]]
      OBVIOUS
    <3> HIDE DEF g
    <3>7. \A k \in 0 .. m : g[k] = Step(g, k)
      <4> SUFFICES ASSUME NEW k \in 0 .. m PROVE g[k] = Step(g, k)
        OBVIOUS
      <4>1. g[k] = f[k]
        BY <3>4
      <4>2. f[k] = Step(f, k)
        BY <3>1
      <4>3. k # 0 => g[k - 1] = f[k - 1]
        BY <3>3, <3>4
      <4>4. QED
        BY <4>1, <4>2, <4>3
    <3>8. g[m + 1] = Step(g, m + 1)
      BY <3>4, <3>5
    <3>9. \A k \in 0 .. m + 1 : k \in 0 .. m \/ k = m + 1
      BY <3>2
    <3> HIDE DEF Step
    <3>10. P(g, m + 1)
      BY <3>6, <3>7, <3>8, <3>9
    <3>11. QED
      BY <3>2, <3>10
  <2> HIDE DEF S
  <2>3. \A m \in 0 .. n : m \in S
    <3>1. \A m \in 0 .. n - 1 : m \in S => m + 1 \in S
      BY <2>2
    <3>2. QED
      BY <3>1, <2>1, <1>1, IntervalInduction, Zenon
  <2>4. QED
    BY <2>3, <1>1 DEF S
<1>3. P(use, n)
  BY <1>2
<1>4. FirstBoard = use[n]
  BY DEF FirstBoard
<1> HIDE DEF use
<1> DEFINE T == {k \in 0 .. n : Used(use[k], k + 1)}
<1>5. Used(game_new, 0)
  <2>1. Len(game_new.free) = Width * Height - 0
    BY NewList, Sizes
  <2>2. \A j \in 0 .. 0 - 1 : FALSE
    OBVIOUS
  <2>3. QED
    BY <2>1, <2>2, NewBoard DEF Used
<1>6. 0 \in T
  <2>1. use[0] = game_use_cell(game_new, FirstCells[0], LEFT)
    BY <1>1, <1>3
  <2>2. Used(use[0], 0 + 1)
    BY <2>1, <1>1, <1>5, UseFirstCell
  <2>3. QED
    BY <2>2, <1>1
<1>7. ASSUME NEW k \in 0 .. n - 1, k \in T PROVE k + 1 \in T
  <2>1. k + 1 \in 0 .. n /\ (k + 1) - 1 = k /\ k + 1 # 0
    BY <1>1
  <2>2. use[k + 1] = game_use_cell(use[k], FirstCells[k + 1], LEFT)
    BY <2>1, <1>3
  <2>3. Used(use[k + 1], (k + 1) + 1)
    BY <2>1, <2>2, <1>7, UseFirstCell
  <2>4. QED
    BY <2>1, <2>3
<1> HIDE DEF T
<1>8. \A k \in 0 .. n : k \in T
  <2>1. \A k \in 0 .. n - 1 : k \in T => k + 1 \in T
    BY <1>7
  <2>2. QED
    BY <2>1, <1>1, <1>6, IntervalInduction, Zenon
<1>9. QED
  BY <1>1, <1>4, <1>8 DEF T
LEMMA FirstBodyFits ==
  LET b == [k \in 1 .. TailOffset + 1 |-> FirstCells[k - 1]] IN
  /\ Fits(FirstBoard, b, FirstCells[TailOffset])
  /\ Len(b) = TailOffset + 1
  /\ \A x : x \in Occupied(b) <=> \E k \in DOMAIN FirstCells : x = FirstCells[k]
  /\ Occupied(b) \cup Listed(FirstBoard.free) = Cells
<1> DEFINE n == TailOffset
           b == [k \in 1 .. TailOffset + 1 |-> FirstCells[k - 1]]
           B == FirstBoard
<1>1. n \in Nat /\ n # 0 /\ (n + 1) - 1 = n
  BY Sizes
<1>2. /\ B \in Boards /\ ListSound(B)
      /\ Listed(B.free) = Cells \ {FirstCells[j] : j \in 0 .. n}
      /\ \A j \in 0 .. n : B.state[FirstCells[j]] = LEFT
  BY <1>1, FirstBoardUsed DEF Used
<1>3. \A j \in 0 .. n : FirstCells[j] \in Cells /\ FirstCells[j] = <<FirstHead[1] + j, FirstHead[2]>>
  BY FirstCellsPlaces
<1>4. \A k \in 1 .. n + 1 : k - 1 \in 0 .. n /\ b[k] = FirstCells[k - 1]
  BY <1>1
<1>5. \A j \in 0 .. n : j + 1 \in 1 .. n + 1 /\ b[j + 1] = FirstCells[j]
  BY <1>1
<1>6. b \in Seq(Cells) /\ Len(b) = n + 1
  <2>1. b \in [1 .. n + 1 -> Cells] /\ n + 1 \in Nat
    BY <1>1, <1>3
  <2>2. b \in Seq(Cells)
    BY <2>1, SeqDef
  <2>3. QED
    BY <2>1, <2>2, LenProperties
<1> HIDE DEF b
<1>7. DOMAIN FirstCells = 0 .. n
  BY DEF FirstCells
<1>8. \A x : x \in Occupied(b) <=> \E k \in 0 .. n : x = FirstCells[k]
  BY <1>4, <1>5, <1>6 DEF Occupied
<1>9. IsBody(b, FirstCells[n], B.state)
  <2>1. \A k \in 2 .. n + 1 : B.state[b[k]] \in Directions /\ b[k - 1] = Neighbor(b[k], B.state[b[k]])
    <3> SUFFICES ASSUME NEW k \in 2 .. n + 1
                 PROVE  B.state[b[k]] \in Directions /\ b[k - 1] = Neighbor(b[k], B.state[b[k]])
      OBVIOUS
    <3>1. k \in 1 .. n + 1 /\ k - 1 \in 1 .. n + 1 /\ k - 1 \in 0 .. n /\ (k - 1) - 1 \in 0 .. n
      BY <1>1
    <3>2. b[k] = <<FirstHead[1] + (k - 1), FirstHead[2]>>
      BY <3>1, <1>3, <1>4
    <3>3. b[k - 1] = <<FirstHead[1] + ((k - 1) - 1), FirstHead[2]>>
      BY <3>1, <1>3, <1>4
    <3>4. FirstHead[1] + ((k - 1) - 1) = FirstHead[1] + (k - 1) - 1
      BY Sizes
    <3>5. B.state[b[k]] = LEFT
      BY <3>1, <1>2, <1>4
    <3>6. Neighbor(b[k], LEFT) = <<FirstHead[1] + (k - 1) - 1, FirstHead[2]>>
      <4>1. PICK x \in Int : x = FirstHead[1] + (k - 1)
        BY Sizes
      <4>2. PICK y \in Int : y = FirstHead[2]
        BY Sizes
      <4>3. Neighbor(<<x, y>>, LEFT) = <<x - 1, y>>
        BY ONLY LeftOf
      <4>4. b[k] = <<x, y>>
        BY <4>1, <4>2, <3>2
      <4>5. Neighbor(b[k], LEFT) = <<x - 1, y>>
        BY ONLY <4>3, <4>4
      <4>6. FirstHead[1] + (k - 1) - 1 = x - 1
        BY <4>1, Sizes
      <4>7. QED
        BY <4>2, <4>5, <4>6
    <3>7. QED
      BY <3>3, <3>4, <3>5, <3>6 DEF Directions
  <2>2. \A j, k \in 1 .. n + 1 : b[j] = b[k] => j = k
    <3> SUFFICES ASSUME NEW j \in 1 .. n + 1, NEW k \in 1 .. n + 1, b[j] = b[k]
                 PROVE  j = k
      OBVIOUS
    <3>1. b[j] = <<FirstHead[1] + (j - 1), FirstHead[2]>> /\ b[k] = <<FirstHead[1] + (k - 1), FirstHead[2]>>
      BY <1>3, <1>4
    <3>2. FirstHead[1] + (j - 1) = FirstHead[1] + (k - 1)
      <4>1. b[j][1] = FirstHead[1] + (j - 1) /\ b[k][1] = FirstHead[1] + (k - 1)
        BY ONLY <3>1
      <4>2. b[j][1] = b[k][1]
        OBVIOUS
      <4>3. QED
        BY <4>1, <4>2
    <3>3. QED
      BY <3>2, Sizes
  <2>3. Len(b) > 1 /\ b[Len(b)] = FirstCells[n]
    BY <1>1, <1>4, <1>6
  <2>4. QED
    BY <2>1, <2>2, <2>3, <1>6 DEF IsBody
<1>10. Occupied(b) \cap Listed(B.free) = {} /\ Occupied(b) \cup Listed(B.free) = Cells
  <2>1. \A x : x \in Listed(B.free) <=> x \in Cells /\ ~ \E j \in 0 .. n : x = FirstCells[j]
    BY <1>2
  <2>2. QED
    BY <2>1, <1>3, <1>8
<1>11. QED
  BY <1>2, <1>6, <1>7, <1>8, <1>9, <1>10 DEF Fits, b

LEMMA InitInvariant == Init => SnakeInvariant
<1> SUFFICES ASSUME Init PROVE SnakeInvariant
  OBVIOUS
<1> DEFINE b == [k \in 1 .. TailOffset + 1 |-> FirstCells[k - 1]]
<1>1. /\ board = FirstBoard /\ head = FirstHead /\ tail = FirstCells[TailOffset]
      /\ direction = LEFT /\ score = 0 /\ running = TRUE
      /\ screen = [FirstScreen EXCEPT ![apple] = RED]
  BY DEF Init
<1>2. /\ Fits(FirstBoard, b, FirstCells[TailOffset]) /\ Len(b) = TailOffset + 1
      /\ \A x : x \in Occupied(b) <=> \E k \in DOMAIN FirstCells : x = FirstCells[k]
      /\ Occupied(b) \cup Listed(FirstBoard.free) = Cells
  BY FirstBodyFits
<1>3. b[1] = FirstHead
  <2>1. 1 \in 1 .. TailOffset + 1 /\ 1 - 1 = 0 /\ 0 \in 0 .. TailOffset
    BY Sizes
  <2>2. FirstCells[0] = <<FirstHead[1] + 0, FirstHead[2]>>
    BY <2>1 DEF FirstCells
  <2>3. FirstHead = <<FirstHead[1], FirstHead[2]>> /\ FirstHead[1] + 0 = FirstHead[1]
    BY Sizes DEF FirstHead
  <2>4. QED
    BY <2>1, <2>2, <2>3
<1> HIDE DEF b
<1>4. /\ board \in Boards /\ ListSound(board) /\ IsBody(b, tail, board.state)
      /\ Occupied(b) \cap Listed(board.free) = {}
  BY <1>1, <1>2 DEF Fits
<1>5. Length = Len(b)
  BY <1>1, <1>2, Sizes DEF Length
<1>6. Body = b
  BY <1>4, <1>5, FollowBody DEF Body
<1>7. Game!CellsOf(b) = Occupied(b) /\ tail \in Cells /\ b[1] \in Cells
  BY <1>4, BodyCells
<1>8. apple \in Listed(board.free) /\ apple \in Cells
  <2>1. apple \in Listed(board.free)
    BY DEF Init, Listed
  <2>2. QED
    BY <2>1, <1>4, BoardFields DEF Listed
<1>9. screen = [c \in Cells |-> IF c \in Occupied(b) THEN GREEN ELSE IF c = apple THEN RED ELSE BLACK]
  <2>1. apple \notin Occupied(b)
    BY <1>4, <1>8
  <2>2. FirstScreen = [c \in Cells |-> IF c \in Occupied(b) THEN GREEN ELSE BLACK]
    BY <1>2 DEF FirstScreen
  <2>3. screen = [[c \in Cells |-> IF c \in Occupied(b) THEN GREEN ELSE BLACK] EXCEPT ![apple] = RED]
    BY <1>1, <2>2
  <2>4. QED
    BY <2>1, <2>3, <1>8
<1>10. screen \in [Cells -> {BLACK, GREEN, RED}]
  BY <1>9
<1>11. TypeOK
  BY <1>1, <1>3, <1>4, <1>7, <1>8, <1>10 DEF TypeOK, Directions
<1>12. ScreenShowsGame
  BY <1>6, <1>7, <1>9 DEF ScreenShowsGame
<1>13. QED
  BY <1>1, <1>2, <1>3, <1>4, <1>5, <1>6, <1>7, <1>8, <1>11, <1>12 DEF SnakeInvariant
-----------------------------------------------------------------------------
(***************************************************************************)
(* Every step keeps the invariant, and is a step of the game.              *)
(***************************************************************************)
LEMMA InvariantFits ==
  ASSUME SnakeInvariant
  PROVE  /\ Fits(board, Body, tail) /\ IsBody(Body, tail, board.state)
         /\ Len(Body) = Length /\ Length \in Nat /\ Length > 1
         /\ Body[1] \in Cells /\ Game!CellsOf(Body) = Occupied(Body)
<1>1. board \in Boards /\ ListSound(board) /\ IsBody(Body, tail, board.state)
      /\ Len(Body) = Length /\ Game!CellsOf(Body) \cap Listed(board.free) = {}
  BY DEF SnakeInvariant, TypeOK
<1>2. Game!CellsOf(Body) = Occupied(Body) /\ Len(Body) \in Nat /\ Len(Body) > 1 /\ Body[1] \in Cells
  BY <1>1, BodyCells
<1>3. QED
  BY <1>1, <1>2 DEF Fits

\* The body that the program stores, from one that fits the next board.
LEMMA NextBody ==
  ASSUME NEW b, IsBody(b, tail', (board.state)'), Length' = Len(b)
  PROVE  Body' = b
<1>1. Follow(tail', (board.state)', Len(b)) = b
  BY FollowBody
<1>2. QED
  BY <1>1 DEF Body

\* The game stops: nothing but the head and the direction changes.
LEMMA StopStep ==
  ASSUME SnakeInvariant, running' = FALSE, head' \in Cells, direction' \in Directions,
         UNCHANGED <<board, tail, apple, score, screen>>
  PROVE  SnakeInvariant' /\ Body' = Body
<1>1. Body' = Body
  BY DEF Body, Length
<1>2. Length' = Length
  BY DEF Length
<1>3. Game!CellsOf(Body)' = Game!CellsOf(Body)
  BY <1>1 DEF Game!CellsOf
<1>4. TypeOK'
  BY DEF TypeOK, SnakeInvariant
<1>5. QED
  BY <1>1, <1>2, <1>3, <1>4 DEF SnakeInvariant
\* A move to a free cell makes the snake grow, at first.
LEMMA AdvanceStep ==
  ASSUME SnakeInvariant, NEW d \in Directions, CanAdvance(d)
  PROVE  \E i \in 1 .. Len(board.free) :
           /\ board.free[i] = head' /\ head' = Neighbor(Body[1], d) /\ direction' = d
           /\ Grown(board, Body, tail, i, Advanced(d))
<1> DEFINE next == Neighbor(head, d)
<1>1. /\ Fits(board, Body, tail) /\ IsBody(Body, tail, board.state)
      /\ Game!CellsOf(Body) = Occupied(Body)
      /\ \A k \in 1 .. Len(Body) : Body[k] \in Occupied(Body)
  BY InvariantFits, BodyCells
<1>2. /\ running /\ head' = next /\ next \in Cells /\ board.state[next] >= 4 /\ direction' = d
      /\ head = Body[1] /\ head \in Cells
      /\ Occupied(Body) \cup Listed(board.free) = Cells
  BY <1>1 DEF CanAdvance, Turn, SnakeInvariant, TypeOK
<1>3. next \notin Occupied(Body)
  <2>1. SUFFICES ASSUME NEW k \in 1 .. Len(Body), next = Body[k] PROVE FALSE
    BY DEF Occupied
  <2>2. k # 1
    BY <2>1, <1>2, OtherCell
  <2>3. k \in 2 .. Len(Body)
    BY <2>2
  <2>4. board.state[next] \in Directions
    BY <2>1, <2>3, <1>1 DEF IsBody
  <2>5. QED
    BY <2>4, <1>2 DEF Directions, LEFT, RIGHT, UP, DOWN
<1>4. next \in Listed(board.free)
  BY <1>2, <1>3
<1>5. board \in Boards /\ ListSound(board)
  BY <1>1 DEF Fits
<1>6. PICK i \in 1 .. Len(board.free) : board.free[i] = next
  BY <1>4, <1>5, BoardFields DEF Listed
<1>7. Grown(board, Body, tail, i, game_use_cell([board EXCEPT !.state[Body[1]] = d], board.free[i], LEFT))
  BY <1>1, <1>2, <1>6, Grow
<1>8. Advanced(d) = game_use_cell([board EXCEPT !.state[Body[1]] = d], board.free[i], LEFT)
  BY <1>2, <1>6 DEF Advanced
<1>9. QED
  BY <1>2, <1>6, <1>7, <1>8
\* The snake eats the apple, and a new one is put on a free cell.
LEMMA EatStep ==
  ASSUME SnakeInvariant, NEW d \in Directions, EatApple(d), Advanced(d).free # <<>>
  PROVE  /\ SnakeInvariant'
         /\ Body' = <<apple>> \o Body
         /\ apple' \in Cells \ Occupied(<<apple>> \o Body)
<1> DEFINE r == Advanced(d)
           nb == <<apple>> \o Body
<1>1. /\ Fits(board, Body, tail) /\ Len(Body) = Length /\ Length \in Nat /\ Length > 1
      /\ Game!CellsOf(Body) = Occupied(Body)
  BY InvariantFits
<1>2. /\ CanAdvance(d) /\ head' = apple /\ board' = r /\ tail' = tail
      /\ NewApple(r) /\ screen' = [screen EXCEPT ![head'] = GREEN, ![apple'] = RED]
      /\ score' = score + 1 /\ running' = running
  BY DEF EatApple
<1>3. PICK i \in 1 .. Len(board.free) :
        /\ board.free[i] = head' /\ head' = Neighbor(Body[1], d) /\ direction' = d
        /\ Grown(board, Body, tail, i, r)
  BY <1>2, AdvanceStep
<1> HIDE DEF r
<1>4. /\ Fits(r, nb, tail)
      /\ \A x : x \in Listed(r.free) <=> x \in Listed(board.free) /\ x # apple
      /\ \A x : x \in Occupied(nb) <=> x \in Occupied(Body) \/ x = apple
  BY <1>2, <1>3 DEF Grown
<1>5. /\ running /\ head = Body[1] /\ Occupied(Body) \cup Listed(board.free) = Cells
      /\ score \in Nat /\ Body \in Seq(Cells) /\ apple \in Cells /\ tail \in Cells
      /\ screen \in [Cells -> {BLACK, GREEN, RED}]
      /\ screen = [c \in Cells |-> IF c \in Occupied(Body) THEN GREEN
                                   ELSE IF c = apple THEN RED ELSE BLACK]
  BY <1>1, <1>2 DEF CanAdvance, Turn, SnakeInvariant, TypeOK, IsBody, ScreenShowsGame
<1>6. Len(nb) = Length + 1 /\ nb[1] = apple
  BY <1>1, <1>5, Longer
<1> HIDE DEF nb
<1>7. /\ r \in Boards /\ ListSound(r) /\ IsBody(nb, tail, r.state)
      /\ Occupied(nb) \cap Listed(r.free) = {}
  BY <1>4 DEF Fits
<1>8. Length' = Len(nb) /\ score' \in Nat
  BY <1>2, <1>5, <1>6, Sizes DEF Length
<1>9. Body' = nb
  BY <1>2, <1>7, <1>8, NextBody
<1>10. Game!CellsOf(nb) = Occupied(nb)
  BY <1>7, BodyCells
<1>11. Game!CellsOf(Body)' = Occupied(nb)
  BY <1>9, <1>10 DEF Game!CellsOf
<1>12. apple' \in Listed(r.free)
  BY <1>2 DEF NewApple, Listed
<1>13. apple' \in Cells \ Occupied(nb)
  <2>1. Listed(r.free) \subseteq Cells
    BY <1>7, BoardFields DEF Listed
  <2>2. QED
    BY <2>1, <1>7, <1>12
<1>14. Occupied(nb) \cup Listed(r.free) = Cells
  BY <1>4, <1>5
<1>15. /\ screen' = [c \in Cells |-> IF c \in Occupied(nb) THEN GREEN
                                     ELSE IF c = apple' THEN RED ELSE BLACK]
       /\ screen' \in [Cells -> {BLACK, GREEN, RED}]
  <2>1. screen' = [screen EXCEPT ![apple] = GREEN, ![apple'] = RED]
    BY <1>2
  <2>2. ASSUME NEW c \in Cells
        PROVE  screen'[c] = IF c \in Occupied(nb) THEN GREEN ELSE IF c = apple' THEN RED ELSE BLACK
    BY <2>1, <1>4, <1>5, <1>13
  <2>3. QED
    BY <2>1, <2>2, <1>5
<1>16. TypeOK'
  BY <1>2, <1>3, <1>5, <1>7, <1>8, <1>13, <1>15 DEF TypeOK
<1>17. ScreenShowsGame'
  BY <1>11, <1>15 DEF ScreenShowsGame
<1>18. SnakeInvariant'
  BY <1>2, <1>6, <1>7, <1>8, <1>9, <1>11, <1>12, <1>14, <1>16, <1>17 DEF SnakeInvariant
<1>19. QED
  BY <1>9, <1>13, <1>18 DEF nb

\* The snake eats the last apple.  The cell of the head looks free.
LEMMA FillStep ==
  ASSUME SnakeInvariant, NEW d \in Directions, EatApple(d), Advanced(d).free = <<>>
  PROVE  /\ SnakeInvariant'
         /\ Body' = Body /\ apple' = apple /\ ~ running'
         /\ Occupied(<<apple>> \o Body) = Cells
<1> DEFINE r == Advanced(d)
           nb == <<apple>> \o Body
<1>1. /\ Fits(board, Body, tail) /\ Len(Body) = Length
      /\ Game!CellsOf(Body) = Occupied(Body)
  BY InvariantFits
<1>2. /\ CanAdvance(d) /\ head' = apple /\ board' = r /\ tail' = tail
      /\ screen' = [screen EXCEPT ![head'] = GREEN]
      /\ apple' = apple /\ score' = score /\ running' = FALSE
  BY DEF EatApple
<1>3. PICK i \in 1 .. Len(board.free) :
        /\ board.free[i] = head' /\ head' = Neighbor(Body[1], d) /\ direction' = d
        /\ Grown(board, Body, tail, i, r)
  BY <1>2, AdvanceStep
<1>4. r.free = <<>>
  OBVIOUS
<1> HIDE DEF r
<1>5. /\ r \in Boards /\ ListSound(r) /\ IsBody(Body, tail, r.state)
      /\ \A x : x \in Listed(r.free) <=> x \in Listed(board.free) /\ x # apple
      /\ \A x : x \in Occupied(nb) <=> x \in Occupied(Body) \/ x = apple
      /\ Occupied(nb) \cap Listed(r.free) = {}
  BY <1>2, <1>3 DEF Grown, Fits
<1> HIDE DEF nb
<1>6. Occupied(Body) \cup Listed(board.free) = Cells /\ apple \in Cells /\ tail \in Cells
      /\ score \in Nat /\ screen \in [Cells -> {BLACK, GREEN, RED}]
  BY <1>1, <1>2 DEF CanAdvance, Turn, SnakeInvariant, TypeOK
<1>7. Listed(r.free) = {}
  BY <1>4 DEF Listed
<1>8. Occupied(nb) = Cells
  BY <1>5, <1>6, <1>7
<1>9. Length' = Len(Body)
  BY <1>1, <1>2 DEF Length
<1>10. Body' = Body
  BY <1>2, <1>5, <1>9, NextBody
<1>11. Game!CellsOf(Body)' = Game!CellsOf(Body)
  BY <1>10 DEF Game!CellsOf
<1>12. TypeOK'
  BY <1>2, <1>3, <1>5, <1>6 DEF TypeOK
<1>13. SnakeInvariant'
  BY <1>2, <1>5, <1>7, <1>9, <1>10, <1>11, <1>12 DEF SnakeInvariant
<1>14. QED
  BY <1>2, <1>8, <1>10, <1>13 DEF nb
\* The head and the tail of the snake move.
LEMMA MoveStep ==
  ASSUME SnakeInvariant, NEW d \in Directions, MoveTail(d)
  PROVE  /\ SnakeInvariant'
         /\ Body' = <<Neighbor(Body[1], d)>> \o SubSeq(Body, 1, Len(Body) - 1)
         /\ Neighbor(Body[1], d) \in Cells \ (Occupied(Body) \cup {apple})
<1> DEFINE r == Advanced(d)
           next == Neighbor(Body[1], d)
           longer == <<next>> \o Body
           nb == SubSeq(longer, 1, Len(longer) - 1)
           s == game_free_cell(r, tail)
<1>1. /\ Fits(board, Body, tail) /\ Len(Body) = Length /\ Length \in Nat /\ Length > 1
      /\ Game!CellsOf(Body) = Occupied(Body) /\ Body[1] \in Cells
  BY InvariantFits
<1>2. /\ CanAdvance(d) /\ head' # apple /\ board' = s
      /\ tail' = Neighbor(tail, r.state[tail])
      /\ screen' = [screen EXCEPT ![head'] = GREEN, ![tail] = BLACK]
      /\ apple' = apple /\ score' = score /\ running' = running
  BY DEF MoveTail
<1>3. PICK i \in 1 .. Len(board.free) :
        /\ board.free[i] = head' /\ head' = next /\ direction' = d
        /\ Grown(board, Body, tail, i, r)
  BY <1>2, AdvanceStep
<1> HIDE DEF r, next
<1>4. /\ Fits(r, longer, tail)
      /\ \A x : x \in Listed(r.free) <=> x \in Listed(board.free) /\ x # next
      /\ \A x : x \in Occupied(longer) <=> x \in Occupied(Body) \/ x = next
  BY <1>3 DEF Grown
<1>5. /\ running /\ head = Body[1] /\ Occupied(Body) \cup Listed(board.free) = Cells
      /\ apple \in Listed(board.free)
      /\ score \in Nat /\ Body \in Seq(Cells) /\ apple \in Cells /\ tail \in Cells
      /\ tail = Body[Len(Body)] /\ tail \in Occupied(Body)
      /\ screen \in [Cells -> {BLACK, GREEN, RED}]
      /\ screen = [c \in Cells |-> IF c \in Occupied(Body) THEN GREEN
                                   ELSE IF c = apple THEN RED ELSE BLACK]
  <2>1. tail \in Occupied(Body)
    BY InvariantFits, BodyCells
  <2>2. QED
    BY <2>1, <1>1, <1>2 DEF CanAdvance, Turn, SnakeInvariant, TypeOK, IsBody, ScreenShowsGame
<1>6. next \in Cells /\ next # apple /\ next \in Listed(board.free) /\ next \notin Occupied(Body)
  <2>1. next \in Cells /\ next # apple
    BY <1>2, <1>3 DEF CanAdvance
  <2>2. next \in Listed(board.free)
    BY <1>1, <1>3, BoardFields DEF Listed, Fits
  <2>3. QED
    BY <2>1, <2>2, <1>1 DEF Fits
<1>7. Len(longer) = Length + 1 /\ longer \in Seq(Cells) /\ longer[1] = next
  BY <1>1, <1>5, <1>6, Longer
<1>8. nb = <<next>> \o SubSeq(Body, 1, Len(Body) - 1)
  <2>1. Len(Body) \in Nat \ {0, 1} /\ Body \in Seq(Cells)
    BY <1>1, <1>5
  <2>2. QED
    BY <2>1, <1>6
<1>9. Len(nb) = Length /\ nb[1] = next
  <2>1. Len(longer) - 1 = Length /\ Length \in 0 .. Len(longer) /\ 1 \in 1 .. Length
    BY <1>1, <1>7
  <2>2. QED
    BY <2>1, <1>7, SubSeqProperties
<1> HIDE DEF longer
<1>10. Shrunk(r, longer, tail, s)
  BY <1>1, <1>4, <1>7, Shrink
<1> HIDE DEF s, nb
<1>11. /\ Fits(s, nb, tail')
       /\ \A x : x \in Listed(s.free) <=> x \in Listed(r.free) \/ x = tail
       /\ \A x : x \in Occupied(nb) <=> x \in Occupied(longer) /\ x # tail
  BY <1>2, <1>10 DEF Shrunk, nb
<1>12. /\ s \in Boards /\ ListSound(s) /\ IsBody(nb, tail', s.state)
       /\ Occupied(nb) \cap Listed(s.free) = {}
  BY <1>11 DEF Fits
<1>13. Length' = Length
  BY <1>2 DEF Length
<1>14. Body' = nb
  BY <1>2, <1>9, <1>12, <1>13, NextBody
<1>15. Game!CellsOf(nb) = Occupied(nb) /\ tail' \in Cells
  BY <1>12, BodyCells
<1>16. Game!CellsOf(Body)' = Occupied(nb)
  BY <1>14, <1>15 DEF Game!CellsOf
<1>17. \A x : x \in Occupied(nb) <=> (x \in Occupied(Body) \/ x = next) /\ x # tail
  BY <1>4, <1>11
<1>18. Occupied(nb) \cup Listed(s.free) = Cells
  BY <1>4, <1>5, <1>6, <1>11, <1>17
<1>19. apple \in Listed(s.free)
  BY <1>4, <1>5, <1>6, <1>11
<1>20. /\ screen' = [c \in Cells |-> IF c \in Occupied(nb) THEN GREEN
                                     ELSE IF c = apple' THEN RED ELSE BLACK]
       /\ screen' \in [Cells -> {BLACK, GREEN, RED}]
  <2>1. screen' = [screen EXCEPT ![next] = GREEN, ![tail] = BLACK]
    BY <1>2, <1>3
  <2>2. tail # next /\ tail # apple
    BY <1>1, <1>5, <1>6 DEF Fits
  <2>3. ASSUME NEW c \in Cells
        PROVE  screen'[c] = IF c \in Occupied(nb) THEN GREEN ELSE IF c = apple' THEN RED ELSE BLACK
    BY <2>1, <2>2, <1>2, <1>5, <1>6, <1>17
  <2>4. QED
    BY <2>1, <2>3, <1>5
<1>21. TypeOK'
  BY <1>2, <1>3, <1>5, <1>6, <1>12, <1>15, <1>20 DEF TypeOK
<1>22. ScreenShowsGame'
  BY <1>16, <1>20 DEF ScreenShowsGame
<1>23. SnakeInvariant'
  BY <1>2, <1>3, <1>9, <1>12, <1>13, <1>14, <1>16, <1>18, <1>19, <1>21, <1>22 DEF SnakeInvariant
<1>24. QED
  BY <1>6, <1>8, <1>14, <1>23 DEF next

-----------------------------------------------------------------------------
(***************************************************************************)
(* The theorems.                                                           *)
(***************************************************************************)
LEMMA HitWallStep ==
  ASSUME SnakeInvariant, NEW d \in Directions, HitWall(d)
  PROVE  SnakeInvariant' /\ Game!Die(d)
<1>1. /\ running /\ running' = FALSE /\ direction' = d /\ Neighbor(head, d) \notin Cells
      /\ UNCHANGED <<board, head, tail, apple, score, screen>>
      /\ head = Body[1] /\ head \in Cells
  BY DEF HitWall, Turn, SnakeInvariant, TypeOK
<1>2. SnakeInvariant' /\ Body' = Body
  BY <1>1, StopStep
<1>3. QED
  BY <1>1, <1>2, SameNeighbor DEF Game!Die, Game!Cells, Cells
LEMMA HitBodyStep ==
  ASSUME SnakeInvariant, NEW d \in Directions, HitBody(d)
  PROVE  SnakeInvariant' /\ Game!Die(d)
<1> DEFINE next == Neighbor(head, d)
<1>1. /\ running /\ running' = FALSE /\ direction' = d /\ head' = next
      /\ next \in Cells /\ board.state[next] < 4
      /\ UNCHANGED <<board, tail, apple, score, screen>>
      /\ head = Body[1] /\ Game!CellsOf(Body) \cup Listed(board.free) = Cells
      /\ board \in Boards /\ ListSound(board)
  BY DEF HitBody, Turn, SnakeInvariant, TypeOK
<1>2. SnakeInvariant' /\ Body' = Body
  BY <1>1, StopStep
<1>3. next \notin Listed(board.free)
  <2>1. SUFFICES ASSUME NEW i \in 1 .. Len(board.free), board.free[i] = next PROVE FALSE
    BY <1>1, BoardFields DEF Listed
  <2>2. board.state[next] = i + 3
    BY <1>1, <2>1, BoardFields DEF ListSound
  <2>3. QED
    BY <2>2, <1>1
<1>4. Neighbor(Body[1], d) \in Game!CellsOf(Body)
  BY <1>1, <1>3
<1>5. QED
  BY <1>1, <1>2, <1>4, SameNeighbor DEF Game!Die

LEMMA EscapeStep ==
  ASSUME SnakeInvariant, Escape
  PROVE  SnakeInvariant' /\ Game!Quit
<1>1. /\ running' = FALSE /\ UNCHANGED <<board, head, tail, apple, direction, score, screen>>
      /\ head \in Cells /\ direction \in Directions
  BY DEF Escape, SnakeInvariant, TypeOK
<1>2. SnakeInvariant' /\ Body' = Body
  BY <1>1, StopStep
<1>3. QED
  BY <1>1, <1>2 DEF Game!Quit

LEMMA GameEat ==
  ASSUME SnakeInvariant, NEW d \in Directions, EatApple(d)
  PROVE  SnakeInvariant' /\ Game!Eat(d)
<1>1. /\ Body \in Seq(Cells) /\ apple \in Cells
      /\ \A b \in Seq(Cells) : Game!CellsOf(b) = Occupied(b)
  <2>1. \A b \in Seq(Cells) : DOMAIN b = 1 .. Len(b)
    OBVIOUS
  <2>2. QED
    BY <2>1 DEF SnakeInvariant, TypeOK, IsBody, Game!CellsOf, Occupied
<1>2. Game!CellsOf(<<apple>> \o Body) = Occupied(<<apple>> \o Body)
  BY <1>1, Longer
<1>3. Neighbor(Body[1], d) = apple
  BY AdvanceStep DEF EatApple
<1>4. Game!Cells = Cells
  BY DEF Game!Cells, Cells
<1>5. CASE Advanced(d).free # <<>>
  <2>1. /\ SnakeInvariant' /\ Body' = <<apple>> \o Body
        /\ apple' \in Cells \ Occupied(<<apple>> \o Body)
    BY <1>5, EatStep
  <2>2. running' = running
    BY <1>5 DEF EatApple
  <2>3. QED
    BY <1>2, <1>3, <1>4, <2>1, <2>2, SameNeighbor DEF Game!Eat
<1>6. CASE Advanced(d).free = <<>>
  <2>1. /\ SnakeInvariant' /\ Body' = Body /\ apple' = apple /\ ~ running'
        /\ Occupied(<<apple>> \o Body) = Cells
    BY <1>6, FillStep
  <2>2. QED
    BY <1>2, <1>3, <1>4, <2>1, SameNeighbor DEF Game!Eat
<1>7. QED
  BY <1>5, <1>6

LEMMA GameMove ==
  ASSUME SnakeInvariant, NEW d \in Directions, MoveTail(d)
  PROVE  SnakeInvariant' /\ Game!Move(d)
<1>1. /\ SnakeInvariant'
      /\ Body' = <<Neighbor(Body[1], d)>> \o SubSeq(Body, 1, Len(Body) - 1)
      /\ Neighbor(Body[1], d) \in Cells \ (Occupied(Body) \cup {apple})
  BY MoveStep
<1>2. apple' = apple /\ running' = running
  BY DEF MoveTail
<1>3. Game!CellsOf(Body) = Occupied(Body) /\ Game!Cells = Cells
  BY InvariantFits DEF Game!Cells, Cells
<1>4. QED
  BY <1>1, <1>2, <1>3, SameNeighbor DEF Game!Move

LEMMA GameStep ==
  SnakeInvariant /\ Next => SnakeInvariant' /\ Game!Next
<1> SUFFICES ASSUME SnakeInvariant, Next PROVE SnakeInvariant' /\ Game!Next
  OBVIOUS
<1>1. running
  BY DEF Next, HitWall, HitBody, EatApple, MoveTail, CanAdvance, Turn, Escape
<1>2. Game!Directions = Directions
  BY DEF Game!Directions, Directions, Game!LEFT, Game!RIGHT, Game!UP, Game!DOWN, LEFT, RIGHT, UP, DOWN
<1>3. CASE Escape
  BY <1>1, <1>3, EscapeStep DEF Game!Next
<1>4. ASSUME NEW d \in Directions, HitWall(d) \/ HitBody(d) \/ EatApple(d) \/ MoveTail(d)
      PROVE  SnakeInvariant' /\ (Game!Die(d) \/ Game!Eat(d) \/ Game!Move(d))
  BY <1>4, HitWallStep, HitBodyStep, GameEat, GameMove
<1>5. QED
  BY <1>1, <1>2, <1>3, <1>4 DEF Next, Game!Next

LEMMA Stutter ==
  SnakeInvariant /\ UNCHANGED vars =>
    SnakeInvariant' /\ UNCHANGED <<Body, apple, ~ running>>
<1> SUFFICES ASSUME SnakeInvariant, UNCHANGED vars
             PROVE  SnakeInvariant' /\ UNCHANGED <<Body, apple, ~ running>>
  OBVIOUS
<1>1. /\ board' = board /\ head' = head /\ tail' = tail /\ apple' = apple /\ direction' = direction
      /\ score' = score /\ screen' = screen /\ running' = running
  BY DEF vars
<1>2. Body' = Body /\ Length' = Length
  BY <1>1 DEF Body, Length
<1>3. Game!CellsOf(Body)' = Game!CellsOf(Body)
  BY <1>2 DEF Game!CellsOf
<1>4. TypeOK'
  BY <1>1 DEF TypeOK, SnakeInvariant
<1>5. ScreenShowsGame'
  BY <1>1, <1>3 DEF ScreenShowsGame, SnakeInvariant
<1>6. QED
  BY <1>1, <1>2, <1>3, <1>4, <1>5 DEF SnakeInvariant

\* The free cells, the directions stored in the board, the apple and the
\* screen of src/snake/snake.toy stay consistent, on every board.
THEOREM SnakeInvariantHolds == Spec => []SnakeInvariant
<1>1. SnakeInvariant /\ [Next]_vars => SnakeInvariant'
  BY GameStep, Stutter
<1>2. QED
  BY <1>1, InitInvariant, PTL DEF Spec

\* The list of free cells and the indices stored in the cells agree, at every
\* step of game_update: a new apple is only drawn among the free cells.
THEOREM FreeListStaysExact == Spec => []FreeListExact
<1>1. SnakeInvariant => FreeListExact
  <2> SUFFICES ASSUME SnakeInvariant PROVE FreeListExact
    OBVIOUS
  <2>1. board \in Boards /\ ListSound(board) /\ IsBody(Body, tail, board.state)
    BY DEF SnakeInvariant, TypeOK
  <2>2. ASSUME running, NEW c \in Cells \ {head}, board.state[c] >= 4
        PROVE  board.state[c] - 3 \in DOMAIN board.free /\ board.free[board.state[c] - 3] = c
    <3>1. head = Body[1] /\ Occupied(Body) \cup Listed(board.free) = Cells
      BY <2>2, InvariantFits DEF SnakeInvariant
    <3>2. c \notin Occupied(Body)
      <4>1. SUFFICES ASSUME NEW k \in 1 .. Len(Body), c = Body[k] PROVE FALSE
        BY DEF Occupied
      <4>2. k \in 2 .. Len(Body)
        BY <4>1, <3>1
      <4>3. board.state[c] \in Directions
        BY <4>1, <4>2, <2>1 DEF IsBody
      <4>4. QED
        BY <4>3, <2>2 DEF Directions, LEFT, RIGHT, UP, DOWN
    <3>3. PICK i \in DOMAIN board.free : board.free[i] = c
      BY <3>1, <3>2 DEF Listed
    <3>4. board.state[c] = i + 3 /\ i \in Nat
      BY <3>3, <2>1, BoardFields DEF ListSound
    <3>5. board.state[c] - 3 = i
      BY <3>4
    <3>6. QED
      BY <3>3, <3>5
  <2>3. QED
    BY <2>1, <2>2 DEF FreeListExact, ListSound
<1>2. QED
  BY <1>1, SnakeInvariantHolds, PTL

\* The screen, of which each step only draws what moves, shows the snake, the
\* apple and nothing else.
THEOREM ScreenStaysExact == Spec => []ScreenShowsGame
<1>1. SnakeInvariant => ScreenShowsGame
  BY DEF SnakeInvariant, ScreenShowsGame
<1>2. QED
  BY <1>1, SnakeInvariantHolds, PTL

\* The program plays by the rules of the game: every step of game_update is a
\* step of SnakeGame, for the body that the board stores.
THEOREM PlaysByTheRules == Spec => GameSpec
<1>1. Init => Game!Init
  <2> SUFFICES ASSUME Init PROVE Game!Init
    OBVIOUS
  <2> DEFINE b == [k \in 1 .. TailOffset + 1 |-> FirstCells[k - 1]]
  <2>1. SnakeInvariant
    BY InitInvariant
  <2>2. /\ board = FirstBoard /\ tail = FirstCells[TailOffset] /\ score = 0 /\ running = TRUE
        /\ apple \in Listed(board.free)
    BY DEF Init, Listed
  <2>3. Fits(FirstBoard, b, FirstCells[TailOffset]) /\ Len(b) = TailOffset + 1
    BY FirstBodyFits
  <2> HIDE DEF b
  <2>4. IsBody(b, tail, board.state) /\ Len(b) = Length /\ Occupied(b) \cap Listed(board.free) = {}
    BY <2>2, <2>3, Sizes DEF Fits, Length
  <2>5. Body = b
    BY <2>4, FollowBody DEF Body
  <2>6. Game!CellsOf(b) = Occupied(b)
    BY <2>4, BodyCells
  <2>7. apple \in Game!Cells \ Game!CellsOf(b)
    BY <2>1, <2>2, <2>4, <2>6 DEF SnakeInvariant, TypeOK, Game!Cells, Cells
  <2>8. QED
    BY <2>2, <2>5, <2>7 DEF Game!Init, b
<1>2. SnakeInvariant /\ [Next]_vars => [Game!Next]_<<Body, apple, ~ running>>
  BY GameStep, Stutter
<1>3. QED
  BY <1>1, <1>2, SnakeInvariantHolds, PTL DEF Spec, GameSpec, Game!Spec
=============================================================================
