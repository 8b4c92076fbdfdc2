--------------------------- MODULE ProgramsProofs ---------------------------
(***************************************************************************)
(* Theorems about the programs copy, stat and list, for buffers of any     *)
(* size, any files and any names:                                          *)
(*   - a buffer added to what was copied or counted is the beginning of    *)
(*     the file, one buffer longer (PrefixGoesOn, LinesGoOn);              *)
(*   - the order of names is that of their characters, and their prefixes  *)
(*     and components are in the same order (OrderIsStrict, OrderOfPrefix, *)
(*     OrderOfRest, OrderOfComponent);                                     *)
(*   - each action keeps ProgramInvariant.                                 *)
(***************************************************************************)
EXTENDS Programs, Induction, SequenceTheorems, FiniteSetTheorems

\* The places, among the first n bytes of s, where a line begins.
LineStarts(s, n) == {i \in 1 .. n : (IF i = 1 THEN NewLine ELSE s[i - 1]) = NewLine}

FilesOK(F) == DOMAIN F \subseteq FileIds /\ F \in [DOMAIN F -> File]

CopyOn ==
  /\ pc \in {"copy", "end"}
  /\ src \in Live /\ dst \in Live /\ src # dst
  /\ \A f \in Live \ {dst} : f \in DOMAIN before /\ files[f] = before[f]
  /\ DOMAIN before \subseteq Live
  /\ pc = "end" /\ status = OK => files[dst].data = files[src].data
  /\ pc = "copy" => files[dst].data = Prefix(files[src].data, offset)

\* The first n bytes of s are counted.
Counted(s, n) == bytes = n /\ lines = Cardinality(LineStarts(s, n))

StatOn ==
  LET data == files[src].data
  IN /\ offset \in 0 .. Len(data)
     /\ Counted(data, offset)
     /\ last = IF offset = 0 THEN NewLine ELSE data[offset]

StatEnds ==
  pc = "end" /\ bytes # 0 => src \in Live /\ Counted(files[src].data, Len(files[src].data))

NameOf(f) == Prefix(Text[before[f].name], NameLimit)
ItemOf(f) == Component(SubSeq(NameOf(f), Len(path) + 1, Len(NameOf(f))))

\* The files that list has passed and that are under the path.
Passed ==
  {f \in DOMAIN before : /\ (src = NoFile \/ before[f].name < before[src].name)
                         /\ HasPath(NameOf(f), path)}

ListOn ==
  /\ src \in Live \cup {NoFile} /\ path \in Paths
  /\ items \in Seq(Seq(Nat))
  /\ {items[i] : i \in DOMAIN items} = {ItemOf(f) : f \in Passed}
  /\ \A i, j \in DOMAIN items : i < j => InOrder(items[i], items[j])

ProgramInvariant ==
  /\ pc \in {"start", "open", "copy", "stat", "list", "hang", "end"}
  /\ FilesOK(files) /\ FilesOK(before)
  /\ pc \in {"open", "copy", "stat"} => src \in Live
  /\ pc \notin {"copy", "end"} => dst = NoFile /\ files = before
  /\ pc = "copy" => dst # NoFile /\ offset \in 0 .. Len(files[src].data)
  /\ dst # NoFile => CopyOn
  /\ pc \in {"start", "open"} => offset = 0
  /\ pc \notin {"stat", "end"} => bytes = 0 /\ lines = 0 /\ last = NewLine
  /\ pc = "stat" => StatOn
  /\ StatEnds
  /\ pc = "start" => items = <<>>
  /\ pc = "list" => ListOn

-----------------------------------------------------------------------------
(***************************************************************************)
(* The order of names.                                                     *)
(***************************************************************************)
\* s is before t, and their first k characters are the same.
Differ(s, t, k) ==
  /\ k \in 0 .. Len(s) /\ k < Len(t)
  /\ \A i \in 1 .. k : s[i] = t[i]
  /\ k # Len(s) => s[k + 1] < t[k + 1]

AtMost(s, t) == s = t \/ InOrder(s, t)

LEMMA Beginning ==
  ASSUME NEW A, NEW s \in Seq(A), NEW n \in 0 .. Len(s)
  PROVE  /\ SubSeq(s, 1, n) \in Seq(A) /\ Len(SubSeq(s, 1, n)) = n
         /\ \A i \in 1 .. n : SubSeq(s, 1, n)[i] = s[i]
<1>1. Len(s) \in Nat /\ \A i \in 1 .. Len(s) : s[i] \in A
  BY LenProperties
<1>2. n \in Nat /\ \A i \in 1 .. n : s[i] \in A
  BY <1>1
<1>3. /\ SubSeq(s, 1, n) \in Seq(A)
      /\ Len(SubSeq(s, 1, n)) = IF 1 <= n THEN n - 1 + 1 ELSE 0
      /\ \A i \in 1 .. n - 1 + 1 : SubSeq(s, 1, n)[i] = s[1 + i - 1]
  BY <1>2, SubSeqProperties
<1>4. QED
  BY <1>2, <1>3

LEMMA SameSequence ==
  ASSUME NEW A, NEW s \in Seq(A), NEW t \in Seq(A), Len(s) = Len(t),
         \A i \in 1 .. Len(s) : s[i] = t[i]
  PROVE  s = t
<1>1. s \in [1 .. Len(s) -> A] /\ t \in [1 .. Len(s) -> A]
  BY LenProperties
<1>2. QED
  BY <1>1

LEMMA OrderDiffers ==
  ASSUME NEW s \in Seq(Nat), NEW t \in Seq(Nat)
  PROVE  InOrder(s, t) <=> \E k \in Nat : Differ(s, t, k)
<1>1. Len(s) \in Nat /\ Len(t) \in Nat
  BY LenProperties
<1>2. ASSUME NEW k \in 0 .. Len(s), k <= Len(t)
      PROVE  SubSeq(s, 1, k) = SubSeq(t, 1, k) <=> \A i \in 1 .. k : s[i] = t[i]
  <2>1. k \in 0 .. Len(t) /\ k \in Nat
    BY <1>1, <1>2
  <2>2. PICK a, b : a = SubSeq(s, 1, k) /\ b = SubSeq(t, 1, k)
    OBVIOUS
  <2>3. /\ a \in Seq(Nat) /\ Len(a) = k /\ \A i \in 1 .. k : a[i] = s[i]
        /\ b \in Seq(Nat) /\ Len(b) = k /\ \A i \in 1 .. k : b[i] = t[i]
    BY <2>1, <2>2, Beginning
  <2>4. (\A i \in 1 .. k : a[i] = b[i]) => a = b
    BY <2>3, SameSequence
  <2>5. QED
    BY <2>2, <2>3, <2>4
<1>3. ASSUME NEW k \in Nat, Differ(s, t, k)
      PROVE  InOrder(s, t)
  <2>1. k \in 0 .. Len(s) /\ k <= Len(t) /\ SubSeq(s, 1, k) = SubSeq(t, 1, k)
    BY <1>1, <1>2, <1>3 DEF Differ
  <2>2. IF k = Len(s) THEN k < Len(t) ELSE k < Len(t) /\ s[k + 1] < t[k + 1]
    BY <1>3 DEF Differ
  <2>3. QED
    BY <2>1, <2>2 DEF InOrder
<1>4. ASSUME InOrder(s, t)
      PROVE  \E k \in Nat : Differ(s, t, k)
  <2>1. PICK k \in 0 .. Len(s) :
          /\ k <= Len(t) /\ SubSeq(s, 1, k) = SubSeq(t, 1, k)
          /\ IF k = Len(s) THEN k < Len(t) ELSE k < Len(t) /\ s[k + 1] < t[k + 1]
    BY <1>4 DEF InOrder
  <2>2. k \in Nat /\ \A i \in 1 .. k : s[i] = t[i]
    BY <1>1, <1>2, <2>1
  <2>3. Differ(s, t, k)
    BY <2>1, <2>2 DEF Differ
  <2>4. QED
    BY <2>2, <2>3
<1>5. QED
  BY <1>3, <1>4

LEMMA OrderIsStrict ==
  ASSUME NEW s \in Seq(Nat), NEW t \in Seq(Nat), NEW u \in Seq(Nat)
  PROVE  ~ InOrder(s, s) /\ (InOrder(s, t) /\ InOrder(t, u) => InOrder(s, u))
<1>1. /\ Len(s) \in Nat /\ Len(t) \in Nat /\ Len(u) \in Nat
      /\ \A i \in 1 .. Len(s) : s[i] \in Nat
      /\ \A i \in 1 .. Len(t) : t[i] \in Nat
      /\ \A i \in 1 .. Len(u) : u[i] \in Nat
  BY LenProperties
<1>2. \A k \in Nat : ~ Differ(s, s, k)
  <2> SUFFICES ASSUME NEW k \in Nat, Differ(s, s, k) PROVE FALSE
    OBVIOUS
  <2>1. k < Len(s) /\ s[k + 1] < s[k + 1] /\ k + 1 \in 1 .. Len(s)
    BY <1>1 DEF Differ
  <2>2. s[k + 1] \in Nat
    BY <1>1, <2>1
  <2>3. QED
    BY <2>1, <2>2
<1>3. ASSUME NEW j \in Nat, NEW k \in Nat, Differ(s, t, j), Differ(t, u, k)
      PROVE  \E m \in Nat : Differ(s, u, m)
  <2>1. /\ j <= Len(s) /\ j < Len(t) /\ k <= Len(t) /\ k < Len(u)
        /\ \A i \in 1 .. j : s[i] = t[i]
        /\ \A i \in 1 .. k : t[i] = u[i]
        /\ j # Len(s) => s[j + 1] < t[j + 1]
        /\ k # Len(t) => t[k + 1] < u[k + 1]
    BY <1>1, <1>3 DEF Differ
  <2>2. CASE j < k
    <3>1. j + 1 \in 1 .. k /\ \A i \in 1 .. j : i \in 1 .. k
      BY <2>2
    <3>2. t[j + 1] = u[j + 1] /\ j < Len(u)
      BY <1>1, <2>1, <2>2, <3>1
    <3>3. Differ(s, u, j)
      BY <1>1, <2>1, <3>1, <3>2 DEF Differ
    <3>4. QED
      BY <3>3
  <2>3. CASE k < j
    <3>1. k + 1 \in 1 .. j /\ \A i \in 1 .. k : i \in 1 .. j
      BY <2>3
    <3>2. s[k + 1] = t[k + 1] /\ k < Len(s) /\ k # Len(t)
      BY <1>1, <2>1, <2>3, <3>1
    <3>3. Differ(s, u, k)
      BY <1>1, <2>1, <3>1, <3>2 DEF Differ
    <3>4. QED
      BY <3>3
  <2>4. CASE j = k
    <3>1. k # Len(t) /\ t[j + 1] < u[j + 1]
      BY <2>1, <2>4
    <3>2. j # Len(s) => s[j + 1] < u[j + 1]
      <4>1. j + 1 \in 1 .. Len(t) /\ j + 1 \in 1 .. Len(u)
        BY <1>1, <2>1, <2>4
      <4>2. j # Len(s) => j + 1 \in 1 .. Len(s)
        BY <1>1, <2>1
      <4>3. t[j + 1] \in Nat /\ u[j + 1] \in Nat /\ (j # Len(s) => s[j + 1] \in Nat)
        BY <1>1, <4>1, <4>2
      <4>4. j # Len(s) => s[j + 1] < t[j + 1]
        BY <2>1
      <4>5. QED
        BY <3>1, <4>3, <4>4
    <3>3. \A i \in 1 .. j : s[i] = u[i]
      BY <2>1, <2>4
    <3>4. Differ(s, u, j)
      BY <1>1, <2>1, <2>4, <3>2, <3>3 DEF Differ
    <3>5. QED
      BY <3>4
  <2>5. QED
    BY <2>2, <2>3, <2>4
<1>4. QED
  BY <1>2, <1>3, OrderDiffers

LEMMA PrefixIs ==
  ASSUME NEW A, NEW s \in Seq(A), NEW n \in Nat
  PROVE  /\ Prefix(s, n) \in Seq(A)
         /\ Len(Prefix(s, n)) = (IF n < Len(s) THEN n ELSE Len(s))
         /\ \A i \in 1 .. Len(Prefix(s, n)) : Prefix(s, n)[i] = s[i]
<1>1. Len(s) \in Nat
  BY LenProperties
<1>2. (IF n < Len(s) THEN n ELSE Len(s)) \in 0 .. Len(s)
  BY <1>1
<1>3. QED
  BY <1>2, Beginning DEF Prefix

\* The first characters of two names are in the order of the names.
LEMMA OrderOfPrefix ==
  ASSUME NEW s \in Seq(Nat), NEW t \in Seq(Nat), NEW n \in Nat, InOrder(s, t)
  PROVE  AtMost(Prefix(s, n), Prefix(t, n))
<1>1. Len(s) \in Nat /\ Len(t) \in Nat
  BY LenProperties
<1>2. PICK k \in Nat : Differ(s, t, k)
  BY OrderDiffers
<1>3. PICK a, b : a = Prefix(s, n) /\ b = Prefix(t, n)
  OBVIOUS
<1>4. /\ a \in Seq(Nat) /\ Len(a) = (IF n < Len(s) THEN n ELSE Len(s))
      /\ \A i \in 1 .. Len(a) : a[i] = s[i]
      /\ b \in Seq(Nat) /\ Len(b) = (IF n < Len(t) THEN n ELSE Len(t))
      /\ \A i \in 1 .. Len(b) : b[i] = t[i]
  BY <1>3, PrefixIs
<1>5. /\ k <= Len(s) /\ k < Len(t) /\ \A i \in 1 .. k : s[i] = t[i]
      /\ k # Len(s) => s[k + 1] < t[k + 1]
  BY <1>1, <1>2 DEF Differ
<1>6. CASE k < n
  <2>1. k <= Len(a) /\ k < Len(b) /\ (k # Len(a) => k # Len(s))
    BY <1>1, <1>4, <1>5, <1>6
  <2>2. \A i \in 1 .. k : i \in 1 .. Len(a) /\ i \in 1 .. Len(b)
    BY <1>1, <1>4, <2>1
  <2>3. k # Len(a) => k + 1 \in 1 .. Len(a) /\ k + 1 \in 1 .. Len(b)
    BY <1>1, <1>4, <2>1
  <2>4. Differ(a, b, k)
    BY <1>1, <1>4, <1>5, <2>1, <2>2, <2>3 DEF Differ
  <2>5. QED
    BY <1>3, <1>4, <2>4, OrderDiffers DEF AtMost
<1>7. CASE ~ k < n
  <2>1. Len(a) = n /\ Len(b) = n /\ \A i \in 1 .. n : i \in 1 .. k
    BY <1>1, <1>4, <1>5, <1>7
  <2>2. a = b
    BY <1>4, <1>5, <2>1, SameSequence
  <2>3. QED
    BY <1>3, <2>2 DEF AtMost
<1>8. QED
  BY <1>6, <1>7

\* So are the rests of names that begin with p.
LEMMA RestIs ==
  ASSUME NEW s \in Seq(Nat), NEW p \in Seq(Nat), HasPath(s, p)
  PROVE  /\ SubSeq(s, Len(p) + 1, Len(s)) \in Seq(Nat)
         /\ Len(SubSeq(s, Len(p) + 1, Len(s))) = Len(s) - Len(p)
         /\ \A i \in 1 .. Len(s) - Len(p) : SubSeq(s, Len(p) + 1, Len(s))[i] = s[Len(p) + i]
         /\ \A i \in 1 .. Len(p) : s[i] = p[i]
         /\ Len(p) < Len(s)
<1>1. Len(s) \in Nat /\ Len(p) \in Nat /\ \A i \in 1 .. Len(s) : s[i] \in Nat
  BY LenProperties
<1>2. Len(p) < Len(s) /\ Prefix(s, Len(p)) = p
  BY <1>1 DEF HasPath
<1>3. \A i \in 1 .. Len(p) : s[i] = p[i]
  BY <1>1, <1>2, PrefixIs
<1>4. PICK a, b : a = Len(p) /\ b = Len(s)
  OBVIOUS
<1>5. a + 1 \in Int /\ b \in Int /\ \A i \in a + 1 .. b : s[i] \in Nat
  BY <1>1, <1>4
<1>6. /\ SubSeq(s, a + 1, b) \in Seq(Nat)
      /\ Len(SubSeq(s, a + 1, b)) = IF a + 1 <= b THEN b - (a + 1) + 1 ELSE 0
      /\ \A i \in 1 .. b - (a + 1) + 1 : SubSeq(s, a + 1, b)[i] = s[a + 1 + i - 1]
  BY <1>5, SubSeqProperties
<1>7. PICK r : r = SubSeq(s, a + 1, b)
  OBVIOUS
<1>8. /\ r \in Seq(Nat) /\ Len(r) = b - a
      /\ \A i \in 1 .. b - a : r[i] = s[a + i]
  <2>1. b - (a + 1) + 1 = b - a /\ a + 1 <= b
    BY <1>1, <1>2, <1>4
  <2>2. \A i \in 1 .. b - a : a + 1 + i - 1 = a + i
    BY <1>1, <1>4
  <2>3. QED
    BY <1>6, <1>7, <2>1, <2>2
<1>9. QED
  BY <1>2, <1>3, <1>4, <1>7, <1>8

LEMMA OrderOfRest ==
  ASSUME NEW s \in Seq(Nat), NEW t \in Seq(Nat), NEW p \in Seq(Nat),
         HasPath(s, p), HasPath(t, p), InOrder(s, t)
  PROVE  InOrder(SubSeq(s, Len(p) + 1, Len(s)), SubSeq(t, Len(p) + 1, Len(t)))
<1>1. PICK a, b, l : /\ a = SubSeq(s, Len(p) + 1, Len(s)) /\ b = SubSeq(t, Len(p) + 1, Len(t))
                     /\ l = Len(p)
  OBVIOUS
<1>2. PICK m, n : m = Len(s) /\ n = Len(t)
  OBVIOUS
<1>3. m \in Nat /\ n \in Nat /\ l \in Nat
  <2>1. Len(s) \in Nat /\ Len(t) \in Nat /\ Len(p) \in Nat
    BY LenProperties
  <2>2. QED
    BY <1>1, <1>2, <2>1
<1>4. \A i \in 1 .. m : s[i] \in Nat
  <2>1. \A i \in 1 .. Len(s) : s[i] \in Nat
    BY LenProperties
  <2>2. QED
    BY <1>2, <2>1
<1>5. /\ a \in Seq(Nat) /\ Len(a) = m - l /\ \A i \in 1 .. m - l : a[i] = s[l + i]
      /\ b \in Seq(Nat) /\ Len(b) = n - l /\ \A i \in 1 .. n - l : b[i] = t[l + i]
      /\ \A i \in 1 .. l : s[i] = t[i]
      /\ l < m /\ l < n
  <2>1. /\ a \in Seq(Nat) /\ Len(a) = Len(s) - Len(p)
        /\ \A i \in 1 .. Len(s) - Len(p) : a[i] = s[Len(p) + i]
        /\ \A i \in 1 .. Len(p) : s[i] = p[i]
        /\ Len(p) < Len(s)
    BY <1>1, RestIs
  <2>2. /\ b \in Seq(Nat) /\ Len(b) = Len(t) - Len(p)
        /\ \A i \in 1 .. Len(t) - Len(p) : b[i] = t[Len(p) + i]
        /\ \A i \in 1 .. Len(p) : t[i] = p[i]
        /\ Len(p) < Len(t)
    BY <1>1, RestIs
  <2>3. QED
    BY <1>1, <1>2, <2>1, <2>2
<1>6. l < m /\ l < n
  BY <1>5
<1>7. PICK k \in Nat : Differ(s, t, k)
  BY OrderDiffers
<1>8. k <= m /\ k < n
  BY <1>2, <1>3, <1>7 DEF Differ
<1>9. (\A i \in 1 .. k : s[i] = t[i]) /\ (k # m => s[k + 1] < t[k + 1])
  BY <1>2, <1>7 DEF Differ
<1>10. l <= k
  <2> SUFFICES ASSUME k < l PROVE FALSE
    BY <1>3
  <2>1. k + 1 \in 1 .. l /\ k # m /\ k + 1 \in 1 .. m
    BY <1>3, <1>6
  <2>2. s[k + 1] = t[k + 1] /\ s[k + 1] < t[k + 1] /\ s[k + 1] \in Nat
    BY <1>4, <1>5, <1>9, <2>1
  <2>3. QED
    BY <2>2
<1>11. k - l \in Nat
  BY <1>3, <1>10
<1>12. PICK j \in Nat : j = k - l
  BY <1>11
<1>13. l + j = k /\ j <= m - l /\ j < n - l /\ (j # m - l => k # m)
  BY <1>3, <1>8, <1>12
<1>14. \A i \in 1 .. j : a[i] = b[i]
  <2> TAKE i \in 1 .. j
  <2>1. l + i \in 1 .. k /\ i \in 1 .. m - l /\ i \in 1 .. n - l
    BY <1>3, <1>13
  <2>2. QED
    BY <1>5, <1>9, <2>1
<1>15. j # m - l => a[j + 1] < b[j + 1]
  <2> SUFFICES ASSUME j # m - l PROVE a[j + 1] < b[j + 1]
    OBVIOUS
  <2>1. j + 1 \in 1 .. m - l /\ j + 1 \in 1 .. n - l /\ l + (j + 1) = k + 1 /\ k # m
    BY <1>3, <1>13
  <2>2. a[j + 1] = s[k + 1] /\ b[j + 1] = t[k + 1]
    BY <1>5, <2>1
  <2>3. QED
    BY <1>9, <2>1, <2>2
<1>16. j \in 0 .. m - l
  BY <1>3, <1>13
<1>17. Differ(a, b, j)
  BY <1>5, <1>13, <1>14, <1>15, <1>16 DEF Differ
<1>18. QED
  BY <1>1, <1>5, <1>17, OrderDiffers

\* A component ends at the first slash, or at the end of the name.
LEMMA ComponentIs ==
  ASSUME NEW s \in Seq(Nat)
  PROVE  \E e \in 0 .. Len(s) :
           /\ Component(s) \in Seq(Nat) /\ Len(Component(s)) = e
           /\ \A i \in 1 .. e : Component(s)[i] = s[i]
           /\ \A i \in 1 .. e - 1 : s[i] # Slash
           /\ \/ e = Len(s) /\ \A i \in 1 .. e : s[i] # Slash
              \/ e # 0 /\ s[e] = Slash
<1>1. Len(s) \in Nat /\ DOMAIN s = 1 .. Len(s)
  BY LenProperties
<1>2. PICK S : S = {i \in DOMAIN s : s[i] = Slash}
  OBVIOUS
<1>3. CASE S = {}
  <2>1. Component(s) = s
    BY <1>2, <1>3 DEF Component
  <2>2. \A i \in 1 .. Len(s) : s[i] # Slash
    BY <1>1, <1>2, <1>3
  <2>3. Len(s) \in 0 .. Len(s) /\ \A i \in 1 .. Len(s) - 1 : i \in 1 .. Len(s)
    BY <1>1
  <2>4. QED
    BY <2>1, <2>2, <2>3
<1>4. CASE S # {}
  <2>1. S \subseteq Nat
    BY <1>1, <1>2
  <2>2. \E i \in S : \A j \in S : i <= j
    BY <1>4, <2>1, LeastNatural
  <2>3. PICK e : e = CHOOSE i \in S : \A j \in S : i <= j
    OBVIOUS
  <2>4. e \in S /\ \A j \in S : e <= j
    BY <2>2, <2>3
  <2>5. Component(s) = SubSeq(s, 1, e)
    BY <1>2, <1>4, <2>3 DEF Component
  <2>6. e \in 1 .. Len(s) /\ s[e] = Slash
    BY <1>1, <1>2, <2>4
  <2>7. \A i \in 1 .. e - 1 : s[i] # Slash
    <3> SUFFICES ASSUME NEW i \in 1 .. e - 1, s[i] = Slash PROVE FALSE
      OBVIOUS
    <3>1. i \in S
      BY <1>1, <1>2, <2>6
    <3>2. QED
      BY <1>1, <2>4, <2>6, <3>1
  <2>8. e \in 0 .. Len(s) /\ e # 0
    BY <1>1, <2>6
  <2>9. /\ SubSeq(s, 1, e) \in Seq(Nat) /\ Len(SubSeq(s, 1, e)) = e
        /\ \A i \in 1 .. e : SubSeq(s, 1, e)[i] = s[i]
    BY <2>8, Beginning
  <2>10. QED
    BY <2>5, <2>6, <2>7, <2>8, <2>9
<1>5. QED
  BY <1>3, <1>4

\* The components that names begin with are in the order of the names.
LEMMA OrderOfComponent ==
  ASSUME NEW s \in Seq(Nat), NEW t \in Seq(Nat), InOrder(s, t)
  PROVE  AtMost(Component(s), Component(t))
<1>1. Len(s) \in Nat /\ Len(t) \in Nat
  BY LenProperties
<1>2. PICK k \in Nat : Differ(s, t, k)
  BY OrderDiffers
<1>3. /\ k <= Len(s) /\ k < Len(t) /\ \A i \in 1 .. k : s[i] = t[i]
      /\ k # Len(s) => s[k + 1] < t[k + 1]
  BY <1>1, <1>2 DEF Differ
<1>4. PICK a, b : a = Component(s) /\ b = Component(t)
  OBVIOUS
<1>5. PICK e \in 0 .. Len(s) :
        /\ a \in Seq(Nat) /\ Len(a) = e
        /\ \A i \in 1 .. e : a[i] = s[i]
        /\ \A i \in 1 .. e - 1 : s[i] # Slash
        /\ \/ e = Len(s) /\ \A i \in 1 .. e : s[i] # Slash
           \/ e # 0 /\ s[e] = Slash
  BY <1>4, ComponentIs
<1>6. PICK c \in 0 .. Len(t) :
        /\ b \in Seq(Nat) /\ Len(b) = c
        /\ \A i \in 1 .. c : b[i] = t[i]
        /\ \A i \in 1 .. c - 1 : t[i] # Slash
        /\ \/ c = Len(t) /\ \A i \in 1 .. c : t[i] # Slash
           \/ c # 0 /\ t[c] = Slash
  BY <1>4, ComponentIs
<1>7. CASE e <= k /\ e # 0 /\ s[e] = Slash
  <2>1. e \in 1 .. k
    BY <1>1, <1>7
  <2>2. t[e] = Slash /\ \A i \in 1 .. e - 1 : t[i] # Slash
    <3>1. \A i \in 1 .. e - 1 : i \in 1 .. k
      BY <2>1
    <3>2. QED
      BY <1>3, <1>5, <1>7, <2>1, <3>1
  <2>3. c = e
    <3>1. ~ c < e
      BY <1>1, <1>3, <1>6, <2>1, <2>2
    <3>2. ~ e < c
      BY <1>1, <1>6, <2>1, <2>2
    <3>3. QED
      BY <1>1, <3>1, <3>2
  <2>4. \A i \in 1 .. e : i \in 1 .. k
    BY <2>1
  <2>5. a = b
    <3>1. \A i \in 1 .. e : a[i] = b[i]
      BY <1>3, <1>5, <1>6, <2>3, <2>4
    <3>2. QED
      BY <1>5, <1>6, <2>3, <3>1, SameSequence
  <2>6. QED
    BY <1>4, <2>5 DEF AtMost
<1>8. CASE ~ (e <= k /\ e # 0 /\ s[e] = Slash)
  <2>1. k <= e /\ (k # e => k # Len(s)) /\ \A i \in 1 .. k : s[i] # Slash
    <3>1. CASE e <= k
      BY <1>1, <1>3, <1>5, <1>8, <3>1
    <3>2. CASE k < e
      <4>1. \A i \in 1 .. k : i \in 1 .. e - 1
        BY <1>1, <3>2
      <4>2. QED
        BY <1>1, <1>5, <3>2, <4>1
    <3>3. QED
      BY <1>1, <3>1, <3>2
  <2>2. k < c
    <3> SUFFICES ASSUME c <= k PROVE FALSE
      BY <1>1
    <3>1. c # 0 /\ t[c] = Slash
      BY <1>1, <1>3, <1>6
    <3>2. c \in 1 .. k
      BY <1>1, <3>1
    <3>3. QED
      BY <1>3, <2>1, <3>1, <3>2
  <2>3. \A i \in 1 .. k : i \in 1 .. e /\ i \in 1 .. c
    BY <1>1, <2>1, <2>2
  <2>4. \A i \in 1 .. k : a[i] = b[i]
    BY <1>3, <1>5, <1>6, <2>3
  <2>5. k # e => a[k + 1] < b[k + 1]
    <3> HAVE k # e
    <3>1. k + 1 \in 1 .. e /\ k + 1 \in 1 .. c
      BY <1>1, <2>1, <2>2
    <3>2. QED
      BY <1>3, <1>5, <1>6, <2>1, <3>1
  <2>6. Differ(a, b, k)
    BY <1>5, <1>6, <2>1, <2>2, <2>4, <2>5 DEF Differ
  <2>7. QED
    BY <1>4, <1>5, <1>6, <2>6, OrderDiffers DEF AtMost
<1>9. QED
  BY <1>7, <1>8

-----------------------------------------------------------------------------
(***************************************************************************)
(* Buffers.                                                                *)
(***************************************************************************)
\* The z bytes of d after the first o.
LEMMA BufferIs ==
  ASSUME NEW A, NEW d \in Seq(A), NEW o \in 0 .. Len(d), NEW z \in 0 .. Len(d) - o
  PROVE  /\ SubSeq(d, o + 1, o + z) \in Seq(A) /\ Len(SubSeq(d, o + 1, o + z)) = z
         /\ \A i \in 1 .. z : SubSeq(d, o + 1, o + z)[i] = d[o + i]
<1>1. Len(d) \in Nat /\ \A i \in 1 .. Len(d) : d[i] \in A
  BY LenProperties
<1>2. o + 1 \in Int /\ o + z \in Int /\ \A i \in o + 1 .. o + z : d[i] \in A
  BY <1>1
<1>3. PICK m, n : m = o + 1 /\ n = o + z
  OBVIOUS
<1>4. /\ SubSeq(d, m, n) \in Seq(A)
      /\ Len(SubSeq(d, m, n)) = IF m <= n THEN n - m + 1 ELSE 0
      /\ \A i \in 1 .. n - m + 1 : SubSeq(d, m, n)[i] = d[m + i - 1]
  BY <1>2, <1>3, SubSeqProperties
<1>5. /\ n - m + 1 = z /\ (IF m <= n THEN n - m + 1 ELSE 0) = z
      /\ \A i \in 1 .. z : m + i - 1 = o + i
  BY <1>1, <1>3
<1>6. QED
  BY <1>3, <1>4, <1>5

LEMMA PrefixEnds ==
  ASSUME NEW A, NEW d \in Seq(A)
  PROVE  Prefix(d, 0) = <<>> /\ Prefix(d, Len(d)) = d
<1>1. Len(d) \in Nat
  BY LenProperties
<1>2. SubSeq(d, 1, 0) = <<>>
  BY SubSeqEmpty
<1>3. SubSeq(d, 1, Len(d)) = d
  BY SubSeqFull
<1>4. (IF 0 < Len(d) THEN 0 ELSE Len(d)) = 0
  BY <1>1
<1>5. QED
  BY <1>2, <1>3, <1>4 DEF Prefix

LEMMA PrefixGoesOn ==
  ASSUME NEW A, NEW d \in Seq(A), NEW o \in 0 .. Len(d), NEW z \in 0 .. Len(d) - o
  PROVE  Prefix(d, o) \o SubSeq(d, o + 1, o + z) = Prefix(d, o + z)
<1>1. Len(d) \in Nat
  BY LenProperties
<1>2. PICK p, b, q : p = Prefix(d, o) /\ b = SubSeq(d, o + 1, o + z) /\ q = Prefix(d, o + z)
  OBVIOUS
<1>3. /\ b \in Seq(A) /\ Len(b) = z /\ \A i \in 1 .. z : b[i] = d[o + i]
  BY <1>2, BufferIs
<1>4. o \in Nat /\ o + z \in Nat
  BY <1>1
<1>5. /\ p \in Seq(A) /\ Len(p) = (IF o < Len(d) THEN o ELSE Len(d))
      /\ \A i \in 1 .. Len(p) : p[i] = d[i]
      /\ q \in Seq(A) /\ Len(q) = (IF o + z < Len(d) THEN o + z ELSE Len(d))
      /\ \A i \in 1 .. Len(q) : q[i] = d[i]
  BY <1>2, <1>4, PrefixIs
<1>6. Len(p) = o /\ Len(q) = o + z
  BY <1>1, <1>5
<1>7. /\ p \o b \in Seq(A) /\ Len(p \o b) = o + z
      /\ \A i \in 1 .. o + z : (p \o b)[i] = IF i <= o THEN p[i] ELSE b[i - o]
  BY <1>3, <1>5, <1>6, ConcatProperties
<1>8. \A i \in 1 .. o + z : (p \o b)[i] = q[i]
  <2> TAKE i \in 1 .. o + z
  <2>1. q[i] = d[i]
    BY <1>5, <1>6
  <2>2. CASE i <= o
    <3>1. i \in 1 .. o
      BY <1>4, <2>2
    <3>2. QED
      BY <1>5, <1>6, <1>7, <2>1, <2>2, <3>1
  <2>3. CASE ~ i <= o
    <3>1. i - o \in 1 .. z /\ o + (i - o) = i
      BY <1>1, <2>3
    <3>2. b[i - o] = d[i]
      BY <1>3, <3>1
    <3>3. QED
      BY <1>7, <2>1, <2>3, <3>2
  <2>4. QED
    BY <2>2, <2>3
<1>9. QED
  BY <1>2, <1>5, <1>6, <1>7, <1>8, SameSequence

(***************************************************************************)
(* Lines.                                                                  *)
(***************************************************************************)
LEMMA Moved ==
  ASSUME NEW z \in Nat, NEW S, S \subseteq 1 .. z, NEW o \in Nat
  PROVE  /\ IsFiniteSet(S) /\ IsFiniteSet({o + i : i \in S})
         /\ Cardinality({o + i : i \in S}) = Cardinality(S) /\ Cardinality(S) \in Nat
<1>1. IsFiniteSet(1 .. z)
  BY FS_Interval
<1>2. IsFiniteSet(S)
  BY <1>1, FS_Subset
<1>3. PICK T : T = {o + i : i \in S}
  OBVIOUS
<1>4. PICK f : f = [i \in S |-> o + i]
  OBVIOUS
<1>5. f \in [S -> T] /\ \A i \in S : f[i] = o + i /\ i \in Nat
  BY <1>3, <1>4
<1>6. \A i, j \in S : f[i] = f[j] => i = j
  BY <1>5
<1>7. \A t \in T : \E i \in S : f[i] = t
  BY <1>3, <1>5
<1>8. ExistsBijection(S, T)
  BY <1>5, <1>6, <1>7 DEF ExistsBijection, Bijection, Injection, Surjection, IsInjective
<1>9. QED
  BY <1>2, <1>3, <1>8, FS_Bijection, FS_CardinalityType

LEMMA AddUp ==
  ASSUME NEW S, NEW T, IsFiniteSet(S), IsFiniteSet(T), S \cap T = {}
  PROVE  Cardinality(S \cup T) = Cardinality(S) + Cardinality(T)
<1>1. Cardinality(S) \in Nat /\ Cardinality(T) \in Nat /\ Cardinality({}) = 0
  BY FS_CardinalityType, FS_EmptySet
<1>2. Cardinality(S \cup T) = Cardinality(S) + Cardinality(T) - Cardinality(S \cap T)
  BY FS_Union
<1>3. Cardinality(S \cap T) = 0
  BY <1>1
<1>4. QED
  BY <1>1, <1>2, <1>3

\* The lines that begin in the next buffer are counted once.
LEMMA LinesGoOn ==
  ASSUME NEW A, NEW d \in Seq(A), NEW o \in 0 .. Len(d), NEW z \in 0 .. Len(d) - o
  PROVE  /\ Cardinality(LineStarts(d, o + z)) =
              Cardinality(LineStarts(d, o))
              + line_count(IF o = 0 THEN NewLine ELSE d[o], SubSeq(d, o + 1, o + z))
         /\ z # 0 => SubSeq(d, o + 1, o + z)[z] = d[o + z]
<1>1. Len(d) \in Nat /\ o \in Nat /\ z \in Nat
  BY LenProperties
<1>2. PICK b : b = SubSeq(d, o + 1, o + z)
  OBVIOUS
<1>3. b \in Seq(A) /\ Len(b) = z /\ \A i \in 1 .. z : b[i] = d[o + i]
  BY <1>2, BufferIs
<1>4. DOMAIN b = 1 .. z
  BY <1>3, LenProperties
<1>5. PICK c : c = IF o = 0 THEN NewLine ELSE d[o]
  OBVIOUS
<1>6. PICK S, T, U : /\ S = {i \in DOMAIN b : (IF i = 1 THEN c ELSE b[i - 1]) = NewLine}
                     /\ T = {o + i : i \in S} /\ U = LineStarts(d, o)
  OBVIOUS
<1>7. S \subseteq 1 .. z /\ U \subseteq 1 .. o
  BY <1>4, <1>6 DEF LineStarts
<1>8. /\ IsFiniteSet(S) /\ IsFiniteSet(T) /\ Cardinality(T) = Cardinality(S)
      /\ IsFiniteSet(U)
  BY <1>1, <1>6, <1>7, Moved
<1>9. \A i \in 1 .. z :
        (IF i = 1 THEN c ELSE b[i - 1]) = IF o + i = 1 THEN NewLine ELSE d[o + i - 1]
  <2> TAKE i \in 1 .. z
  <2>1. CASE i = 1
    BY <1>1, <1>5, <2>1
  <2>2. CASE i # 1
    <3>1. i - 1 \in 1 .. z /\ o + (i - 1) = o + i - 1 /\ o + i # 1
      BY <1>1, <2>2
    <3>2. QED
      BY <1>3, <2>2, <3>1
  <2>3. QED
    BY <2>1, <2>2
<1>10. LineStarts(d, o + z) = U \cup T
  <2>1. ASSUME NEW j \in LineStarts(d, o + z) PROVE j \in U \cup T
    <3>1. j \in 1 .. o + z /\ (IF j = 1 THEN NewLine ELSE d[j - 1]) = NewLine
      BY DEF LineStarts
    <3>2. CASE j <= o
      BY <1>1, <1>6, <3>1, <3>2 DEF LineStarts
    <3>3. CASE ~ j <= o
      <4>1. j - o \in 1 .. z /\ o + (j - o) = j
        BY <1>1, <3>1, <3>3
      <4>2. j - o \in S
        BY <1>4, <1>6, <1>9, <3>1, <4>1
      <4>3. QED
        BY <1>6, <4>1, <4>2
    <3>4. QED
      BY <3>2, <3>3
  <2>2. ASSUME NEW j \in U PROVE j \in LineStarts(d, o + z)
    BY <1>1, <1>6 DEF LineStarts
  <2>3. ASSUME NEW j \in T PROVE j \in LineStarts(d, o + z)
    <3>1. PICK i \in S : j = o + i
      BY <1>6
    <3>2. i \in 1 .. z /\ (IF j = 1 THEN NewLine ELSE d[j - 1]) = NewLine
      BY <1>4, <1>6, <1>9, <3>1
    <3>3. j \in 1 .. o + z
      BY <1>1, <3>1, <3>2
    <3>4. QED
      BY <3>2, <3>3 DEF LineStarts
  <2>4. QED
    BY <2>1, <2>2, <2>3
<1>11. U \cap T = {}
  BY <1>1, <1>6, <1>7
<1>12. Cardinality(U \cup T) = Cardinality(U) + Cardinality(S)
  BY <1>8, <1>11, AddUp
<1>13. line_count(c, b) = Cardinality(S)
  BY <1>6 DEF line_count
<1>14. z # 0 => b[z] = d[o + z]
  BY <1>1, <1>3
<1>15. QED
  BY <1>2, <1>5, <1>6, <1>10, <1>12, <1>13, <1>14

\* A file has as many lines as line ends, and one more if it does not end with one.
LEMMA LinesOfFile ==
  ASSUME NEW A, NEW d \in Seq(A), Len(d) # 0
  PROVE  Cardinality(LineStarts(d, Len(d))) =
           Cardinality({i \in DOMAIN d : d[i] = NewLine})
           + (IF d[Len(d)] = NewLine THEN 0 ELSE 1)
<1>1. PICK n : n = Len(d)
  OBVIOUS
<1>2. n \in Nat \ {0} /\ DOMAIN d = 1 .. n /\ n - 1 \in Nat
  BY <1>1, LenProperties
<1>3. PICK S, T, U, V : /\ S = {i \in 1 .. n - 1 : d[i] = NewLine} /\ T = {1 + i : i \in S}
                        /\ U = LineStarts(d, n) /\ V = {i \in DOMAIN d : d[i] = NewLine}
  OBVIOUS
<1>4. /\ IsFiniteSet(S) /\ IsFiniteSet(T) /\ Cardinality(T) = Cardinality(S)
      /\ Cardinality(S) \in Nat
  <2>1. PICK m \in Nat : m = n - 1
    BY <1>2
  <2>2. S \subseteq 1 .. m /\ 1 \in Nat
    BY <1>3, <2>1
  <2>3. QED
    BY <1>3, <2>2, Moved
<1>5. U = T \cup {1} /\ 1 \notin T
  <2>1. ASSUME NEW j \in U PROVE j \in T \cup {1}
    <3>1. j \in 1 .. n /\ (j # 1 => d[j - 1] = NewLine)
      BY <1>3 DEF LineStarts
    <3>2. j # 1 => j - 1 \in 1 .. n - 1 /\ 1 + (j - 1) = j
      BY <1>2, <3>1
    <3>3. j # 1 => j - 1 \in S
      BY <1>3, <3>1, <3>2
    <3>4. QED
      BY <1>3, <3>2, <3>3
  <2>2. ASSUME NEW i \in S PROVE 1 + i \in U /\ 1 + i # 1
    <3>1. i \in 1 .. n - 1 /\ d[i] = NewLine
      BY <1>3
    <3>2. 1 + i \in 1 .. n /\ 1 + i # 1 /\ (1 + i) - 1 = i
      BY <1>2, <3>1
    <3>3. QED
      BY <1>3, <3>1, <3>2 DEF LineStarts
  <2>3. 1 \in U
    BY <1>2, <1>3 DEF LineStarts
  <2>4. QED
    BY <1>3, <2>1, <2>2, <2>3
<1>6. Cardinality(U) = Cardinality(S) + 1
  BY <1>4, <1>5, FS_AddElement
<1>7. n \notin S /\ V = IF d[n] = NewLine THEN S \cup {n} ELSE S
  BY <1>2, <1>3
<1>8. Cardinality(V) = Cardinality(S) + (IF d[n] = NewLine THEN 1 ELSE 0)
  <2>1. Cardinality(S \cup {n}) = Cardinality(S) + 1
    BY <1>4, <1>7, FS_AddElement
  <2>2. QED
    BY <1>4, <1>7, <2>1
<1>9. QED
  BY <1>1, <1>3, <1>4, <1>6, <1>8

-----------------------------------------------------------------------------
(***************************************************************************)
(* The files.                                                              *)
(***************************************************************************)
LEMMA Constants ==
  /\ FileIds \subseteq Nat \ {NoFile} /\ BufferSize \in Nat \ {0} /\ NameLimit \in Nat
  /\ \A n \in Names : n \in Nat /\ Text[n] \in Seq(Nat)
  /\ Paths \subseteq Seq(Nat) /\ Chunk \in Nat
  BY ProgramsAssumption DEF ProgramsAssumption, StoreAssumption

LEMMA FileHas ==
  ASSUME NEW F, FilesOK(F), NEW f \in DOMAIN F
  PROVE  /\ F[f].name \in Names /\ F[f].data \in Seq(Bytes) /\ Len(F[f].data) \in Nat
         /\ f \in FileIds /\ f # NoFile
  BY Constants, LenProperties DEF FilesOK, File

LEMMA CreateKeeps ==
  ASSUME FilesOK(files), NEW n \in Names, NEW f, Create(f, n)
  PROVE  /\ FilesOK(files') /\ f \in Live' /\ f \notin Live /\ Live' = Live \cup {f}
         /\ files'[f].data = <<>> /\ \A g \in Live : files'[g] = files[g]
<1>1. <<>> \in Seq(Bytes)
  OBVIOUS
<1>2. QED
  BY <1>1 DEF Create, FilesOK, File, Live

LEMMA DataKeeps ==
  ASSUME FilesOK(files), NEW f \in Live, NEW d \in Seq(Bytes), files' = [files EXCEPT ![f].data = d]
  PROVE  /\ FilesOK(files') /\ Live' = Live /\ files'[f].data = d
         /\ \A g \in Live \ {f} : files'[g] = files[g]
  BY DEF FilesOK, File, Live

LEMMA ShortKeeps ==
  ASSUME FilesOK(files), NEW f \in Live, NEW s \in Seq(Bytes), ExtendShort(f, s)
  PROVE  /\ FilesOK(files') /\ Live' = Live
         /\ \A g \in Live \ {f} : files'[g] = files[g]
<1>1. CASE UNCHANGED files
  BY <1>1 DEF Live
<1>2. ASSUME NEW n \in 0 .. Len(s) - 1, NEW junk \in [1 .. Chunk -> Bytes],
             files' = [files EXCEPT ![f].data = @ \o (SubSeq(s, 1, n) \o junk)]
      PROVE  /\ FilesOK(files') /\ Live' = Live
             /\ \A g \in Live \ {f} : files'[g] = files[g]
  <2>1. n \in 0 .. Len(s)
    BY LenProperties
  <2>2. SubSeq(s, 1, n) \in Seq(Bytes)
    BY <2>1, Beginning
  <2>3. junk \in Seq(Bytes)
    BY Constants, <1>2
  <2>4. files[f].data \in Seq(Bytes)
    BY FileHas DEF Live
  <2>5. files[f].data \o (SubSeq(s, 1, n) \o junk) \in Seq(Bytes)
    BY <2>2, <2>3, <2>4, ConcatProperties
  <2>6. QED
    BY <1>2, <2>5, DataKeeps
<1>3. QED
  BY <1>1, <1>2 DEF ExtendShort

-----------------------------------------------------------------------------
(***************************************************************************)
(* Each step keeps ProgramInvariant.                                       *)
(***************************************************************************)
LEMMA ProgramStarts ==
  ASSUME Start
  PROVE  ProgramInvariant
<1>1. FilesOK(files)
  <2>1. PICK S \in SUBSET FileIds : Image \in [S -> File]
    BY ProgramsAssumption DEF ProgramsAssumption, StoreAssumption
  <2>2. QED
    BY <2>1 DEF Start, Init, FilesOK
<1>2. QED
  BY <1>1 DEF Start, ProgramInvariant, StatEnds, NoFile

\* What a program that reads finds.
LEMMA OpenToReadIs ==
  ASSUME ProgramInvariant, NEW n \in Names, NEW label \in {"open", "stat"}, OpenToRead(n, label)
  PROVE  /\ pc = "start"
         /\ UNCHANGED <<files, offset, dst, bytes, lines, last, path, items, before>>
         /\ pc' = "end" \/ (pc' = label /\ src' \in Live)
<1>1. pc = "start" /\ UNCHANGED <<files, offset, dst, bytes, lines, last, path, items, before>>
  BY DEF OpenToRead, counters, listing
<1>2. PICK f \in Live \cup {NoFile} :
        \E s \in OpenStatus(f) :
          IF s = OK THEN Goto(label) /\ src' = f ELSE Exit(s) /\ UNCHANGED src
  BY DEF OpenToRead
<1>3. OK \in OpenStatus(f) => f \in Live
  BY <1>2 DEF OpenStatus, OK, INVALID_STATE, NOT_FOUND, OUT_OF_MEMORY
<1>4. QED
  BY <1>1, <1>2, <1>3 DEF Exit, Goto

LEMMA StartCopyKeeps ==
  ASSUME ProgramInvariant, NEW n \in Names, StartCopy(n)
  PROVE  ProgramInvariant'
<1>1. /\ pc = "start" /\ UNCHANGED <<files, offset, dst, bytes, lines, last, path, items, before>>
      /\ pc' = "end" \/ (pc' = "open" /\ src' \in Live)
  BY OpenToReadIs DEF StartCopy
<1>2. /\ FilesOK(files) /\ FilesOK(before) /\ dst = NoFile /\ files = before /\ offset = 0
      /\ bytes = 0 /\ lines = 0 /\ last = NewLine
  BY <1>1 DEF ProgramInvariant
<1>3. QED
  BY <1>1, <1>2 DEF ProgramInvariant, StatEnds, Live

LEMMA StartStatKeeps ==
  ASSUME ProgramInvariant, NEW n \in Names, StartStat(n)
  PROVE  ProgramInvariant'
<1>1. /\ pc = "start" /\ UNCHANGED <<files, offset, dst, bytes, lines, last, path, items, before>>
      /\ pc' = "end" \/ (pc' = "stat" /\ src' \in Live)
  BY OpenToReadIs DEF StartStat
<1>2. /\ FilesOK(files) /\ FilesOK(before) /\ dst = NoFile /\ files = before /\ offset = 0
      /\ bytes = 0 /\ lines = 0 /\ last = NewLine
  BY <1>1 DEF ProgramInvariant
<1>3. \A d : Cardinality(LineStarts(d, 0)) = 0
  <2>1. \A d : LineStarts(d, 0) = {}
    BY DEF LineStarts
  <2>2. QED
    BY <2>1, FS_EmptySet
<1>4. pc' = "stat" => StatOn'
  <2> HAVE pc' = "stat"
  <2>1. src' \in Live /\ Len(files[src'].data) \in Nat
    BY <1>1, <1>2, FileHas DEF Live
  <2>2. QED
    BY <1>1, <1>2, <1>3, <2>1 DEF StatOn, Counted
<1>5. QED
  BY <1>1, <1>2, <1>4 DEF ProgramInvariant, StatEnds, Live

LEMMA OpenToWriteKeeps ==
  ASSUME ProgramInvariant, NEW n \in Names, OpenToWrite(n)
  PROVE  ProgramInvariant'
<1>1. /\ pc = "open" /\ UNCHANGED <<src, offset, bytes, lines, last, path, items, before>>
  BY DEF OpenToWrite, reads, counters, listing
<1>2. /\ FilesOK(files) /\ FilesOK(before) /\ dst = NoFile /\ files = before /\ offset = 0
      /\ bytes = 0 /\ lines = 0 /\ last = NewLine /\ src \in Live
  BY <1>1 DEF ProgramInvariant
<1>3. /\ src \in FileIds /\ src # NoFile
      /\ files[src].data \in Seq(Bytes) /\ Len(files[src].data) \in Nat
  BY <1>2, FileHas DEF Live
<1>4. CASE pc' = "end" /\ UNCHANGED <<files, dst>>
  BY <1>1, <1>2, <1>4 DEF ProgramInvariant, StatEnds
<1>5. ASSUME pc' = "copy", FilesOK(files'), Live \subseteq Live', dst' \in Live', dst' # src,
             files'[dst'].data = <<>>, \A g \in Live' \ {dst'} : g \in Live /\ files'[g] = files[g]
      PROVE  ProgramInvariant'
  <2>1. dst' # NoFile
    BY <1>5, FileHas DEF Live
  <2>2. src \in Live' /\ files'[src] = files[src]
    BY <1>2, <1>5
  <2>3. Prefix(files[src].data, 0) = <<>>
    BY <1>3, PrefixEnds
  <2>4. CopyOn'
    BY <1>1, <1>2, <1>5, <2>2, <2>3 DEF CopyOn, Live
  <2>5. QED
    BY <1>1, <1>2, <1>3, <1>5, <2>1, <2>2, <2>4 DEF ProgramInvariant, StatEnds
<1>6. ASSUME NEW f \in FileIds, Create(f, n), dst' = f, pc' = "copy"
      PROVE  ProgramInvariant'
  <2>1. /\ FilesOK(files') /\ f \in Live' /\ f \notin Live /\ Live' = Live \cup {f}
        /\ files'[f].data = <<>> /\ \A g \in Live : files'[g] = files[g]
    BY <1>2, <1>6, CreateKeeps
  <2>2. QED
    BY <1>2, <1>5, <1>6, <2>1
<1>7. ASSUME NEW f \in Live, f # src, Clear(f), dst' = f, pc' = "copy"
      PROVE  ProgramInvariant'
  <2>1. <<>> \in Seq(Bytes) /\ files' = [files EXCEPT ![f].data = <<>>]
    BY <1>7 DEF Clear
  <2>2. /\ FilesOK(files') /\ Live' = Live /\ files'[f].data = <<>>
        /\ \A g \in Live \ {f} : files'[g] = files[g]
    BY <1>2, <1>7, <2>1, DataKeeps
  <2>3. QED
    BY <1>5, <1>7, <2>2
<1>8. QED
  BY <1>1, <1>4, <1>6, <1>7 DEF OpenToWrite, Exit, Goto

\* The buffer that is read.
LEMMA ReadIs ==
  ASSUME FilesOK(files), src \in Live, offset \in 0 .. Len(files[src].data)
  PROVE  /\ files[src].data \in Seq(Bytes) /\ Len(files[src].data) \in Nat
         /\ Size \in 0 .. Len(files[src].data) - offset
         /\ Chars \in Seq(Bytes) /\ Len(Chars) = Size
         /\ Chars = SubSeq(files[src].data, offset + 1, offset + Size)
         /\ Size < BufferSize => offset + Size = Len(files[src].data)
         /\ ~ Size < BufferSize => Size = BufferSize /\ (Advance => offset' = offset + Size)
<1>1. files[src].data \in Seq(Bytes) /\ Len(files[src].data) \in Nat
  BY FileHas DEF Live
<1>2. BufferSize \in Nat \ {0}
  BY Constants
<1>3. Size \in 0 .. Len(files[src].data) - offset
  BY <1>1, <1>2 DEF Size, Left
<1>4. Chars \in Seq(Bytes) /\ Len(Chars) = Size
  BY <1>1, <1>3, BufferIs DEF Chars
<1>5. /\ Size < BufferSize => offset + Size = Len(files[src].data)
      /\ ~ Size < BufferSize => BufferSize <= Left /\ Size = BufferSize
  BY <1>1, <1>2 DEF Size, Left
<1>6. QED
  BY <1>1, <1>3, <1>4, <1>5 DEF Chars, Advance

LEMMA CopyKeeps ==
  ASSUME ProgramInvariant, Copy
  PROVE  ProgramInvariant'
<1>1. pc = "copy" /\ UNCHANGED <<src, dst, bytes, lines, last, path, items, before>> /\ Advance
  BY DEF Copy, counters, listing
<1>2. /\ FilesOK(files) /\ FilesOK(before) /\ dst # NoFile /\ CopyOn
      /\ bytes = 0 /\ lines = 0 /\ last = NewLine
      /\ src \in Live /\ offset \in 0 .. Len(files[src].data)
  BY <1>1 DEF ProgramInvariant
<1>3. /\ dst \in Live /\ src # dst /\ DOMAIN before \subseteq Live
      /\ \A f \in Live \ {dst} : f \in DOMAIN before /\ files[f] = before[f]
      /\ files[dst].data = Prefix(files[src].data, offset)
  BY <1>1, <1>2 DEF CopyOn
<1>4. PICK d, o, z : d = files[src].data /\ o = offset /\ z = Size
  OBVIOUS
<1>5. /\ d \in Seq(Bytes) /\ Len(d) \in Nat /\ o \in 0 .. Len(d) /\ z \in 0 .. Len(d) - o
      /\ Chars \in Seq(Bytes) /\ Chars = SubSeq(d, o + 1, o + z)
      /\ z < BufferSize => o + z = Len(d)
      /\ ~ z < BufferSize => offset' = o + z
  BY <1>1, <1>2, <1>4, ReadIs
<1>6. CASE Extend(dst, Chars) /\ IF Size < BufferSize THEN Exit(OK) ELSE Goto("copy")
  <2>1. files[dst].data \o Chars = Prefix(d, o + z)
    BY <1>3, <1>4, <1>5, PrefixGoesOn
  <2>2. o + z \in Nat
    BY <1>5
  <2>3. Prefix(d, o + z) \in Seq(Bytes)
    BY <1>5, <2>2, PrefixIs
  <2>4. files' = [files EXCEPT ![dst].data = Prefix(d, o + z)]
    BY <1>6, <2>1 DEF Extend
  <2>5. /\ FilesOK(files') /\ Live' = Live /\ files'[dst].data = Prefix(d, o + z)
        /\ \A g \in Live \ {dst} : files'[g] = files[g]
    BY <1>2, <1>3, <2>3, <2>4, DataKeeps
  <2>6. files'[src].data = d
    BY <1>2, <1>3, <1>4, <2>5
  <2>7. CASE Size < BufferSize /\ Exit(OK)
    <3>1. files'[dst].data = d
      BY <1>4, <1>5, <2>5, <2>7, PrefixEnds
    <3>2. CopyOn'
      BY <1>1, <1>2, <1>3, <2>5, <2>6, <2>7, <3>1 DEF CopyOn, Exit
    <3>3. QED
      BY <1>1, <1>2, <2>5, <2>7, <3>2 DEF ProgramInvariant, StatEnds, Exit
  <2>8. CASE ~ Size < BufferSize /\ Goto("copy")
    <3>1. offset' = o + z
      BY <1>4, <1>5, <2>8
    <3>2. CopyOn'
      BY <1>1, <1>2, <1>3, <2>5, <2>6, <2>8, <3>1 DEF CopyOn, Goto
    <3>3. offset' \in 0 .. Len(d)
      BY <1>5, <3>1
    <3>4. QED
      BY <1>1, <1>2, <2>5, <2>6, <2>8, <3>2, <3>3 DEF ProgramInvariant, StatEnds, Goto
  <2>9. QED
    BY <1>6, <2>7, <2>8
<1>7. CASE ExtendShort(dst, Chars) /\ Exit(OUT_OF_MEMORY)
  <2>1. /\ FilesOK(files') /\ Live' = Live
        /\ \A g \in Live \ {dst} : files'[g] = files[g]
    BY <1>2, <1>3, <1>5, <1>7, ShortKeeps
  <2>2. CopyOn'
    BY <1>1, <1>2, <1>3, <1>7, <2>1 DEF CopyOn, Exit, OUT_OF_MEMORY, OK
  <2>3. QED
    BY <1>1, <1>2, <1>7, <2>1, <2>2 DEF ProgramInvariant, StatEnds, Exit
<1>8. QED
  BY <1>6, <1>7 DEF Copy

LEMMA StatKeeps ==
  ASSUME ProgramInvariant, Stat
  PROVE  ProgramInvariant'
<1>1. /\ pc = "stat" /\ UNCHANGED <<files, src, dst, path, items, before>> /\ Advance
      /\ bytes' = bytes + Size /\ lines' = lines + line_count(last, Chars)
      /\ last' = IF Size = 0 THEN last ELSE Chars[Size]
      /\ \/ Size < BufferSize /\ pc' = "end"
         \/ ~ Size < BufferSize /\ pc' = "stat"
  BY DEF Stat, listing, Exit, Goto
<1>2. /\ FilesOK(files) /\ FilesOK(before) /\ dst = NoFile /\ files = before
      /\ src \in Live /\ StatOn
  BY <1>1 DEF ProgramInvariant
<1>3. PICK d, o, z : d = files[src].data /\ o = offset /\ z = Size
  OBVIOUS
<1>4. /\ o \in 0 .. Len(d) /\ bytes = o /\ lines = Cardinality(LineStarts(d, o))
      /\ last = IF o = 0 THEN NewLine ELSE d[o]
  BY <1>2, <1>3 DEF StatOn, Counted
<1>5. /\ d \in Seq(Bytes) /\ Len(d) \in Nat /\ z \in 0 .. Len(d) - o
      /\ Chars = SubSeq(d, o + 1, o + z)
      /\ z < BufferSize => o + z = Len(d)
      /\ ~ z < BufferSize => z = BufferSize /\ offset' = o + z
  BY <1>1, <1>2, <1>3, <1>4, ReadIs
<1>6. /\ bytes' = o + z /\ lines' = Cardinality(LineStarts(d, o + z))
      /\ z # 0 => Chars[z] = d[o + z]
  BY <1>1, <1>3, <1>4, <1>5, LinesGoOn
<1>7. CASE Size < BufferSize /\ pc' = "end"
  <2>1. Counted(files[src].data, Len(files[src].data))'
    BY <1>1, <1>3, <1>5, <1>6, <1>7 DEF Counted
  <2>2. QED
    BY <1>1, <1>2, <1>7, <2>1 DEF ProgramInvariant, StatEnds, Live
<1>8. CASE ~ Size < BufferSize /\ pc' = "stat"
  <2>1. offset' = o + z /\ z # 0 /\ o + z # 0
    BY <1>3, <1>4, <1>5, <1>8, Constants
  <2>2. last' = d[o + z]
    BY <1>1, <1>3, <1>6, <2>1
  <2>3. offset' \in 0 .. Len(d)
    BY <1>4, <1>5, <2>1
  <2>4. StatOn'
    BY <1>1, <1>3, <1>6, <2>1, <2>2, <2>3 DEF StatOn, Counted
  <2>5. QED
    BY <1>1, <1>2, <1>8, <2>4 DEF ProgramInvariant, StatEnds, Live
<1>9. QED
  BY <1>1, <1>7, <1>8

LEMMA StartListKeeps ==
  ASSUME ProgramInvariant, StartList
  PROVE  ProgramInvariant'
<1>1. /\ pc = "start" /\ UNCHANGED <<files, offset, dst, bytes, lines, last, items, before>>
      /\ path' \in Paths
      /\ \/ pc' = "hang"
         \/ pc' = "list" /\ \E f \in Live \cup {NoFile} : IsFirst(Live, f) /\ src' = f
  BY DEF StartList, counters, Goto
<1>2. /\ FilesOK(files) /\ FilesOK(before) /\ dst = NoFile /\ files = before
      /\ bytes = 0 /\ lines = 0 /\ last = NewLine /\ items = <<>>
  BY <1>1 DEF ProgramInvariant
<1>3. pc' = "list" => ListOn'
  <2> HAVE pc' = "list"
  <2>1. PICK f \in Live \cup {NoFile} : IsFirst(Live, f) /\ src' = f
    BY <1>1
  <2>2. Passed' = {}
    <3> SUFFICES ASSUME NEW g \in DOMAIN before, f = NoFile \/ before[g].name < before[f].name
                 PROVE  FALSE
      BY <1>1, <2>1 DEF Passed
    <3>1. g \in Live
      BY <1>2 DEF Live
    <3>2. f \in Live /\ files[f].name <= files[g].name
      BY <2>1, <3>1 DEF IsFirst
    <3>3. f # NoFile /\ files[f].name \in Nat /\ files[g].name \in Nat
      BY <1>2, <3>1, <3>2, FileHas, Constants DEF Live
    <3>4. QED
      BY <1>2, <3>2, <3>3
  <2>3. items' = <<>> /\ DOMAIN items' = {} /\ items' \in Seq(Seq(Nat))
    BY <1>1, <1>2
  <2>4. {items'[i] : i \in DOMAIN items'} = {ItemOf(g)' : g \in Passed'}
    BY <2>2, <2>3
  <2>5. QED
    BY <1>1, <2>1, <2>3, <2>4 DEF ListOn, Live
<1>4. QED
  BY <1>1, <1>2, <1>3 DEF ProgramInvariant, StatEnds

\* What list does with a name, and where names are in the order of their files.
LEMMA ItemIs ==
  ASSUME FilesOK(before), path \in Paths, NEW f \in DOMAIN before, HasPath(NameOf(f), path)
  PROVE  ItemOf(f) \in Seq(Nat)
<1>1. Text[before[f].name] \in Seq(Nat) /\ NameLimit \in Nat /\ path \in Seq(Nat)
  BY FileHas, Constants
<1>2. NameOf(f) \in Seq(Nat)
  BY <1>1, PrefixIs DEF NameOf
<1>3. SubSeq(NameOf(f), Len(path) + 1, Len(NameOf(f))) \in Seq(Nat)
  BY <1>1, <1>2, RestIs
<1>4. QED
  BY <1>3, ComponentIs DEF ItemOf

LEMMA ItemsInOrder ==
  ASSUME FilesOK(before), path \in Paths, NEW f \in DOMAIN before, NEW g \in DOMAIN before,
         HasPath(NameOf(f), path), HasPath(NameOf(g), path), before[f].name <= before[g].name
  PROVE  AtMost(ItemOf(f), ItemOf(g))
<1>1. PICK s, t : s = Text[before[f].name] /\ t = Text[before[g].name]
  OBVIOUS
<1>2. /\ before[f].name \in Names /\ before[g].name \in Names
      /\ before[f].name \in Nat /\ before[g].name \in Nat
      /\ s \in Seq(Nat) /\ t \in Seq(Nat) /\ NameLimit \in Nat /\ path \in Seq(Nat)
  BY <1>1, FileHas, Constants
<1>3. PICK a, b : a = NameOf(f) /\ b = NameOf(g)
  OBVIOUS
<1>4. a = Prefix(s, NameLimit) /\ b = Prefix(t, NameLimit)
  BY <1>1, <1>3 DEF NameOf
<1>5. AtMost(a, b)
  <2>1. CASE before[f].name = before[g].name
    BY <1>1, <1>4, <2>1 DEF AtMost
  <2>2. CASE before[f].name # before[g].name
    <3>1. before[f].name < before[g].name
      BY <1>2, <2>2
    <3>2. InOrder(s, t)
      BY <1>1, <1>2, <3>1, NameOrder
    <3>3. QED
      BY <1>2, <1>4, <3>2, OrderOfPrefix
  <2>3. QED
    BY <2>1, <2>2
<1>6. a \in Seq(Nat) /\ b \in Seq(Nat) /\ HasPath(a, path) /\ HasPath(b, path)
  BY <1>2, <1>3, <1>4, PrefixIs
<1>7. CASE a = b
  BY <1>3, <1>7 DEF ItemOf, AtMost
<1>8. CASE InOrder(a, b)
  <2>1. PICK u, v : /\ u = SubSeq(a, Len(path) + 1, Len(a))
                    /\ v = SubSeq(b, Len(path) + 1, Len(b))
    OBVIOUS
  <2>2. u \in Seq(Nat) /\ v \in Seq(Nat)
    BY <1>2, <1>6, <2>1, RestIs
  <2>3. InOrder(u, v)
    BY <1>2, <1>6, <1>8, <2>1, OrderOfRest
  <2>4. AtMost(Component(u), Component(v))
    BY <2>2, <2>3, OrderOfComponent
  <2>5. QED
    BY <1>3, <2>1, <2>4 DEF ItemOf
<1>9. QED
  BY <1>5, <1>7, <1>8 DEF AtMost

\* An item that is not the last one comes after all the items.
LEMMA ItemAdded ==
  ASSUME NEW q \in Seq(Seq(Nat)), NEW x \in Seq(Nat),
         \A i, j \in DOMAIN q : i < j => InOrder(q[i], q[j]),
         \A i \in DOMAIN q : AtMost(q[i], x),
         q = <<>> \/ q[Len(q)] # x
  PROVE  /\ Append(q, x) \in Seq(Seq(Nat))
         /\ {Append(q, x)[i] : i \in DOMAIN Append(q, x)} = {q[i] : i \in DOMAIN q} \cup {x}
         /\ \A i, j \in DOMAIN Append(q, x) : i < j => InOrder(Append(q, x)[i], Append(q, x)[j])
<1>1. PICK l, r : l = Len(q) /\ r = Append(q, x)
  OBVIOUS
<1>2. l \in Nat /\ DOMAIN q = 1 .. l /\ \A i \in 1 .. l : q[i] \in Seq(Nat)
  BY <1>1, LenProperties
<1>3. /\ r \in Seq(Seq(Nat)) /\ DOMAIN r = 1 .. l + 1
      /\ \A i \in 1 .. l : r[i] = q[i]
      /\ r[l + 1] = x
  <2>1. /\ r \in Seq(Seq(Nat)) /\ Len(r) = l + 1
        /\ \A i \in 1 .. l : r[i] = q[i]
        /\ r[l + 1] = x
    BY <1>1, AppendProperties
  <2>2. QED
    BY <2>1, LenProperties
<1>4. \A i \in 1 .. l : InOrder(q[i], x)
  <2> SUFFICES ASSUME NEW i \in 1 .. l PROVE InOrder(q[i], x)
    OBVIOUS
  <2>1. l \in 1 .. l /\ q[l] # x /\ AtMost(q[l], x) /\ q[l] \in Seq(Nat) /\ q[i] \in Seq(Nat)
    <3>1. q # <<>> /\ l \in 1 .. l
      BY <1>1, <1>2
    <3>2. QED
      BY <1>1, <1>2, <3>1
  <2>2. InOrder(q[l], x)
    BY <2>1 DEF AtMost
  <2>3. i < l => InOrder(q[i], q[l])
    BY <1>2, <2>1
  <2>4. i < l \/ i = l
    BY <1>2
  <2>5. QED
    BY <2>1, <2>2, <2>3, <2>4, OrderIsStrict
<1>5. \A i, j \in 1 .. l + 1 : i < j => InOrder(r[i], r[j])
  <2> SUFFICES ASSUME NEW i \in 1 .. l + 1, NEW j \in 1 .. l + 1, i < j
               PROVE  InOrder(r[i], r[j])
    OBVIOUS
  <2>1. i \in 1 .. l /\ (j \in 1 .. l \/ j = l + 1)
    BY <1>2
  <2>2. CASE j \in 1 .. l
    BY <1>2, <1>3, <2>1, <2>2
  <2>3. CASE j = l + 1
    BY <1>3, <1>4, <2>1, <2>3
  <2>4. QED
    BY <2>1, <2>2, <2>3
<1>6. {r[i] : i \in 1 .. l + 1} = {q[i] : i \in 1 .. l} \cup {x}
  <2>1. ASSUME NEW i \in 1 .. l + 1 PROVE r[i] \in {q[k] : k \in 1 .. l} \cup {x}
    <3>1. i \in 1 .. l \/ i = l + 1
      BY <1>2
    <3>2. QED
      BY <1>3, <3>1
  <2>2. ASSUME NEW i \in 1 .. l PROVE q[i] \in {r[k] : k \in 1 .. l + 1}
    <3>1. i \in 1 .. l + 1 /\ r[i] = q[i]
      BY <1>2, <1>3
    <3>2. QED
      BY <3>1
  <2>3. l + 1 \in 1 .. l + 1
    BY <1>2
  <2>4. x \in {r[k] : k \in 1 .. l + 1}
    BY <1>3, <2>3
  <2>5. QED
    BY <2>1, <2>2, <2>4
<1>7. QED
  BY <1>1, <1>2, <1>3, <1>5, <1>6

LEMMA ListKeeps ==
  ASSUME ProgramInvariant, List
  PROVE  ProgramInvariant'
<1>1. PICK f, x : f = src /\ x = ItemOf(src)
  OBVIOUS
<1>2. /\ pc = "list" /\ f # NoFile
      /\ UNCHANGED <<files, pc, status, offset, dst, bytes, lines, last, path, before>>
      /\ \E g \in Live \cup {NoFile} : IsFirst(After(f), g) /\ src' = g
  BY <1>1 DEF List, counters
<1>3. /\ FilesOK(files) /\ FilesOK(before) /\ dst = NoFile /\ files = before /\ ListOn
      /\ bytes = 0 /\ lines = 0 /\ last = NewLine
  BY <1>2 DEF ProgramInvariant
<1>4. /\ f \in DOMAIN before /\ path \in Paths /\ items \in Seq(Seq(Nat))
      /\ {items[i] : i \in DOMAIN items} = {ItemOf(g) : g \in Passed}
      /\ \A i, j \in DOMAIN items : i < j => InOrder(items[i], items[j])
  BY <1>1, <1>2, <1>3 DEF ListOn, Live
<1>5. items' = IF HasPath(NameOf(f), path) /\ (items = <<>> \/ items[Len(items)] # x)
                 THEN Append(items, x) ELSE items
  BY <1>1, <1>3 DEF List, NameOf, ItemOf
<1>6. PICK h \in Live \cup {NoFile} : IsFirst(After(f), h) /\ src' = h
  BY <1>2
<1>7. \A g \in DOMAIN before : before[g].name \in Nat
  BY <1>3, FileHas, Constants
\* The files before the next one are those before this one, and those of its name.
<1>8. \A g \in DOMAIN before : h = NoFile \/ before[g].name < before[h].name
                               <=> before[g].name <= before[f].name
  <2> SUFFICES ASSUME NEW g \in DOMAIN before
               PROVE  h = NoFile \/ before[g].name < before[h].name
                      <=> before[g].name <= before[f].name
    OBVIOUS
  <2>1. g \in After(f) <=> before[g].name > before[f].name
    BY <1>3 DEF After, Live
  <2>2. CASE h = NoFile
    <3>1. After(f) = {}
      <4>1. NoFile \notin Live
        BY <1>3, FileHas DEF Live
      <4>2. QED
        BY <1>6, <2>2, <4>1 DEF IsFirst, After
    <3>2. QED
      BY <1>4, <1>7, <2>1, <2>2, <3>1
  <2>3. CASE h # NoFile
    <3>1. h \in After(f) /\ \A k \in After(f) : before[h].name <= before[k].name
      BY <1>3, <1>6, <2>3 DEF IsFirst
    <3>2. h \in DOMAIN before /\ before[h].name > before[f].name
      BY <1>3, <3>1 DEF After, Live
    <3>3. g \in After(f) => before[h].name <= before[g].name
      BY <3>1
    <3>4. before[g].name \in Nat /\ before[f].name \in Nat /\ before[h].name \in Nat
      BY <1>4, <1>7, <3>2
    <3>5. QED
      BY <2>1, <2>3, <3>2, <3>3, <3>4
  <2>4. QED
    BY <2>2, <2>3
<1>9. Passed' = {g \in DOMAIN before : before[g].name <= before[f].name /\ HasPath(NameOf(g), path)}
  BY <1>2, <1>6, <1>8 DEF Passed, NameOf
<1>10. \A g \in Passed' : g \in DOMAIN before /\ ItemOf(g)' = ItemOf(g) /\ HasPath(NameOf(g), path)
  BY <1>2, <1>9 DEF ItemOf, NameOf
<1>11. Passed = {g \in DOMAIN before : before[g].name < before[f].name /\ HasPath(NameOf(g), path)}
  BY <1>1, <1>2 DEF Passed
<1>12. \A g \in Passed' \ Passed : before[g].name = before[f].name
  BY <1>4, <1>7, <1>9, <1>11
<1>13. \A g \in DOMAIN before : before[g].name = before[f].name =>
         NameOf(g) = NameOf(f) /\ ItemOf(g) = x
  BY <1>1 DEF ItemOf, NameOf
<1>14. {ItemOf(g)' : g \in Passed'} = {ItemOf(g) : g \in Passed'}
  BY <1>10
<1>15. {ItemOf(g) : g \in Passed'} =
         {ItemOf(g) : g \in Passed} \cup (IF HasPath(NameOf(f), path) THEN {x} ELSE {})
  <2>1. Passed \subseteq Passed'
    BY <1>4, <1>7, <1>9, <1>11
  <2>2. HasPath(NameOf(f), path) => f \in Passed'
    BY <1>4, <1>7, <1>9
  <2>3. \A g \in Passed' \ Passed : HasPath(NameOf(f), path) /\ ItemOf(g) = x
    BY <1>9, <1>12, <1>13
  <2>4. QED
    BY <1>1, <2>1, <2>2, <2>3
<1>16. \A i \in DOMAIN items : HasPath(NameOf(f), path) => AtMost(items[i], x)
  <2> SUFFICES ASSUME NEW i \in DOMAIN items, HasPath(NameOf(f), path)
               PROVE  AtMost(items[i], x)
    OBVIOUS
  <2>1. PICK g \in Passed : items[i] = ItemOf(g)
    BY <1>4
  <2>2. g \in DOMAIN before /\ HasPath(NameOf(g), path) /\ before[g].name <= before[f].name
    BY <1>4, <1>7, <1>11
  <2>3. QED
    BY <1>1, <1>3, <1>4, <2>1, <2>2, ItemsInOrder
<1>17. /\ items' \in Seq(Seq(Nat))
       /\ {items'[i] : i \in DOMAIN items'} = {ItemOf(g) : g \in Passed'}
       /\ \A i, j \in DOMAIN items' : i < j => InOrder(items'[i], items'[j])
  <2>1. CASE ~ HasPath(NameOf(f), path)
    BY <1>4, <1>5, <1>15, <2>1
  <2>2. CASE HasPath(NameOf(f), path) /\ (items = <<>> \/ items[Len(items)] # x)
    <3>1. x \in Seq(Nat)
      BY <1>1, <1>3, <1>4, <2>2, ItemIs
    <3>2. PICK r : r = Append(items, x)
      OBVIOUS
    <3>3. /\ r \in Seq(Seq(Nat))
          /\ {r[i] : i \in DOMAIN r} = {items[i] : i \in DOMAIN items} \cup {x}
          /\ \A i, j \in DOMAIN r : i < j => InOrder(r[i], r[j])
      <4>1. \A i \in DOMAIN items : AtMost(items[i], x)
        BY <1>16, <2>2
      <4>2. items = <<>> \/ items[Len(items)] # x
        BY <2>2
      <4>3. /\ Append(items, x) \in Seq(Seq(Nat))
            /\ {Append(items, x)[i] : i \in DOMAIN Append(items, x)} =
                 {items[i] : i \in DOMAIN items} \cup {x}
            /\ \A i, j \in DOMAIN Append(items, x) :
                  i < j => InOrder(Append(items, x)[i], Append(items, x)[j])
        BY <1>4, <3>1, <4>1, <4>2, ItemAdded, Zenon
      <4>4. QED
        BY <3>2, <4>3
    <3>4. items' = r
      BY <1>5, <2>2, <3>2
    <3>5. QED
      BY <1>4, <1>15, <2>2, <3>3, <3>4
  <2>3. CASE HasPath(NameOf(f), path) /\ ~ (items = <<>> \/ items[Len(items)] # x)
    <3>1. items' = items /\ Len(items) \in DOMAIN items
      <4>1. Len(items) \in Nat /\ DOMAIN items = 1 .. Len(items) /\ items # <<>>
        BY <1>4, <2>3, LenProperties
      <4>2. Len(items) # 0
        BY <1>4, <4>1
      <4>3. QED
        BY <1>5, <2>3, <4>1, <4>2
    <3>2. x \in {items[i] : i \in DOMAIN items}
      BY <2>3, <3>1
    <3>3. QED
      BY <1>4, <1>15, <2>3, <3>1, <3>2
  <2>4. QED
    BY <2>1, <2>2, <2>3
<1>18. ListOn'
  BY <1>2, <1>4, <1>6, <1>14, <1>17 DEF ListOn, Live
<1>19. QED
  BY <1>2, <1>3, <1>18 DEF ProgramInvariant, StatEnds

LEMMA EndListKeeps ==
  ASSUME ProgramInvariant, EndList
  PROVE  ProgramInvariant'
<1>1. /\ pc = "list" /\ pc' = "end"
      /\ UNCHANGED <<files, src, offset, dst, bytes, lines, last, path, items, before>>
  BY DEF EndList, Exit, reads, counters, listing
<1>2. /\ FilesOK(files) /\ FilesOK(before) /\ dst = NoFile /\ bytes = 0
  BY <1>1 DEF ProgramInvariant
<1>3. QED
  BY <1>1, <1>2 DEF ProgramInvariant, StatEnds

LEMMA DeleteFileKeeps ==
  ASSUME ProgramInvariant, NEW n \in Names, DeleteFile(n)
  PROVE  ProgramInvariant'
<1>1. /\ pc = "start" /\ pc' = "end"
      /\ UNCHANGED <<src, offset, dst, bytes, lines, last, path, items, before>>
      /\ files' = files \/ \E f \in Live : Delete(f)
  BY DEF DeleteFile, Exit, reads, counters, listing
<1>2. /\ FilesOK(files) /\ FilesOK(before) /\ dst = NoFile /\ bytes = 0
  BY <1>1 DEF ProgramInvariant
<1>3. FilesOK(files')
  <2>1. CASE files' = files
    BY <1>2, <2>1
  <2>2. ASSUME NEW f \in Live, Delete(f) PROVE FilesOK(files')
    BY <1>2, <2>2 DEF Delete, FilesOK, Live
  <2>3. QED
    BY <1>1, <2>1, <2>2
<1>4. QED
  BY <1>1, <1>2, <1>3 DEF ProgramInvariant, StatEnds

LEMMA ProgramStutters ==
  ASSUME ProgramInvariant, UNCHANGED vars
  PROVE  ProgramInvariant'
  BY DEF vars, ProgramInvariant, CopyOn, StatOn, StatEnds, ListOn, Passed, ItemOf, NameOf,
         Counted, Live

-----------------------------------------------------------------------------
(***************************************************************************)
(* At each step of a program what it has copied, counted or listed is what *)
(* it had to of the part of its input that it has read (ProgramInvariant). *)
(***************************************************************************)
THEOREM ProgramInvariantHolds == ProgramSpec => []ProgramInvariant
<1>1. Start => ProgramInvariant
  BY ProgramStarts
<1>2. ProgramInvariant /\ [Step]_vars => ProgramInvariant'
  BY StartCopyKeeps, OpenToWriteKeeps, CopyKeeps, StartStatKeeps, StatKeeps, StartListKeeps,
     ListKeeps, EndListKeeps, DeleteFileKeeps, ProgramStutters DEF Step
<1>3. QED
  BY <1>1, <1>2, PTL DEF ProgramSpec

(***************************************************************************)
(* copy makes a copy, of a file of any size through a buffer of any size,  *)
(* and changes no other file, even if it fails.                            *)
(***************************************************************************)
THEOREM CopiesAreRight == ProgramSpec => []CopyIsRight
<1>1. ProgramInvariant => CopyIsRight
  BY DEF ProgramInvariant, CopyOn, CopyIsRight
<1>2. QED
  BY <1>1, ProgramInvariantHolds, PTL

(***************************************************************************)
(* stat counts all the bytes and all the lines, one that is in two buffers *)
(* once and a last line without end of line included.                      *)
(***************************************************************************)
THEOREM StatsAreRight == ProgramSpec => []StatIsRight
<1>1. ProgramInvariant => StatIsRight
  <2> SUFFICES ASSUME ProgramInvariant, pc = "end", bytes # 0
               PROVE  /\ bytes = Len(files[src].data)
                      /\ lines = Cardinality({i \in DOMAIN files[src].data :
                                                files[src].data[i] = NewLine})
                                 + (IF files[src].data[Len(files[src].data)] = NewLine
                                      THEN 0 ELSE 1)
    BY DEF StatIsRight
  <2>1. PICK d : d = files[src].data
    OBVIOUS
  <2>2. src \in Live /\ bytes = Len(d) /\ lines = Cardinality(LineStarts(d, Len(d)))
    BY <2>1 DEF ProgramInvariant, StatEnds, Counted
  <2>3. d \in Seq(Bytes)
    BY <2>1, <2>2, FileHas DEF ProgramInvariant, Live
  <2>4. QED
    BY <2>1, <2>2, <2>3, LinesOfFile
<1>2. QED
  BY <1>1, ProgramInvariantHolds, PTL

(***************************************************************************)
(* list writes each component that follows the path once, in order: those  *)
(* of names that come together in the list of files are equal, or in the   *)
(* order of the names, although the names are cut at NameLimit characters. *)
(***************************************************************************)
THEOREM ListsAreRight == ProgramSpec => []ListIsRight
<1>1. ProgramInvariant => ListIsRight
  <2> SUFFICES ASSUME ProgramInvariant, pc = "list", src = NoFile
               PROVE  ListIsRight
    BY DEF ListIsRight
  <2>1. ListOn
    BY DEF ProgramInvariant
  <2>2. PICK N : N = {Prefix(Text[before[f].name], NameLimit) : f \in DOMAIN before}
    OBVIOUS
  <2>3. Passed = {f \in DOMAIN before : HasPath(NameOf(f), path)}
    BY DEF Passed
  <2>4. {ItemOf(f) : f \in Passed} =
          {Component(SubSeq(s, Len(path) + 1, Len(s))) : s \in {t \in N : HasPath(t, path)}}
    BY <2>2, <2>3 DEF ItemOf, NameOf
  <2>5. QED
    BY <2>1, <2>2, <2>4 DEF ListIsRight, ListOn
<1>2. QED
  BY <1>1, ProgramInvariantHolds, PTL

=============================================================================
