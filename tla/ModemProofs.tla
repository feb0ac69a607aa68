---------------------------- MODULE ModemProofs ----------------------------
(***************************************************************************)
(* Proofs about Modem, for any frames, sizes of the FIFOs and of the       *)
(* buffer, preambles, trailers and amounts of noise.                       *)
(***************************************************************************)
EXTENDS Modem, SequenceTheorems, FiniteSetTheorems, WellFoundedInduction, TLAPS

-----------------------------------------------------------------------------
(* Induction over the natural numbers, on a set of them.                    *)

\* Of the intervals from 0 to an element of a set the smallest is to its least.
LEMMA LeastElement ==
  ASSUME NEW T, T \subseteq Nat, T # {}
  PROVE  \E x \in T : \A y \in T : x <= y
  <1> DEFINE R == StrictSubsetOrdering(Nat)
             U == {0..n : n \in T}
  <1>1. U \subseteq FiniteSubsetsOf(Nat) /\ U # {}
    <2>1. \A n \in T : 0..n \in SUBSET Nat /\ IsFiniteSet(0..n)
      BY FS_Interval
    <2> QED
      BY <2>1 DEF FiniteSubsetsOf
  <1> HIDE DEF U, R
  <1>2. PICK u \in U : \A v \in U : ~(<<v, u>> \in R)
    <2>1. IsWellFoundedOn(R, FiniteSubsetsOf(Nat))
      BY FS_StrictSubsetOrderingWellFounded DEF R
    <2> QED
      BY <1>1, <2>1, WFMin
  <1>3. PICK x \in T : u = 0..x
    BY <1>2 DEF U
  <1>4. ASSUME NEW y \in T, ~(x <= y) PROVE FALSE
    <2>1. 0..y \in U
      BY DEF U
    <2>2. 0..y \subseteq 0..x /\ 0..y # 0..x /\ 0..y \in SUBSET Nat /\ 0..x \in SUBSET Nat
      BY <1>4
    <2>3. <<0..y, 0..x>> \in R
      BY <2>2 DEF R, StrictSubsetOrdering
    <2> QED
      BY <1>2, <1>3, <2>1, <2>3
  <1> QED
    BY <1>3, <1>4

LEMMA SetInduction ==
  ASSUME NEW T, 0 \in T, \A n \in Nat : n \in T => n + 1 \in T
  PROVE  Nat \subseteq T
  <1> SUFFICES ASSUME Nat \ T # {} PROVE FALSE
    OBVIOUS
  <1>1. PICK x \in Nat \ T : \A y \in Nat \ T : x <= y
    BY LeastElement
  <1>2. x # 0 /\ x - 1 \in Nat
    BY <1>1
  <1>3. x - 1 \in T
    BY <1>1, <1>2
  <1> QED
    BY <1>1, <1>2, <1>3

-----------------------------------------------------------------------------
(* What Escaped() writes.                                                   *)

\* The recursive function in FlattenSeq, up to the m-th sequence of u.
FlattensTo(g, u, m) == g = [i \in 1..m |-> IF i = 1 THEN u[i] ELSE g[i - 1] \o u[i]]

LEMMA FlattensAt ==
  ASSUME NEW g, NEW u, NEW m, FlattensTo(g, u, m)
  PROVE  \A i \in 1..m : g[i] = IF i = 1 THEN u[i] ELSE g[i - 1] \o u[i]
  <1> DEFINE h == [k \in 1..m |-> IF k = 1 THEN u[k] ELSE g[k - 1] \o u[k]]
  <1>1. g = h
    BY DEF FlattensTo
  <1>2. \A i \in 1..m : h[i] = IF i = 1 THEN u[i] ELSE g[i - 1] \o u[i]
    OBVIOUS
  <1> HIDE DEF h
  <1> QED
    BY <1>1, <1>2

LEMMA FlattenExists ==
  ASSUME NEW u, NEW n \in Nat
  PROVE  \E g : FlattensTo(g, u, n)
  <1> DEFINE T == {m \in Nat : \E g : FlattensTo(g, u, m)}
  <1>1. 0 \in T
    <2>1. FlattensTo([i \in 1..0 |-> u[i]], u, 0)
      BY DEF FlattensTo
    <2> QED
      BY <2>1
  <1>2. ASSUME NEW m \in Nat, m \in T PROVE m + 1 \in T
    <2>1. PICK g : FlattensTo(g, u, m)
      BY <1>2
    <2> DEFINE h == [i \in 1..m + 1 |-> IF i <= m THEN g[i]
                                        ELSE IF i = 1 THEN u[i] ELSE g[i - 1] \o u[i]]
    <2>2. ASSUME NEW i \in 1..m + 1
          PROVE  h[i] = IF i = 1 THEN u[i] ELSE h[i - 1] \o u[i]
      <3>1. i <= m => g[i] = IF i = 1 THEN u[i] ELSE g[i - 1] \o u[i]
        BY <2>1, FlattensAt
      <3>2. i # 1 => h[i - 1] = g[i - 1]
        OBVIOUS
      <3>3. h[i] = IF i <= m THEN g[i] ELSE IF i = 1 THEN u[i] ELSE g[i - 1] \o u[i]
        OBVIOUS
      <3> HIDE DEF h
      <3> QED
        BY <3>1, <3>2, <3>3
    <2>3. FlattensTo(h, u, m + 1)
      BY <2>2 DEF FlattensTo
    <2> QED
      BY <2>3
  <1> HIDE DEF T
  <1>3. Nat \subseteq T
    BY <1>1, <1>2, SetInduction
  <1> QED
    BY <1>3 DEF T

LEMMA FlattenIs ==
  ASSUME NEW u, Len(u) \in Nat \ {0}
  PROVE  \E g : FlattensTo(g, u, Len(u)) /\ FlattenSeq(u) = g[Len(u)]
  <1> DEFINE f == CHOOSE g : g = [i \in 1..Len(u) |-> IF i = 1 THEN u[i]
                                                      ELSE g[i - 1] \o u[i]]
  <1>1. FlattensTo(f, u, Len(u))
    BY FlattenExists DEF FlattensTo
  <1>2. FlattenSeq(u) = f[Len(u)]
    BY DEF FlattenSeq
  <1> QED
    BY <1>1, <1>2

Width(c) == IF Special(c) THEN 2 ELSE 1

\* line is what is written of the first m characters of s; the j-th of them is at
\* pos[j], an escape it has before that, and there is nothing else.
Shape(s, m, line, pos) ==
  /\ pos \in [0..m -> Nat] /\ pos[0] = 0
  /\ \A j \in 1..m : pos[j] = pos[j - 1] + Width(s[j])
  /\ \A i, j \in 0..m : i < j => pos[i] < pos[j]
  /\ line \in Seq(Nat) /\ Len(line) = pos[m]
  /\ \A j \in 1..m : line[pos[j]] = s[j] /\ (Special(s[j]) => line[pos[j] - 1] = Esc)
  /\ \A i \in 1..Len(line) : \E j \in 1..m : i = pos[j] \/ (Special(s[j]) /\ i = pos[j] - 1)

LEMMA UnitIs ==
  ASSUME NEW c \in Nat
  PROVE  /\ Unit(c) \in Seq(Nat) /\ Len(Unit(c)) = Width(c)
         /\ Unit(c)[Width(c)] = c
         /\ Special(c) => Width(c) = 2 /\ Unit(c)[1] = Esc
         /\ ~Special(c) => Width(c) = 1
  BY DEF Unit, Width, Esc

LEMMA ShapeOne ==
  ASSUME NEW s \in Seq(Nat), s # <<>>
  PROVE  \E pos : Shape(s, 1, Unit(s[1]), pos)
  <1> DEFINE pos == [j \in 0..1 |-> IF j = 0 THEN 0 ELSE Width(s[1])]
  <1>1. s[1] \in Nat
    OBVIOUS
  <1>2. /\ pos \in [0..1 -> Nat] /\ pos[0] = 0 /\ pos[1] = Width(s[1])
        /\ \A i, j \in 0..1 : i < j => pos[i] < pos[j]
    BY DEF Width
  <1> HIDE DEF pos
  <1>3. /\ Unit(s[1]) \in Seq(Nat) /\ Len(Unit(s[1])) = Width(s[1])
        /\ Unit(s[1])[Width(s[1])] = s[1]
        /\ Special(s[1]) => Width(s[1]) = 2 /\ Unit(s[1])[1] = Esc
        /\ ~Special(s[1]) => Width(s[1]) = 1
    BY <1>1, UnitIs
  <1>4. \A j \in 1..1 : j = 1
    OBVIOUS
  <1>5. \A i \in 1..Len(Unit(s[1])) :
          \E j \in 1..1 : i = pos[j] \/ (Special(s[j]) /\ i = pos[j] - 1)
    BY <1>2, <1>3
  <1>6. \A j \in 1..1 : /\ pos[j] = pos[j - 1] + Width(s[j])
                       /\ Unit(s[1])[pos[j]] = s[j]
                       /\ Special(s[j]) => Unit(s[1])[pos[j] - 1] = Esc
    BY <1>2, <1>3, <1>4
  <1> QED
    BY <1>2, <1>3, <1>5, <1>6 DEF Shape

LEMMA ConcatNat ==
  ASSUME NEW a \in Seq(Nat), NEW b \in Seq(Nat)
  PROVE  /\ a \o b \in Seq(Nat) /\ Len(a \o b) = Len(a) + Len(b)
         /\ \A i \in 1..Len(a) + Len(b) :
              (a \o b)[i] = IF i <= Len(a) THEN a[i] ELSE b[i - Len(a)]
  OBVIOUS

LEMMA Between ==
  ASSUME NEW a \in Nat, NEW b \in Nat, NEW n \in Nat, NEW w \in {1, 2}, b = a + w, b <= n
  PROVE  b \in 1..n /\ (w = 2 => b - 1 \in 1..n)
  OBVIOUS

Increasing(pos, m) ==
  pos \in [0..m -> Nat] /\ \A i, j \in 0..m : i < j => pos[i] < pos[j]

\* The positions of one more character, of width w.
Extended(p, pos, m, w) ==
  /\ Increasing(p, m + 1)
  /\ \A j \in 0..m : p[j] = pos[j]
  /\ p[m + 1] = pos[m] + w

LEMMA PlacesNext ==
  ASSUME NEW m \in Nat, NEW pos, NEW w \in {1, 2}, Increasing(pos, m)
  PROVE  \E p : Extended(p, pos, m, w)
  <1> DEFINE p == [j \in 0..m + 1 |-> IF j <= m THEN pos[j] ELSE pos[m] + w]
  <1>1. p \in [0..m + 1 -> Nat]
    BY DEF Increasing
  <1>2. (\A j \in 0..m : p[j] = pos[j]) /\ p[m + 1] = pos[m] + w
    OBVIOUS
  <1> HIDE DEF p
  <1>3. ASSUME NEW i \in 0..m + 1, NEW j \in 0..m + 1, i < j PROVE p[i] < p[j]
    <2>1. CASE j <= m
      BY <1>2, <1>3, <2>1 DEF Increasing
    <2>2. CASE j = m + 1 /\ i < m
      <3>1. pos[i] < pos[m] /\ pos[i] \in Nat /\ pos[m] \in Nat
        BY <2>2 DEF Increasing
      <3> QED
        BY <1>2, <2>2, <3>1
    <2>3. CASE j = m + 1 /\ i = m
      BY <1>2, <2>3 DEF Increasing
    <2> QED
      BY <1>3, <2>1, <2>2, <2>3
  <1>4. Extended(p, pos, m, w)
    BY <1>1, <1>2, <1>3 DEF Extended, Increasing
  <1> QED
    BY <1>4

LEMMA ShapeNext ==
  ASSUME NEW s \in Seq(Nat), NEW m \in 1..Len(s) - 1, NEW line, NEW pos,
         Shape(s, m, line, pos)
  PROVE  \E p : Shape(s, m + 1, line \o Unit(s[m + 1]), p)
  <1>1. m \in Nat /\ m + 1 \in 1..Len(s) /\ s[m + 1] \in Nat
    OBVIOUS
  <1> DEFINE c == s[m + 1]
             w == Width(c)
             u == Unit(c)
             new == line \o u
             len == pos[m]
  <1>2. w \in {1, 2}
    BY DEF Width
  <1>3. u \in Seq(Nat) /\ Len(u) = w
    BY <1>1, UnitIs
  <1>4. /\ u[w] = c
        /\ Special(c) => w = 2 /\ u[1] = Esc
        /\ ~Special(c) => w = 1
    BY <1>1, UnitIs
  <1>5. /\ pos \in [0..m -> Nat] /\ pos[0] = 0 /\ len \in Nat
        /\ \A i, j \in 0..m : i < j => pos[i] < pos[j]
    BY <1>1 DEF Shape
  <1>6. line \in Seq(Nat) /\ Len(line) = len
    BY DEF Shape
  <1> HIDE DEF c, w, u, len
  <1>p. PICK p : Extended(p, pos, m, w)
    <2>1. Increasing(pos, m)
      BY <1>5 DEF Increasing
    <2> QED
      BY <1>1, <1>2, <2>1, PlacesNext
  <1>7. /\ p \in [0..m + 1 -> Nat]
        /\ \A j \in 0..m : p[j] = pos[j]
        /\ p[m + 1] = pos[m] + w
        /\ \A i, j \in 0..m + 1 : i < j => p[i] < p[j]
    BY <1>p DEF Extended, Increasing
  <1>8. p[m + 1] = len + w
    BY <1>7 DEF len
  <1>9. /\ new \in Seq(Nat) /\ Len(new) = len + w
        /\ \A i \in 1..len + w : new[i] = IF i <= len THEN line[i] ELSE u[i - len]
    BY <1>3, <1>6, ConcatNat
  <1> HIDE DEF new
  <1>10. \A i \in 1..len : new[i] = line[i]
    <2>1. \A i \in 1..len : i \in 1..len + w /\ i <= len
      BY <1>2, <1>5
    <2> QED
      BY <1>9, <2>1
  <1>11. \A i \in 1..w : new[len + i] = u[i]
    <2>1. \A i \in 1..w : len + i \in 1..len + w /\ ~(len + i <= len) /\ (len + i) - len = i
      BY <1>2, <1>5
    <2> QED
      BY <1>9, <2>1
  <1>12. ASSUME NEW j \in 1..m + 1
         PROVE  /\ p[j] = p[j - 1] + Width(s[j])
                /\ new[p[j]] = s[j] /\ (Special(s[j]) => new[p[j] - 1] = Esc)
    <2>1. CASE j = m + 1
      <3>1. p[j] = p[j - 1] + w
        BY <1>1, <1>7, <2>1
      <3>2. p[j] = len + w /\ (w = 2 => p[j] - 1 = len + 1)
        BY <1>5, <1>8, <2>1
      <3>3. w \in 1..w /\ 1 \in 1..w
        BY <1>2
      <3>4. new[p[j]] = u[w] /\ (w = 2 => new[p[j] - 1] = u[1])
        BY <1>11, <3>2, <3>3
      <3> QED
        BY <1>4, <2>1, <3>1, <3>4 DEF c, w
    <2>2. CASE j \in 1..m
      <3>1. /\ pos[j] = pos[j - 1] + Width(s[j])
            /\ line[pos[j]] = s[j] /\ (Special(s[j]) => line[pos[j] - 1] = Esc)
        BY <2>2 DEF Shape
      <3>2. p[j] = pos[j] /\ p[j - 1] = pos[j - 1] /\ pos[j - 1] \in Nat /\ pos[j] \in Nat
        <4>1. j \in 0..m /\ j - 1 \in 0..m
          BY <1>1, <2>2
        <4> QED
          BY <1>5, <1>7, <4>1
      <3>3. pos[j] <= len
        <4>1. j \in 0..m /\ m \in 0..m /\ (j = m \/ j < m)
          BY <1>1, <2>2
        <4> QED
          BY <1>5, <3>2, <4>1 DEF len
      <3>4. pos[j] \in 1..len /\ (Special(s[j]) => pos[j] - 1 \in 1..len)
        <4>1. Width(s[j]) \in {1, 2} /\ (Special(s[j]) => Width(s[j]) = 2)
          BY DEF Width
        <4>2. len \in Nat
          BY <1>5
        <4> QED
          BY <3>1, <3>2, <3>3, <4>1, <4>2, Between
      <3> QED
        BY <1>10, <3>1, <3>2, <3>4
    <2> QED
      BY <1>1, <2>1, <2>2
  <1>13. ASSUME NEW i \in 1..Len(new)
         PROVE  \E j \in 1..m + 1 : i = p[j] \/ (Special(s[j]) /\ i = p[j] - 1)
    <2>1. CASE i <= len
      <3>1. i \in 1..Len(line)
        BY <1>5, <1>6, <2>1
      <3>2. PICK j \in 1..m : i = pos[j] \/ (Special(s[j]) /\ i = pos[j] - 1)
        BY <3>1 DEF Shape
      <3>3. j \in 0..m /\ j \in 1..m + 1
        BY <1>1
      <3> QED
        BY <1>7, <3>2, <3>3
    <2>2. CASE ~(i <= len)
      <3>1. i = p[m + 1] \/ (w = 2 /\ i = p[m + 1] - 1)
        <4>1. i \in 1..len + w
          BY <1>9
        <4> QED
          BY <1>2, <1>5, <1>8, <2>2, <4>1
      <3>2. w = 2 => Special(s[m + 1])
        BY <1>4 DEF c
      <3>3. m + 1 \in 1..m + 1
        BY <1>1
      <3> QED
        BY <3>1, <3>2, <3>3
    <2> QED
      BY <2>1, <2>2
  <1>14. Len(new) = p[m + 1] /\ p[0] = 0
    <2>1. 0 \in 0..m
      BY <1>1
    <2> QED
      BY <1>5, <1>7, <1>8, <1>9, <2>1
  <1>15. Shape(s, m + 1, new, p)
    BY <1>7, <1>9, <1>12, <1>13, <1>14 DEF Shape
  <1> QED
    BY <1>15 DEF new, u, c

LEMMA EscapedShape ==
  ASSUME NEW s \in Seq(Nat), s # <<>>
  PROVE  \E pos : Shape(s, Len(s), Escaped(s), pos)
  <1> DEFINE n == Len(s)
             u == [i \in 1..n |-> Unit(s[i])]
  <1>1. n \in Nat \ {0}
    OBVIOUS
  <1>2. Len(u) = n /\ Escaped(s) = FlattenSeq(u) /\ \A i \in 1..n : u[i] = Unit(s[i])
    BY <1>1 DEF Escaped, Unit
  <1> HIDE DEF u, n
  <1>3. PICK g : FlattensTo(g, u, n) /\ Escaped(s) = g[n]
    BY <1>1, <1>2, FlattenIs
  <1> DEFINE T == {m \in Nat : m + 1 \in 1..n => \E pos : Shape(s, m + 1, g[m + 1], pos)}
  <1>4. 0 \in T
    <2>1. g[1] = Unit(s[1])
      BY <1>1, <1>2, <1>3, FlattensAt
    <2>2. \E pos : Shape(s, 1, g[1], pos)
      BY <2>1, ShapeOne
    <2> QED
      BY <2>2
  <1>5. ASSUME NEW m \in Nat, m \in T PROVE m + 1 \in T
    <2>1. ASSUME NEW k \in 1..n, k = (m + 1) + 1
          PROVE  \E pos : Shape(s, k, g[k], pos)
      <3>1. m + 1 \in 1..n - 1 /\ m + 1 \in 1..n /\ k # 1 /\ k - 1 = m + 1
        BY <1>1, <2>1
      <3>2. PICK pos : Shape(s, m + 1, g[m + 1], pos)
        BY <1>5, <3>1
      <3>3. g[k] = IF k = 1 THEN u[k] ELSE g[k - 1] \o u[k]
        BY <1>3, FlattensAt
      <3>4. g[k] = g[m + 1] \o Unit(s[k])
        BY <1>2, <3>1, <3>3
      <3>5. \E p : Shape(s, (m + 1) + 1, g[m + 1] \o Unit(s[(m + 1) + 1]), p)
        BY <3>1, <3>2, ShapeNext DEF n
      <3> QED
        BY <2>1, <3>4, <3>5
    <2> QED
      BY <2>1
  <1> HIDE DEF T
  <1>6. n - 1 \in T
    BY <1>1, <1>4, <1>5, SetInduction
  <1>7. \E pos : Shape(s, n, g[n], pos)
    BY <1>1, <1>6 DEF T
  <1> QED
    BY <1>3, <1>7 DEF n

-----------------------------------------------------------------------------
(* What ax25_sendVia() writes.                                              *)

Content(k) == Append(Frames[k], Crc(k))

LEMMA ContentIs ==
  ASSUME NEW k \in Sent
  PROVE  /\ k \in Nat \ {0} /\ Crc(k) \in Nat /\ Crc(k) > 255
         /\ Content(k) \in Seq(Nat) /\ Content(k) # <<>>
         /\ Len(Content(k)) \in MinFrame..FrameBuf
         /\ \A j \in 1..Len(Content(k)) : Content(k)[j] > 255 => j = Len(Content(k))
         /\ Content(k)[Len(Content(k))] = Crc(k)
  <1>1. k \in Nat \ {0} /\ Crc(k) \in Nat /\ Crc(k) > 255
    BY ModemConstants DEF Sent, Crc
  <1>2. Frames[k] \in Seq(0..255)
    BY ModemConstants DEF Sent
  <1>3. Len(Frames[k]) + 1 \in MinFrame..FrameBuf
    BY ModemConstants
  <1> DEFINE s == Frames[k]
             c == Crc(k)
  <1> HIDE DEF s, c
  <1>4. ASSUME NEW f \in Seq(0..255), NEW x \in Nat, x > 255
        PROVE  /\ Append(f, x) \in Seq(Nat) /\ Append(f, x) # <<>>
               /\ Len(Append(f, x)) = Len(f) + 1
               /\ \A j \in 1..Len(Append(f, x)) :
                    Append(f, x)[j] > 255 => j = Len(Append(f, x))
               /\ Append(f, x)[Len(Append(f, x))] = x
    <2> DEFINE a == Append(f, x)
               n == Len(f)
    <2>1. f \in [1..n -> 0..255] /\ n \in Nat
      BY LenProperties
    <2>2. ASSUME NEW j \in 1..n PROVE f[j] \in Nat /\ ~(f[j] > 255)
      <3>1. f[j] \in 0..255
        BY <2>1
      <3>2. \A y \in 0..255 : y \in Nat /\ ~(y > 255)
        OBVIOUS
      <3> QED
        BY <3>1, <3>2, Zenon
    <2>3. f \in Seq(Nat)
      <3>1. f \in [1..n -> Nat]
        BY <2>1, <2>2
      <3> QED
        BY <2>1, <3>1
    <2>4. a \in Seq(Nat) /\ a # <<>> /\ Len(a) = n + 1 /\ a[n + 1] = x
      BY <2>3
    <2>5. \A j \in 1..n : a[j] = f[j]
      BY <2>3
    <2>6. n \in Nat
      BY <2>1
    <2> HIDE DEF a, n
    <2>7. \A j \in 1..n : ~(a[j] > 255)
      BY <2>2, <2>5 DEF n
    <2>8. \A j \in 1..Len(a) : a[j] > 255 => j = Len(a)
      BY <2>4, <2>6, <2>7
    <2> QED
      BY <2>4, <2>8 DEF a, n
  <1> QED
    BY <1>1, <1>2, <1>3, <1>4 DEF Content

LEMMA Wrapped ==
  ASSUME NEW e \in Seq(Nat), NEW c \in Nat
  PROVE  LET l == <<c>> \o e \o <<c>> IN
           /\ l \in Seq(Nat) /\ Len(l) = Len(e) + 2
           /\ l[1] = c /\ l[Len(e) + 2] = c
           /\ \A i \in 1..Len(e) : l[i + 1] = e[i]
  <1> DEFINE a == <<c>> \o e
             b == <<c>>
             n == Len(e)
  <1>1. b \in Seq(Nat) /\ Len(b) = 1 /\ b[1] = c /\ n \in Nat
    OBVIOUS
  <1>2. /\ a \in Seq(Nat) /\ Len(a) = n + 1 /\ a[1] = c
        /\ \A i \in 1..n : a[i + 1] = e[i]
    OBVIOUS
  <1>3. /\ a \o b \in Seq(Nat) /\ Len(a \o b) = Len(a) + Len(b)
        /\ \A i \in 1..Len(a) + Len(b) :
              (a \o b)[i] = IF i <= Len(a) THEN a[i] ELSE b[i - Len(a)]
    BY <1>1, <1>2, ConcatNat
  <1> DEFINE l == a \o b
  <1>4. l \in Seq(Nat) /\ Len(l) = n + 2
    BY <1>1, <1>2, <1>3
  <1>5. \A i \in 1..n + 2 : l[i] = IF i <= n + 1 THEN a[i] ELSE b[i - (n + 1)]
    BY <1>1, <1>2, <1>3
  <1> HIDE DEF a, b, n, l
  <1>6. l[1] = c /\ l[n + 2] = c
    BY <1>1, <1>2, <1>5
  <1>7. \A i \in 1..n : l[i + 1] = e[i]
    BY <1>1, <1>2, <1>5
  <1> QED
    BY <1>4, <1>6, <1>7 DEF l, a, b, n

\* What is written between the flags, and where the characters of the frame are.
Body(k) == Escaped(Content(k))
Placed(k, pos) == Shape(Content(k), Len(Content(k)), Body(k), pos)

LEMMA BodyPlaced ==
  ASSUME NEW k \in Sent
  PROVE  \E pos : Placed(k, pos)
  BY ContentIs, EscapedShape DEF Placed, Body

LEMMA LineBody ==
  ASSUME NEW k \in Sent
  PROVE  /\ Body(k) \in Seq(Nat)
         /\ Line(k) \in Seq(Nat) /\ Len(Line(k)) = Len(Body(k)) + 2
         /\ Line(k)[1] = Flag /\ Line(k)[Len(Body(k)) + 2] = Flag
         /\ \A i \in 1..Len(Body(k)) : Line(k)[i + 1] = Body(k)[i]
  <1>1. Body(k) \in Seq(Nat)
    BY BodyPlaced DEF Placed, Shape
  <1>2. Line(k) = <<Flag>> \o Body(k) \o <<Flag>> /\ Flag \in Nat
    BY DEF Line, Body, Content, Flag
  <1> QED
    BY <1>1, <1>2, Wrapped

\* The checksum of a frame is its last character but one, and no other is like it;
\* what is escaped is followed by it at least.
LEMMA LineIs ==
  ASSUME NEW k \in Sent
  PROVE  /\ Line(k) \in Seq(Nat) /\ Len(Line(k)) \in Nat /\ Len(Line(k)) > 2
         /\ Line(k)[1] = Flag /\ Line(k)[Len(Line(k))] = Flag
         /\ Line(k)[Len(Line(k)) - 1] = Crc(k)
         /\ \A i \in 1..Len(Line(k)) : Line(k)[i] > 255 => i = Len(Line(k)) - 1
         /\ \A i \in 1..Len(Line(k)) : Line(k)[i] = Esc => i < Len(Line(k)) - 1
  <1> DEFINE e == Body(k)
             l == Line(k)
             s == Content(k)
             n == Len(s)
  <1>1. PICK pos : Shape(s, n, e, pos)
    BY BodyPlaced DEF Placed
  <1>2. n \in Nat \ {0} /\ s[n] = Crc(k) /\ Crc(k) \in Nat /\ Crc(k) > 255
        /\ \A j \in 1..n : s[j] > 255 => j = n
    BY ContentIs
  <1>3. /\ l \in Seq(Nat) /\ Len(l) = Len(e) + 2 /\ Len(e) \in Nat
        /\ l[1] = Flag /\ l[Len(e) + 2] = Flag
        /\ \A i \in 1..Len(e) : l[i + 1] = e[i]
    BY LineBody
  <1>4. /\ Len(e) = pos[n] /\ pos[0] < pos[n] /\ pos[0] = 0 /\ e[pos[n]] = s[n]
        /\ \A i \in 1..Len(e) : \E j \in 1..n : i = pos[j] \/ (Special(s[j]) /\ i = pos[j] - 1)
        /\ \A j \in 1..n : e[pos[j]] = s[j] /\ (Special(s[j]) => e[pos[j] - 1] = Esc)
    <2>1. 0 \in 0..n /\ n \in 0..n /\ 0 < n /\ n \in 1..n
      BY <1>2
    <2> QED
      BY <1>1, <2>1 DEF Shape
  <1> HIDE DEF e, l, s, n
  <1>5. l[Len(l) - 1] = Crc(k) /\ Len(l) > 2
    <2>1. Len(e) > 0
      BY <1>4
    <2>2. Len(e) \in 1..Len(e) /\ Len(l) - 1 = Len(e) + 1 /\ Len(l) > 2
      BY <1>3, <2>1
    <2>3. l[Len(e) + 1] = e[Len(e)] /\ e[Len(e)] = Crc(k)
      BY <1>2, <1>3, <1>4, <2>2
    <2> QED
      BY <2>2, <2>3
  <1>6. ASSUME NEW i \in 1..Len(e)
        PROVE  e[i] > 255 => i = Len(e)
    <2>1. PICK j \in 1..n : i = pos[j] \/ (Special(s[j]) /\ i = pos[j] - 1)
      BY <1>4
    <2>2. CASE i = pos[j]
      <3>1. e[i] = s[j]
        BY <1>4, <2>2
      <3> QED
        BY <1>2, <1>4, <2>2, <3>1
    <2>3. CASE Special(s[j]) /\ i = pos[j] - 1
      <3>1. e[i] = Esc
        BY <1>4, <2>3
      <3> QED
        BY <3>1 DEF Esc
    <2> QED
      BY <2>1, <2>2, <2>3
  <1>7. ASSUME NEW i \in 1..Len(l)
        PROVE  /\ l[i] > 255 => i = Len(l) - 1
               /\ l[i] = Esc => i < Len(l) - 1
    <2>1. i = 1 \/ i = Len(e) + 2 \/ (i - 1 \in 1..Len(e) /\ (i - 1) + 1 = i)
      BY <1>3
    <2>2. CASE i = 1 \/ i = Len(e) + 2
      BY <1>3, <2>2 DEF Flag, Esc
    <2>3. CASE i - 1 \in 1..Len(e) /\ (i - 1) + 1 = i
      <3>1. l[i] = e[i - 1]
        BY <1>3, <2>3
      <3>2. l[i] > 255 => i - 1 = Len(e)
        BY <1>6, <2>3, <3>1
      <3>3. i - 1 = Len(e) => l[i] = Crc(k)
        BY <1>2, <1>4, <3>1
      <3>4. Crc(k) # Esc
        BY <1>2 DEF Esc
      <3> QED
        BY <1>3, <2>3, <3>2, <3>3, <3>4
    <2> QED
      BY <2>1, <2>2, <2>3
  <1> QED
    BY <1>3, <1>5, <1>7 DEF l

-----------------------------------------------------------------------------
(* What is on its way to the sending interrupt.  The frames that have begun  *)
(* and are not over stand one after the other in q, each from its place on: *)
(* the first tk characters of frame on have been taken, those of the frames *)
(* before it too, and q ends where the last of the nx frames does.          *)

Standing(q, nx, on, tk, place) ==
  /\ place \in [1..nx + 1 -> Int]
  /\ place[nx + 1] = Len(q)
  /\ \A k \in 1..nx : place[k + 1] = place[k] + Len(Line(k)) /\ place[k + 1] <= Len(q)
  /\ IF on = 0 THEN place[1] = 0 ELSE place[on] = -tk
  /\ \A k \in 1..nx : \A i \in 1..Len(Line(k)) :
       place[k] + i > 0 => q[place[k] + i] = Line(k)[i]

Queued(q, nx, on, tk) ==
  /\ q \in Seq(Nat) /\ nx \in 0..Len(Frames) /\ on \in 0..nx
  /\ IF on = 0 THEN tk = 0 ELSE tk \in 1..Len(Line(on))
  /\ \E place : Standing(q, nx, on, tk, place)

LEMMA SentNat == Len(Frames) \in Nat /\ \A nx \in 0..Len(Frames) : 1..nx \subseteq Sent
  BY ModemConstants DEF Sent

\* Another frame is put behind the ones that are there.
LEMMA QueueMore ==
  ASSUME NEW q, NEW nx, NEW on, NEW tk, Queued(q, nx, on, tk), nx < Len(Frames)
  PROVE  Queued(q \o Line(nx + 1), nx + 1, on, tk)
  <1>1. nx \in Nat /\ nx + 1 \in Sent /\ nx + 1 \in 0..Len(Frames) /\ on \in 0..nx + 1
        /\ 1..nx \subseteq Sent /\ q \in Seq(Nat) /\ on \in 0..nx /\ on \in Nat
    BY SentNat DEF Queued, Sent
  <1>2. PICK place : Standing(q, nx, on, tk, place)
    BY DEF Queued
  <1> DEFINE l == Line(nx + 1)
             r == q \o l
             p == [k \in 1..nx + 2 |-> IF k <= nx + 1 THEN place[k] ELSE Len(q) + Len(l)]
  <1>3. l \in Seq(Nat) /\ Len(l) \in Nat /\ Len(q) \in Nat
    BY <1>1, LineIs
  <1>4. /\ r \in Seq(Nat) /\ Len(r) = Len(q) + Len(l)
        /\ \A i \in 1..Len(q) + Len(l) :
             r[i] = IF i <= Len(q) THEN q[i] ELSE l[i - Len(q)]
    BY <1>1, <1>3, ConcatNat
  <1>5. /\ place \in [1..nx + 1 -> Int] /\ place[nx + 1] = Len(q)
        /\ \A k \in 1..nx : place[k + 1] = place[k] + Len(Line(k)) /\ place[k + 1] <= Len(q)
    BY <1>2 DEF Standing
  <1>6. p \in [1..nx + 2 -> Int]
    BY <1>1, <1>3, <1>5
  <1>7. (\A k \in 1..nx + 1 : p[k] = place[k]) /\ p[nx + 2] = Len(q) + Len(l)
    BY <1>1
  <1> HIDE DEF r, p
  <1>8. ASSUME NEW k \in 1..nx + 1
        PROVE  p[k + 1] = p[k] + Len(Line(k)) /\ p[k + 1] <= Len(r)
    <2>1. CASE k = nx + 1
      <3>1. k + 1 = nx + 2 /\ p[k] = Len(q)
        BY <1>1, <1>5, <1>7, <2>1
      <3>2. p[k + 1] = Len(q) + Len(l)
        BY <1>7, <3>1
      <3> QED
        BY <1>3, <1>4, <2>1, <3>1, <3>2
    <2>2. CASE k \in 1..nx
      <3>1. k \in 1..nx + 1 /\ k + 1 \in 1..nx + 1
        BY <1>1, <2>2
      <3>2. place[k + 1] = place[k] + Len(Line(k)) /\ place[k + 1] <= Len(q)
            /\ place[k + 1] \in Int
        BY <1>5, <2>2, <3>1
      <3> QED
        BY <1>3, <1>4, <1>7, <3>1, <3>2
    <2> QED
      BY <1>1, <2>1, <2>2
  <1>9. IF on = 0 THEN p[1] = 0 ELSE p[on] = -tk
    <2>1. 1 \in 1..nx + 1 /\ (on # 0 => on \in 1..nx + 1)
      BY <1>1
    <2>2. IF on = 0 THEN place[1] = 0 ELSE place[on] = -tk
      BY <1>2 DEF Standing
    <2> QED
      BY <1>7, <2>1, <2>2
  <1>10. ASSUME NEW k \in 1..nx + 1, NEW i \in 1..Len(Line(k)), p[k] + i > 0
         PROVE  r[p[k] + i] = Line(k)[i]
    <2>1. CASE k = nx + 1
      <3>1. p[k] = Len(q) /\ i \in 1..Len(l)
        BY <1>1, <1>5, <1>7, <2>1
      <3>2. p[k] + i \in 1..Len(q) + Len(l) /\ ~(p[k] + i <= Len(q)) /\ (p[k] + i) - Len(q) = i
        BY <1>3, <3>1
      <3>3. r[p[k] + i] = l[i]
        BY <1>4, <3>2
      <3> QED
        BY <2>1, <3>3
    <2>2. CASE k \in 1..nx
      <3>1. k \in 1..nx + 1 /\ k \in Sent
        BY <1>1, <2>2
      <3>2. p[k] = place[k] /\ place[k] \in Int /\ place[k] + Len(Line(k)) <= Len(q)
        BY <1>5, <1>7, <2>2, <3>1
      <3>3. Len(Line(k)) \in Nat
        BY <3>1, LineIs
      <3>4. p[k] + i \in 1..Len(q) + Len(l) /\ p[k] + i <= Len(q)
        BY <1>3, <1>10, <3>2, <3>3
      <3>5. q[p[k] + i] = Line(k)[i]
        BY <1>2, <1>10, <2>2, <3>2 DEF Standing
      <3> QED
        BY <1>4, <3>4, <3>5
    <2> QED
      BY <1>1, <2>1, <2>2
  <1>11. Standing(r, nx + 1, on, tk, p)
    <2>1. (nx + 1) + 1 = nx + 2
      BY <1>1
    <2> QED
      BY <1>4, <1>6, <1>7, <1>8, <1>9, <1>10, <2>1 DEF Standing
  <1> QED
    BY <1>1, <1>4, <1>11 DEF Queued, r, l

\* The frame that the next character is of, and which of its characters that is.
Going(on, tk) == on > 0 /\ tk < Len(Line(on))
Now(on, tk) == IF Going(on, tk) THEN on ELSE on + 1
Far(on, tk) == IF Going(on, tk) THEN tk + 1 ELSE 1

LEMMA TailNat ==
  ASSUME NEW q \in Seq(Nat), q # <<>>
  PROVE  /\ Tail(q) \in Seq(Nat) /\ Len(q) \in Nat \ {0} /\ Len(Tail(q)) = Len(q) - 1
         /\ Head(q) = q[1] /\ Head(q) \in Nat
         /\ \A i \in 1..Len(q) - 1 : Tail(q)[i] = q[i + 1]
  OBVIOUS

\* A character is taken.
LEMMA QueueLess ==
  ASSUME NEW q, NEW nx, NEW on, NEW tk, Queued(q, nx, on, tk), q # <<>>
  PROVE  /\ Now(on, tk) \in 1..nx /\ Far(on, tk) \in 1..Len(Line(Now(on, tk)))
         /\ Head(q) = Line(Now(on, tk))[Far(on, tk)]
         /\ Queued(Tail(q), nx, Now(on, tk), Far(on, tk))
  <1> DEFINE now == Now(on, tk)
             far == Far(on, tk)
  <1>1. /\ q \in Seq(Nat) /\ nx \in 0..Len(Frames) /\ on \in 0..nx /\ nx \in Nat /\ on \in Nat
        /\ IF on = 0 THEN tk = 0 ELSE tk \in 1..Len(Line(on))
        /\ 1..nx \subseteq Sent
    BY SentNat DEF Queued
  <1>2. PICK place : Standing(q, nx, on, tk, place)
    BY DEF Queued
  <1>3. /\ Tail(q) \in Seq(Nat) /\ Len(q) \in Nat \ {0} /\ Len(Tail(q)) = Len(q) - 1
        /\ Head(q) = q[1] /\ Head(q) \in Nat
        /\ \A i \in 1..Len(q) - 1 : Tail(q)[i] = q[i + 1]
    BY <1>1, TailNat
  <1>4. /\ place \in [1..nx + 1 -> Int] /\ place[nx + 1] = Len(q)
        /\ \A k \in 1..nx : place[k + 1] = place[k] + Len(Line(k)) /\ place[k + 1] <= Len(q)
        /\ IF on = 0 THEN place[1] = 0 ELSE place[on] = -tk
    BY <1>2 DEF Standing
  <1>5. \A k \in 1..nx : Len(Line(k)) \in Nat /\ Len(Line(k)) > 2
    BY <1>1, LineIs
  <1>6. /\ now \in 1..nx /\ far \in 1..Len(Line(now)) /\ far \in Nat
        /\ place[now] = 1 - far
    <2>1. CASE Going(on, tk)
      <3>1. on \in 1..nx /\ now = on /\ far = tk + 1 /\ tk \in Nat /\ place[on] = -tk
        BY <1>1, <1>4, <2>1 DEF Going, Now, Far
      <3> QED
        BY <1>5, <2>1, <3>1 DEF Going
    <2>2. CASE ~Going(on, tk)
      <3>1. now = on + 1 /\ far = 1
        BY <2>2 DEF Now, Far
      <3>2. place[on + 1] = 0
        <4>1. CASE on = 0
          BY <1>4, <4>1
        <4>2. CASE on # 0
          <5>1. on \in 1..nx /\ on > 0
            BY <1>1, <4>2
          <5>2. tk \in 1..Len(Line(on)) /\ Len(Line(on)) \in Nat /\ ~(tk < Len(Line(on)))
            BY <1>1, <1>5, <2>2, <4>2, <5>1 DEF Going
          <5>3. place[on + 1] = -tk + Len(Line(on))
            BY <1>4, <4>2, <5>1
          <5> QED
            BY <5>2, <5>3
        <4> QED
          BY <4>1, <4>2
      <3>3. on # nx
        BY <1>3, <1>4, <3>2
      <3>4. now \in 1..nx
        BY <1>1, <3>1, <3>3
      <3>5. Len(Line(now)) \in Nat /\ Len(Line(now)) > 2
        BY <1>5, <3>4
      <3> QED
        BY <3>1, <3>2, <3>4, <3>5
    <2> QED
      BY <2>1, <2>2
  <1> HIDE DEF now, far
  <1>7. Head(q) = Line(now)[far]
    <2>1. place[now] + far = 1
      BY <1>6
    <2>2. q[place[now] + far] = Line(now)[far]
      BY <1>2, <1>6, <2>1 DEF Standing
    <2> QED
      BY <1>3, <2>1, <2>2
  <1> DEFINE r == Tail(q)
             p == [k \in 1..nx + 1 |-> place[k] - 1]
  <1>8. p \in [1..nx + 1 -> Int] /\ \A k \in 1..nx + 1 : p[k] = place[k] - 1
    BY <1>4
  <1> HIDE DEF r, p
  <1>9. /\ r \in Seq(Nat) /\ Len(r) = Len(q) - 1 /\ Len(q) \in Nat \ {0}
        /\ \A i \in 1..Len(q) - 1 : r[i] = q[i + 1]
    BY <1>3 DEF r
  <1>10. ASSUME NEW k \in 1..nx
         PROVE  /\ k \in 1..nx + 1 /\ k + 1 \in 1..nx + 1 /\ place[k] \in Int
                /\ p[k] = place[k] - 1 /\ p[k + 1] = place[k + 1] - 1
                /\ p[k + 1] = p[k] + Len(Line(k)) /\ p[k + 1] <= Len(r)
    <2>1. k \in 1..nx + 1 /\ k + 1 \in 1..nx + 1
      BY <1>1
    <2>2. place[k] \in Int /\ place[k + 1] \in Int
      BY <1>4, <2>1
    <2>3. p[k] = place[k] - 1 /\ p[k + 1] = place[k + 1] - 1
      BY <1>8, <2>1
    <2>4. place[k + 1] = place[k] + Len(Line(k)) /\ place[k + 1] <= Len(q)
          /\ Len(Line(k)) \in Nat
      BY <1>4, <1>5
    <2>5. Len(r) = Len(q) - 1 /\ Len(q) \in Nat
      BY <1>9
    <2>6. p[k + 1] = p[k] + Len(Line(k))
      BY <2>2, <2>3, <2>4
    <2>7. p[k + 1] <= Len(r)
      BY <2>2, <2>3, <2>4, <2>5
    <2> QED
      BY <2>1, <2>2, <2>3, <2>6, <2>7
  <1>11. ASSUME NEW k \in 1..nx, NEW i \in 1..Len(Line(k)), p[k] + i > 0
         PROVE  r[p[k] + i] = Line(k)[i]
    <2>1. place[k] \in Int /\ p[k] = place[k] - 1 /\ p[k] \in Int
          /\ p[k] + Len(Line(k)) <= Len(r) /\ Len(Line(k)) \in Nat
      BY <1>5, <1>10
    <2>2. p[k] + i \in 1..Len(q) - 1 /\ (p[k] + i) + 1 = place[k] + i /\ place[k] + i > 0
      <3>1. Len(r) = Len(q) - 1 /\ Len(q) \in Nat
        BY <1>9
      <3> QED
        BY <1>11, <2>1, <3>1
    <2>3. q[place[k] + i] = Line(k)[i]
      BY <1>2, <2>2 DEF Standing
    <2> QED
      BY <1>9, <2>2, <2>3
  <1>12. p[nx + 1] = Len(r) /\ p[now] = -far /\ now # 0
    <2>1. nx + 1 \in 1..nx + 1 /\ now \in 1..nx + 1 /\ now # 0
      BY <1>1, <1>6
    <2> QED
      BY <1>4, <1>6, <1>8, <1>9, <2>1
  <1>13. Standing(r, nx, now, far, p)
    BY <1>8, <1>10, <1>11, <1>12 DEF Standing
  <1>14. Queued(r, nx, now, far)
    <2>1. now \in 0..nx
      BY <1>6
    <2> QED
      BY <1>1, <1>6, <1>9, <1>12, <1>13, <2>1 DEF Queued
  <1> QED
    BY <1>6, <1>7, <1>14 DEF now, far, r

\* An escape is inside a frame, and so is what it is the escape of.
LEMMA QueueEscape ==
  ASSUME NEW q, NEW nx, NEW on, NEW tk, Queued(q, nx, on, tk), q # <<>>, Head(q) = Esc
  PROVE  /\ on \in 1..nx /\ tk + 1 < Len(Line(on)) - 1 /\ tk \in Nat
         /\ Now(on, tk) = on /\ Far(on, tk) = tk + 1 /\ Going(on, tk)
         /\ Queued(Tail(q), nx, on, tk + 1)
  <1> DEFINE now == Now(on, tk)
             far == Far(on, tk)
  <1>1. /\ now \in 1..nx /\ far \in 1..Len(Line(now)) /\ Line(now)[far] = Esc
        /\ Queued(Tail(q), nx, now, far)
    BY QueueLess
  <1>2. now \in Sent
    BY <1>1, SentNat DEF Queued
  <1>3. far < Len(Line(now)) - 1 /\ Line(now)[1] = Flag
    BY <1>1, <1>2, LineIs
  <1>4. Going(on, tk)
    <2> SUFFICES ASSUME ~Going(on, tk) PROVE FALSE
      OBVIOUS
    <2>1. far = 1
      BY DEF Far
    <2> QED
      BY <1>1, <1>3, <2>1 DEF Esc, Flag
  <1>5. now = on /\ far = tk + 1
    BY <1>4 DEF Now, Far
  <1>6. tk \in Nat
    <2>1. IF on = 0 THEN tk = 0 ELSE tk \in 1..Len(Line(on))
      BY DEF Queued
    <2> QED
      BY <2>1
  <1> QED
    BY <1>1, <1>3, <1>4, <1>5, <1>6

LEMMA ConcatTail ==
  ASSUME NEW a \in Seq(Nat), NEW b \in Seq(Nat), a # <<>>
  PROVE  /\ a \o b # <<>> /\ a \o b \in Seq(Nat)
         /\ Head(a \o b) = Head(a) /\ Tail(a \o b) = Tail(a) \o b
         /\ Tail(a) \in Seq(Nat) /\ Len(Tail(a)) = Len(a) - 1 /\ Len(a) \in Nat
  OBVIOUS

LEMMA ConcatMove ==
  ASSUME NEW a \in Seq(Nat), NEW b \in Seq(Nat), b # <<>>
  PROVE  /\ Append(a, Head(b)) \o Tail(b) = a \o b
         /\ Append(a, Head(b)) \in Seq(Nat) /\ Tail(b) \in Seq(Nat)
         /\ Len(Append(a, Head(b))) = Len(a) + 1
  <1> DEFINE h == Head(b)
             t == Tail(b)
             m == Len(a)
             n == Len(b)
             e == Append(a, h)
             l == e \o t
             r == a \o b
  <1>1. /\ t \in Seq(Nat) /\ n \in Nat \ {0} /\ Len(t) = n - 1
        /\ h = b[1] /\ h \in Nat
        /\ \A i \in 1..n - 1 : t[i] = b[i + 1]
    BY TailNat
  <1>2. m \in Nat
    BY LenProperties
  <1> HIDE DEF h, t, n
  <1>3. /\ e \in Seq(Nat) /\ Len(e) = m + 1
        /\ \A i \in 1..m : e[i] = a[i]
        /\ e[m + 1] = h
    BY <1>1, AppendProperties
  <1>4. /\ l \in Seq(Nat) /\ Len(l) = Len(e) + Len(t)
        /\ \A i \in 1..Len(e) + Len(t) :
             l[i] = IF i <= Len(e) THEN e[i] ELSE t[i - Len(e)]
    BY <1>1, <1>3, ConcatNat
  <1>5. /\ r \in Seq(Nat) /\ Len(r) = m + n
        /\ \A i \in 1..m + n : r[i] = IF i <= m THEN a[i] ELSE b[i - m]
    BY ConcatNat DEF n
  <1> HIDE DEF e, l, r, m
  <1>6. ASSUME NEW i \in 1..m + n PROVE l[i] = r[i]
    <2>1. l[i] = IF i <= m + 1 THEN e[i] ELSE t[i - (m + 1)]
      BY <1>1, <1>2, <1>3, <1>4
    <2>2. r[i] = IF i <= m THEN a[i] ELSE b[i - m]
      BY <1>5
    <2>3. i \in Nat \ {0}
      BY <1>1, <1>2
    <2>4. CASE i <= m
      <3>1. i \in 1..m /\ i <= m + 1
        BY <2>3, <2>4, <1>2
      <3>2. e[i] = a[i]
        BY <3>1, <1>3
      <3> QED
        BY <3>1, <3>2, <2>1, <2>4, <2>2
    <2>5. CASE i = m + 1
      BY <2>1, <2>5, <1>1, <1>2, <1>3, <1>5
    <2>6. CASE i > m + 1
      <3>1. i - (m + 1) \in 1..n - 1 /\ (i - (m + 1)) + 1 = i - m
        BY <2>6, <1>1, <1>2
      <3>2. t[i - (m + 1)] = b[i - m]
        BY <3>1, <1>1
      <3>3. ~(i <= m + 1) /\ ~(i <= m)
        BY <2>6, <2>3, <1>2
      <3> QED
        BY <3>2, <3>3, <2>1, <2>2
    <2> QED
      BY <2>4, <2>5, <2>6, <1>1, <1>2
  <1>7. Len(l) = Len(r)
    BY <1>1, <1>2, <1>3, <1>4, <1>5
  <1>8. \A i \in 1..Len(l) : l[i] = r[i]
    BY <1>6, <1>7, <1>5
  <1>9. l = r
    BY <1>4, <1>5, <1>7, <1>8, SeqEqual
  <1> QED
    BY <1>9, <1>1, <1>3 DEF l, r, e, h, t, m

-----------------------------------------------------------------------------
(* The sender.                                                              *)

TxTimes ==
  sending \in BOOLEAN /\ preamble \in 0..Preamble /\ trailer \in 0..Trailer

TxInv ==
  /\ txFifo \in Seq(Nat) /\ todo \in Seq(Nat) /\ Len(txFifo) <= TxRoom
  /\ Queued(txFifo \o todo, next, onAir, took)
  /\ pc \in {"idle", "push", "start", "trail"}
  /\ pc = "idle" => todo = <<>>
  /\ pc = "push" => todo # <<>>
  /\ TxTimes

LEMMA Sizes == /\ TxRoom \in Nat \ {0} /\ RxRoom \in Nat \ {0} /\ FrameBuf \in Nat \ {0}
               /\ MinFrame \in Nat \ {0} /\ Preamble \in Nat \ {0} /\ Trailer \in Nat \ {0}
               /\ MaxNoise \in Nat
  BY ModemConstants

LEMMA Limits == /\ 0 \in 0..Preamble /\ Preamble \in 0..Preamble
                /\ 0 \in 0..Trailer /\ Trailer \in 0..Trailer
                /\ 0 <= TxRoom /\ 0 <= RxRoom /\ 0 <= FrameBuf /\ 0 \in 0..MaxNoise
  BY Sizes

LEMMA TxInit == Init => TxInv
  <1> SUFFICES ASSUME Init PROVE TxInv
    OBVIOUS
  <1> USE DEF Init
  <1>1. txFifo \in Seq(Nat) /\ todo \in Seq(Nat) /\ Len(txFifo) = 0
    OBVIOUS
  <1>2. Queued(<<>>, 0, 0, 0)
    <2> DEFINE p == [k \in 1..1 |-> 0]
    <2>1. p \in [1..1 -> Int] /\ p[1] = 0
      OBVIOUS
    <2> HIDE DEF p
    <2>2. Standing(<<>>, 0, 0, 0, p)
      BY <2>1 DEF Standing
    <2> QED
      BY <2>2, SentNat DEF Queued
  <1>3. Queued(txFifo \o todo, next, onAir, took)
    <2>1. txFifo \o todo = <<>>
      OBVIOUS
    <2> QED
      BY <1>2, <2>1
  <1>4. TxTimes /\ Len(txFifo) <= TxRoom
    BY <1>1, Limits DEF TxTimes
  <1>5. pc = "idle" /\ todo = <<>>
    OBVIOUS
  <1> QED
    BY <1>1, <1>3, <1>4, <1>5 DEF TxInv

LEMMA TxBegin == TxInv /\ Begin => TxInv'
  <1> SUFFICES ASSUME TxInv, Begin PROVE TxInv'
    OBVIOUS
  <1>1. /\ txFifo \in Seq(Nat) /\ todo = <<>> /\ next < Len(Frames)
        /\ Queued(txFifo \o todo, next, onAir, took)
    BY DEF TxInv, Begin
  <1>2. next + 1 \in Sent
    BY <1>1, SentNat DEF Queued, Sent
  <1>3. Line(next + 1) \in Seq(Nat) /\ Line(next + 1) # <<>>
    BY <1>2, LineIs
  <1>4. txFifo \o todo = txFifo
    BY <1>1
  <1>5. Queued(txFifo \o Line(next + 1), next + 1, onAir, took)
    BY <1>1, <1>4, QueueMore
  <1>6. UNCHANGED <<txFifo, onAir, took>> /\ TxTimes'
    BY DEF TxInv, TxTimes, Begin, dac, track
  <1>7. next' = next + 1 /\ todo' = Line(next + 1) /\ pc' = "push" /\ Len(txFifo) <= TxRoom
    BY DEF TxInv, Begin
  <1> QED
    BY <1>1, <1>3, <1>5, <1>6, <1>7 DEF TxInv

LEMMA TxPush == TxInv /\ Push => TxInv'
  <1> SUFFICES ASSUME TxInv, Push PROVE TxInv'
    OBVIOUS
  <1>1. txFifo \in Seq(Nat) /\ todo \in Seq(Nat) /\ todo # <<>> /\ Len(txFifo) < TxRoom
    BY DEF TxInv, Push
  <1>2. /\ Append(txFifo, Head(todo)) \o Tail(todo) = txFifo \o todo
        /\ Append(txFifo, Head(todo)) \in Seq(Nat) /\ Tail(todo) \in Seq(Nat)
        /\ Len(Append(txFifo, Head(todo))) = Len(txFifo) + 1
    BY <1>1, ConcatMove
  <1>3. Len(txFifo) + 1 <= TxRoom
    BY <1>1, Sizes
  <1>4. UNCHANGED <<next, onAir, took>> /\ TxTimes'
    BY DEF TxInv, TxTimes, Push, track
  <1>5. txFifo' = Append(txFifo, Head(todo)) /\ todo' = Tail(todo) /\ pc' = "start"
    BY DEF Push
  <1>6. Queued(txFifo \o todo, next, onAir, took)
    BY DEF TxInv
  <1> QED
    BY <1>2, <1>3, <1>4, <1>5, <1>6 DEF TxInv

\* The steps that leave the FIFO and what is to come alone.
LEMMA TxSame ==
  ASSUME TxInv, UNCHANGED <<txFifo, todo, next, onAir, took>>, TxTimes'
  PROVE  pc' = pc => TxInv'
  BY DEF TxInv

LEMMA TxStart == TxInv /\ (Start \/ SetTrailer) => TxInv'
  <1> SUFFICES ASSUME TxInv, Start \/ SetTrailer PROVE TxInv'
    OBVIOUS
  <1>1. UNCHANGED <<txFifo, todo, next, onAir, took>>
    BY DEF Start, SetTrailer, track
  <1>2. TxTimes'
    <2>1. TxTimes
      BY DEF TxInv
    <2> QED
      BY <2>1, Limits DEF TxTimes, Start, SetTrailer
  <1>3. /\ pc' \in {"idle", "push", "start", "trail"}
        /\ pc' = "idle" => todo = <<>>
        /\ pc' = "push" => todo # <<>>
    BY DEF Start, SetTrailer
  <1> QED
    BY <1>1, <1>2, <1>3 DEF TxInv

LEMMA TxFlags == TxInv /\ (Stop \/ PreambleFlag \/ TrailerFlag) => TxInv'
  <1> SUFFICES ASSUME TxInv, Stop \/ PreambleFlag \/ TrailerFlag PROVE TxInv'
    OBVIOUS
  <1>1. UNCHANGED <<txFifo, todo, next, pc, onAir, took>>
    BY DEF Stop, PreambleFlag, TrailerFlag, Underrun, writer, track
  <1>2. TxTimes'
    <2>1. TxTimes
      BY DEF TxInv
    <2>2. CASE Stop
      BY <2>1, <2>2 DEF TxTimes, Stop
    <2>3. CASE PreambleFlag
      BY <2>1, <2>3, Sizes DEF TxTimes, PreambleFlag
    <2>4. CASE TrailerFlag
      BY <2>1, <2>4, Sizes DEF TxTimes, TrailerFlag
    <2> QED
      BY <2>2, <2>3, <2>4
  <1> QED
    BY <1>1, <1>2, TxSame

\* The FIFO of the sender, when a character is taken from it.
LEMMA TxTake ==
  ASSUME TxInv, txFifo # <<>>
  PROVE  /\ Tail(txFifo) \in Seq(Nat) /\ Len(Tail(txFifo)) < TxRoom
         /\ Now(onAir, took) \in 1..next
         /\ Far(onAir, took) \in 1..Len(Line(Now(onAir, took)))
         /\ Head(txFifo) = Line(Now(onAir, took))[Far(onAir, took)]
         /\ Queued(Tail(txFifo) \o todo, next, Now(onAir, took), Far(onAir, took))
  <1>1. txFifo \in Seq(Nat) /\ todo \in Seq(Nat) /\ Len(txFifo) <= TxRoom
        /\ Queued(txFifo \o todo, next, onAir, took)
    BY DEF TxInv
  <1>2. /\ txFifo \o todo # <<>>
        /\ Head(txFifo \o todo) = Head(txFifo) /\ Tail(txFifo \o todo) = Tail(txFifo) \o todo
        /\ Tail(txFifo) \in Seq(Nat) /\ Len(Tail(txFifo)) = Len(txFifo) - 1
        /\ Len(txFifo) \in Nat
    BY <1>1, ConcatTail
  <1>3. Len(Tail(txFifo)) < TxRoom
    BY <1>1, <1>2, Sizes
  <1> QED
    BY <1>1, <1>2, <1>3, QueueLess

LEMMA TxTakeEscape ==
  ASSUME TxInv, txFifo # <<>>, Head(txFifo) = Esc
  PROVE  /\ Inside /\ onAir \in 1..next /\ took + 1 < Len(Line(onAir)) - 1 /\ took \in Nat
         /\ Tail(txFifo) \in Seq(Nat) /\ Len(Tail(txFifo)) < TxRoom
         /\ Queued(Tail(txFifo) \o todo, next, onAir, took + 1)
  <1>1. txFifo \in Seq(Nat) /\ todo \in Seq(Nat)
        /\ Queued(txFifo \o todo, next, onAir, took)
    BY DEF TxInv
  <1>2. /\ txFifo \o todo # <<>>
        /\ Head(txFifo \o todo) = Head(txFifo) /\ Tail(txFifo \o todo) = Tail(txFifo) \o todo
    BY <1>1, ConcatTail
  <1>3. Tail(txFifo) \in Seq(Nat) /\ Len(Tail(txFifo)) < TxRoom
    BY TxTake
  <1>4. /\ onAir \in 1..next /\ took + 1 < Len(Line(onAir)) - 1 /\ took \in Nat
        /\ Going(onAir, took) /\ Queued(Tail(txFifo \o todo), next, onAir, took + 1)
    BY <1>1, <1>2, QueueEscape
  <1> QED
    BY <1>2, <1>3, <1>4 DEF Inside, Going

\* The character that an escape in the FIFO is of.
LEMMA TxTakeSecond ==
  ASSUME TxInv, txFifo # <<>>, Head(txFifo) = Esc, Len(txFifo) > 1
  PROVE  /\ Tail(Tail(txFifo)) \in Seq(Nat) /\ Len(Tail(Tail(txFifo))) < TxRoom
         /\ txFifo[2] = Line(onAir)[took + 2] /\ txFifo[2] \in Nat
         /\ Queued(Tail(Tail(txFifo)) \o todo, next, onAir, took + 2)
  <1> DEFINE r == Tail(txFifo)
  <1>1. txFifo \in Seq(Nat) /\ todo \in Seq(Nat) /\ Len(txFifo) \in Nat
    BY DEF TxInv
  <1>2. /\ onAir \in 1..next /\ took + 1 < Len(Line(onAir)) - 1 /\ took \in Nat
        /\ r \in Seq(Nat) /\ Len(r) < TxRoom
        /\ Queued(r \o todo, next, onAir, took + 1)
    BY TxTakeEscape
  <1>3. Len(r) = Len(txFifo) - 1 /\ \A i \in 1..Len(txFifo) - 1 : r[i] = txFifo[i + 1]
    BY <1>1, TailNat
  <1>4. r # <<>> /\ Head(r) = txFifo[2] /\ Head(r) \in Nat
    <2>1. Len(txFifo) - 1 \in Nat /\ Len(txFifo) - 1 > 0
      BY <1>1
    <2>2. 1 \in 1..Len(txFifo) - 1 /\ Len(r) > 0
      BY <1>3, <2>1
    <2>3. r[1] = txFifo[2]
      BY <1>3, <2>2
    <2>4. r # <<>>
      BY <2>2
    <2> QED
      BY <1>2, <2>3, <2>4, TailNat
  <1> HIDE DEF r
  <1>5. /\ r \o todo # <<>>
        /\ Head(r \o todo) = Head(r) /\ Tail(r \o todo) = Tail(r) \o todo
        /\ Tail(r) \in Seq(Nat) /\ Len(Tail(r)) = Len(r) - 1 /\ Len(r) \in Nat
    BY <1>1, <1>2, <1>4, ConcatTail
  <1>6. Now(onAir, took + 1) = onAir /\ Far(onAir, took + 1) = took + 2
    <2>1. onAir > 0 /\ Len(Line(onAir)) \in Nat
      <3>1. onAir \in Sent
        BY <1>2, SentNat DEF Queued
      <3> QED
        BY <1>2, <3>1, LineIs DEF Sent
    <2>2. Going(onAir, took + 1)
      BY <1>2, <2>1 DEF Going
    <2> QED
      BY <1>2, <2>2 DEF Now, Far
  <1>7. /\ Head(r \o todo) = Line(onAir)[took + 2]
        /\ Queued(Tail(r \o todo), next, onAir, took + 2)
    <2> DEFINE q == r \o todo
               n == took + 1
    <2>1. Queued(q, next, onAir, n) /\ q # <<>>
      BY <1>2, <1>5
    <2> HIDE DEF q, n
    <2>2. /\ Head(q) = Line(Now(onAir, n))[Far(onAir, n)]
          /\ Queued(Tail(q), next, Now(onAir, n), Far(onAir, n))
      BY <2>1, QueueLess
    <2> QED
      BY <1>6, <2>2 DEF q, n
  <1>8. Len(Tail(r)) < TxRoom
    BY <1>2, <1>5, Sizes
  <1> QED
    BY <1>4, <1>5, <1>7, <1>8 DEF r

LEMMA TxPlain ==
  ASSUME TxInv, PlainChar
  PROVE  TxInv' /\ onAir' = Now(onAir, took) /\ took' = Far(onAir, took)
  <1>1. txFifo # <<>> /\ txFifo' = Tail(txFifo)
    BY DEF PlainChar
  <1>2. onAir' = Now(onAir, took) /\ took' = Far(onAir, took)
    BY DEF PlainChar, Taken, Now, Far, Inside, Going
  <1>3. UNCHANGED <<next, todo, pc>> /\ TxTimes'
    BY DEF TxInv, TxTimes, PlainChar, writer
  <1>4. /\ Tail(txFifo) \in Seq(Nat) /\ Len(Tail(txFifo)) < TxRoom
        /\ Queued(Tail(txFifo) \o todo, next, Now(onAir, took), Far(onAir, took))
    BY <1>1, TxTake
  <1>5. Len(Tail(txFifo)) <= TxRoom
    BY <1>4, Sizes
  <1> QED
    BY <1>1, <1>2, <1>3, <1>4, <1>5 DEF TxInv

LEMMA TxEscaped ==
  ASSUME TxInv, EscapedChar
  PROVE  TxInv' /\ Inside /\ onAir' = onAir /\ took' = took + 2
  <1>1. /\ txFifo # <<>> /\ Head(txFifo) = Esc /\ Len(txFifo) > 1
        /\ txFifo' = Tail(Tail(txFifo))
    BY DEF EscapedChar
  <1>2. Inside
    BY <1>1, TxTakeEscape
  <1>3. onAir' = onAir /\ took' = took + 2
    BY <1>2 DEF EscapedChar, Taken
  <1>4. UNCHANGED <<next, todo, pc>> /\ TxTimes'
    BY DEF TxInv, TxTimes, EscapedChar, writer
  <1>5. /\ Tail(Tail(txFifo)) \in Seq(Nat) /\ Len(Tail(Tail(txFifo))) < TxRoom
        /\ Queued(Tail(Tail(txFifo)) \o todo, next, onAir, took + 2)
    BY <1>1, TxTakeSecond
  <1>6. Len(Tail(Tail(txFifo))) <= TxRoom
    BY <1>5, Sizes
  <1> QED
    BY <1>1, <1>2, <1>3, <1>4, <1>5, <1>6 DEF TxInv

LEMMA TxLost ==
  ASSUME TxInv, EscapeLost
  PROVE  TxInv'
  <1>1. txFifo # <<>> /\ Head(txFifo) = Esc /\ txFifo' = Tail(txFifo)
    BY DEF EscapeLost
  <1>2. onAir' = onAir /\ took' = took + 1
    BY DEF EscapeLost
  <1>3. UNCHANGED <<next, todo, pc>> /\ TxTimes'
    BY DEF TxInv, TxTimes, EscapeLost, writer
  <1>4. /\ Tail(txFifo) \in Seq(Nat) /\ Len(Tail(txFifo)) < TxRoom
        /\ Queued(Tail(txFifo) \o todo, next, onAir, took + 1)
    BY <1>1, TxTakeEscape
  <1>5. Len(Tail(txFifo)) <= TxRoom
    BY <1>4, Sizes
  <1> QED
    BY <1>1, <1>2, <1>3, <1>4, <1>5 DEF TxInv

LEMMA TxOthers == TxInv /\ (Noise \/ Poll \/ UNCHANGED vars) => TxInv'
  <1> SUFFICES ASSUME TxInv, Noise \/ Poll \/ UNCHANGED vars PROVE TxInv'
    OBVIOUS
  <1>1. UNCHANGED <<txFifo, todo, next, pc, onAir, took, sending, preamble, trailer>>
    BY DEF Noise, Poll, vars, writer, dac, track
  <1>2. TxTimes'
    BY <1>1 DEF TxInv, TxTimes
  <1> QED
    BY <1>1, <1>2, TxSame

LEMMA TxStep == TxInv /\ [Next]_vars => TxInv'
  BY TxBegin, TxPush, TxStart, TxFlags, TxPlain, TxEscaped, TxLost, TxOthers
     DEF Next, Writer, Modulator

-----------------------------------------------------------------------------
(* What the receiver hears.                                                 *)

\* The second FIFO got longer by characters of which the last alone may be c, and the
\* others are no checksums.
Heard(c) ==
  /\ rxFifo' \in Seq(Nat) /\ Len(rxFifo') <= RxRoom /\ rxstart' \in BOOLEAN
  /\ Len(rxFifo) <= Len(rxFifo')
  /\ \A i \in 1..Len(rxFifo) : rxFifo'[i] = rxFifo[i]
  /\ \A i \in 1..Len(rxFifo') : i > Len(rxFifo) =>
       rxFifo'[i] <= 255 \/ (rxFifo'[i] = c /\ i = Len(rxFifo'))

RxTypes ==
  /\ rxFifo \in Seq(Nat) /\ Len(rxFifo) <= RxRoom /\ rxstart \in BOOLEAN
  /\ sync \in BOOLEAN /\ escape \in BOOLEAN
  /\ frame \in Seq(Nat) /\ Len(frame) <= FrameBuf
  /\ received \in Seq(Sent)

LEMMA HeardNothing ==
  ASSUME RxTypes, rxFifo' = rxFifo, rxstart' \in BOOLEAN
  PROVE  \A c : Heard(c)
  BY DEF Heard, RxTypes

LEMMA HeardMore ==
  ASSUME RxTypes, NEW u \in Seq(Nat), NEW c, rxFifo' = rxFifo \o u, rxstart' \in BOOLEAN,
         Len(rxFifo) + Len(u) <= RxRoom,
         \A i \in 1..Len(u) : u[i] <= 255 \/ (u[i] = c /\ i = Len(u))
  PROVE  Heard(c)
  <1> DEFINE a == rxFifo
             s == a \o u
  <1>1. a \in Seq(Nat) /\ Len(a) \in Nat /\ Len(u) \in Nat
    BY DEF RxTypes
  <1>2. /\ s \in Seq(Nat) /\ Len(s) = Len(a) + Len(u)
        /\ \A i \in 1..Len(a) + Len(u) : s[i] = IF i <= Len(a) THEN a[i] ELSE u[i - Len(a)]
    BY <1>1, ConcatNat
  <1> HIDE DEF a, s
  <1>3. \A i \in 1..Len(a) : s[i] = a[i]
    BY <1>1, <1>2
  <1>4. ASSUME NEW i \in 1..Len(s), i > Len(a)
        PROVE  s[i] <= 255 \/ (s[i] = c /\ i = Len(s))
    <2>1. /\ i \in 1..Len(a) + Len(u) /\ ~(i <= Len(a)) /\ i - Len(a) \in 1..Len(u)
          /\ i - Len(a) = Len(u) => i = Len(s)
      BY <1>1, <1>2, <1>4
    <2>2. s[i] = u[i - Len(a)]
      BY <1>2, <2>1
    <2> QED
      BY <2>1, <2>2
  <1>5. rxFifo' = s /\ Len(a) <= Len(s) /\ Len(s) <= RxRoom
    BY <1>1, <1>2 DEF a, s
  <1> QED
    BY <1>2, <1>3, <1>4, <1>5 DEF Heard, a

LEMMA FlagHeard ==
  ASSUME RxTypes, HearFlag
  PROVE  \A c : Heard(c)
  <1> TAKE c
  <1>1. CASE Len(rxFifo) < RxRoom
    <2>1. Append(rxFifo, Flag) = rxFifo \o <<Flag>> /\ <<Flag>> \in Seq(Nat) /\ Len(<<Flag>>) = 1
          /\ <<Flag>>[1] <= 255
      BY DEF RxTypes, Flag
    <2>2. Len(rxFifo) + Len(<<Flag>>) <= RxRoom
      BY <1>1, <2>1, Sizes DEF RxTypes
    <2>3. \A i \in 1..Len(<<Flag>>) : <<Flag>>[i] <= 255
      BY <2>1
    <2>4. rxFifo' = rxFifo \o <<Flag>> /\ rxstart' \in BOOLEAN
      BY <1>1, <2>1 DEF HearFlag
    <2> QED
      BY <2>1, <2>2, <2>3, <2>4, HeardMore
  <1>2. CASE ~(Len(rxFifo) < RxRoom)
    <2>1. rxFifo' = rxFifo /\ rxstart' \in BOOLEAN
      BY <1>2 DEF HearFlag
    <2> QED
      BY <2>1, HeardNothing
  <1> QED
    BY <1>1, <1>2

LEMMA CharHeard ==
  ASSUME RxTypes, NEW c \in Nat, HearChar(c)
  PROVE  Heard(c)
  <1>1. CASE ~rxstart
    BY <1>1, HeardNothing DEF HearChar, adc, RxTypes
  <1>2. CASE rxstart
    <2> DEFINE u == Unit(c)
               room == RxRoom - Len(rxFifo)
    <2>1. Unit(c) = u
      OBVIOUS
    <2>2. /\ u \in Seq(Nat) /\ Len(u) = Width(c) /\ Width(c) \in {1, 2}
          /\ \A i \in 1..Len(u) : u[i] <= 255 \/ (u[i] = c /\ i = Len(u))
      <3>1. CASE Special(c)
        BY <3>1 DEF Unit, Width, Esc
      <3>2. CASE ~Special(c)
        BY <3>2 DEF Unit, Width
      <3> QED
        BY <3>1, <3>2
    <2> HIDE DEF u
    <2>3. IF Len(u) <= room
          THEN rxFifo' = rxFifo \o u /\ UNCHANGED rxstart
          ELSE rxFifo' = rxFifo \o SubSeq(u, 1, room) /\ rxstart' = FALSE
      BY <1>2, <2>1 DEF HearChar, Pushed
    <2>4. room \in Nat /\ Len(rxFifo) \in Nat
      BY Sizes DEF RxTypes
    <2>5. CASE Len(u) <= room
      <3>1. Len(rxFifo) + Len(u) <= RxRoom
        BY <2>2, <2>4, <2>5, Sizes
      <3>2. rxstart' \in BOOLEAN /\ rxFifo' = rxFifo \o u
        BY <2>3, <2>5 DEF RxTypes
      <3> QED
        BY <2>2, <3>1, <3>2, HeardMore
    <2>6. CASE ~(Len(u) <= room)
      <3> DEFINE v == SubSeq(u, 1, room)
      <3>1. room \in 0..Len(u) /\ room < Len(u)
        BY <2>2, <2>4, <2>6
      <3> HIDE DEF room
      <3>2. v \in Seq(Nat) /\ Len(v) = room /\ \A i \in 1..room : v[i] = u[i]
        BY <2>2, <3>1
      <3> HIDE DEF v
      <3>3. \A i \in 1..Len(v) : v[i] <= 255
        <4>1. Len(u) \in Nat
          BY <2>2
        <4>2. \A i \in 1..room : i \in 1..Len(u) /\ i # Len(u)
          BY <3>1, <4>1
        <4> QED
          BY <2>2, <3>2, <4>2
      <3>4. Len(rxFifo) + Len(v) <= RxRoom
        BY <2>4, <3>2, Sizes DEF room
      <3>5. rxstart' \in BOOLEAN /\ rxFifo' = rxFifo \o v
        BY <2>3, <2>6 DEF v
      <3> QED
        BY <3>2, <3>3, <3>4, <3>5, HeardMore
    <2> QED
      BY <2>5, <2>6
  <1> QED
    BY <1>1, <1>2

-----------------------------------------------------------------------------
(* Every step but the poll lets the receiver hear a character or nothing.   *)

\* The interrupt goes on in its frame, or to the next.
Goes ==
  \/ onAir' = onAir /\ took' >= took
  \/ onAir' = onAir + 1

\* A checksum that is heard is that of the frame on the air.
HeardNow(c) ==
  c > 255 => /\ onAir' = onAir /\ onAir \in Sent /\ took < took'
             /\ took' = Len(Line(onAir)) - 1 /\ c = Crc(onAir)

LEMMA TxNumbers ==
  ASSUME TxInv
  PROVE  /\ onAir \in 0..next /\ next \in 0..Len(Frames) /\ took \in Nat
         /\ onAir \in Nat /\ next \in Nat /\ Len(Frames) \in Nat
         /\ onAir # 0 => onAir \in Sent /\ took \in 1..Len(Line(onAir))
         /\ onAir = 0 => took = 0
  <1>1. /\ onAir \in 0..next /\ next \in 0..Len(Frames) /\ Len(Frames) \in Nat
        /\ IF onAir = 0 THEN took = 0 ELSE took \in 1..Len(Line(onAir))
    BY SentNat DEF TxInv, Queued
  <1>2. took \in Nat
    BY <1>1
  <1>3. onAir # 0 => onAir \in Sent
    BY <1>1 DEF Sent
  <1> QED
    BY <1>1, <1>2, <1>3

LEMMA HearsStill ==
  ASSUME TxInv, RxTypes, UNCHANGED <<onAir, took>>,
         rxFifo' = rxFifo \/ HearFlag, rxstart' \in BOOLEAN
  PROVE  Goes /\ \E c : Heard(c) /\ HeardNow(c)
  <1>1. Goes
    BY TxNumbers DEF Goes
  <1>2. Heard(0)
    BY HeardNothing, FlagHeard
  <1>3. HeardNow(0)
    BY DEF HeardNow
  <1> QED
    BY <1>1, <1>2, <1>3

LEMMA HearsPlain ==
  ASSUME TxInv, RxTypes, PlainChar
  PROVE  Goes /\ \E c : Heard(c) /\ HeardNow(c)
  <1> DEFINE c == Head(txFifo)
             now == Now(onAir, took)
             far == Far(onAir, took)
  <1>1. /\ now \in 1..next /\ far \in 1..Len(Line(now)) /\ c = Line(now)[far]
        /\ onAir' = now /\ took' = far
    BY TxTake, TxPlain DEF PlainChar
  <1>2. /\ now \in Sent /\ took \in Nat /\ onAir \in Nat
        /\ Len(Line(now)) \in Nat /\ Len(Line(now)) > 2
        /\ c > 255 => far = Len(Line(now)) - 1
        /\ Line(now)[Len(Line(now)) - 1] = Crc(now)
    <2>1. now \in Sent
      BY <1>1, TxNumbers DEF Sent
    <2> QED
      BY <1>1, <2>1, LineIs, TxNumbers
  <1>3. c \in Nat
    <2>1. txFifo \in Seq(Nat) /\ txFifo # <<>>
      BY DEF TxInv, PlainChar
    <2> QED
      BY <2>1, TailNat
  <1>4. Goes
    BY <1>1, <1>2 DEF Goes, Now, Far
  <1>5. Heard(c)
    <2>1. HearFlag \/ HearReset \/ HearChar(c)
      BY DEF PlainChar
    <2>2. HearReset => Heard(c)
      BY HeardNothing DEF HearReset
    <2> QED
      BY <1>3, <2>1, <2>2, FlagHeard, CharHeard
  <1>6. HeardNow(c)
    <2> SUFFICES ASSUME c > 255 PROVE /\ onAir' = onAir /\ onAir \in Sent /\ took < took'
                                     /\ took' = Len(Line(onAir)) - 1 /\ c = Crc(onAir)
      BY DEF HeardNow
    <2>1. far = Len(Line(now)) - 1 /\ c = Crc(now) /\ far > 1
      BY <1>1, <1>2
    <2>2. now = onAir /\ far = took + 1
      BY <2>1 DEF Now, Far
    <2> QED
      BY <1>1, <1>2, <2>1, <2>2
  <1> QED
    BY <1>4, <1>5, <1>6

LEMMA HearsEscaped ==
  ASSUME TxInv, RxTypes, EscapedChar
  PROVE  Goes /\ \E c : Heard(c) /\ HeardNow(c)
  <1> DEFINE c == txFifo[2]
  <1>1. onAir' = onAir /\ took' = took + 2
    BY TxEscaped
  <1>2. /\ onAir \in 1..next /\ took + 1 < Len(Line(onAir)) - 1 /\ took \in Nat
        /\ c = Line(onAir)[took + 2] /\ c \in Nat
    BY TxTakeEscape, TxTakeSecond DEF EscapedChar
  <1>3. onAir \in Sent
    BY <1>2, TxNumbers DEF Sent
  <1>4. /\ Len(Line(onAir)) \in Nat /\ took + 2 \in 1..Len(Line(onAir))
        /\ c > 255 => took + 2 = Len(Line(onAir)) - 1
        /\ Line(onAir)[Len(Line(onAir)) - 1] = Crc(onAir)
    <2>1. Len(Line(onAir)) \in Nat
      BY <1>3, LineIs
    <2>2. took + 2 \in 1..Len(Line(onAir))
      BY <1>2, <2>1
    <2> QED
      BY <1>2, <1>3, <2>1, <2>2, LineIs
  <1>5. Goes
    BY <1>1, <1>2 DEF Goes
  <1>6. Heard(c)
    BY <1>2, CharHeard DEF EscapedChar
  <1>7. HeardNow(c)
    BY <1>1, <1>2, <1>3, <1>4 DEF HeardNow
  <1> QED
    BY <1>5, <1>6, <1>7

LEMMA HearsNoise ==
  ASSUME TxInv, RxTypes, Noise
  PROVE  Goes /\ \E c : Heard(c) /\ HeardNow(c)
  <1>1. UNCHANGED <<onAir, took>>
    BY DEF Noise
  <1>2. CASE HearFlag
    <2>1. rxstart' \in BOOLEAN
      BY <1>2, FlagHeard DEF Heard
    <2> QED
      BY <1>1, <1>2, <2>1, HearsStill
  <1>3. ASSUME NEW c \in {0, Flag, Esc}, HearChar(c)
        PROVE  Goes /\ Heard(c) /\ HeardNow(c)
    <2>1. c \in Nat /\ ~(c > 255)
      BY DEF Flag, Esc
    <2> QED
      BY <1>1, <1>3, <2>1, CharHeard, TxNumbers DEF Goes, HeardNow
  <1>4. CASE rxstart' = FALSE /\ UNCHANGED <<rxFifo, hit>>
    BY <1>1, <1>4, HearsStill
  <1> QED
    BY <1>2, <1>3, <1>4 DEF Noise, HearReset

LEMMA Hears ==
  ASSUME TxInv, RxTypes, Writer \/ Modulator \/ Noise \/ UNCHANGED vars
  PROVE  UNCHANGED ctx /\ Goes /\ \E c : Heard(c) /\ HeardNow(c)
  <1>1. CASE Writer \/ UNCHANGED vars
    BY <1>1, HearsStill DEF Writer, Begin, Push, Start, SetTrailer, vars, adc, track, RxTypes
  <1>2. CASE Stop
    BY <1>2, HearsStill DEF Stop, Underrun, adc, RxTypes
  <1>3. CASE PreambleFlag \/ TrailerFlag
    <2>1. HearFlag /\ UNCHANGED <<onAir, took>> /\ UNCHANGED ctx
      BY <1>3 DEF PreambleFlag, TrailerFlag, track
    <2>2. rxstart' \in BOOLEAN
      BY <2>1, FlagHeard DEF Heard
    <2> QED
      BY <2>1, <2>2, HearsStill
  <1>4. CASE EscapeLost
    <2>1. UNCHANGED ctx /\ UNCHANGED adc /\ Goes
      BY <1>4, TxNumbers DEF EscapeLost, Goes
    <2>2. Heard(0) /\ HeardNow(0)
      BY <2>1, HeardNothing DEF adc, HeardNow, RxTypes
    <2> QED
      BY <2>1, <2>2
  <1>5. CASE EscapedChar
    BY <1>5, HearsEscaped DEF EscapedChar
  <1>6. CASE PlainChar
    BY <1>6, HearsPlain DEF PlainChar
  <1>7. CASE Noise
    BY <1>7, HearsNoise DEF Noise
  <1> QED
    BY <1>1, <1>2, <1>3, <1>4, <1>5, <1>6, <1>7 DEF Modulator

-----------------------------------------------------------------------------
(* The checksums on the side of the receiver: each is below the next, from  *)
(* the calls of the hook over the buffer to the FIFO, and none is that of a *)
(* frame whose checksum has not been taken.                                 *)

Reached(x, on, tk) ==
  \/ x < Crc(on)
  \/ x = Crc(on) /\ on \in Sent /\ tk >= Len(Line(on)) - 1

Rising(s) == \A i, j \in 1..Len(s) : i < j /\ s[i] > 255 /\ s[j] > 255 => s[i] < s[j]

Above(s) == \A i \in 1..Len(received) : \A j \in 1..Len(s) : s[j] > 255 => Crc(received[i]) < s[j]

OrderInv ==
  /\ InOrder
  /\ Rising(frame) /\ Rising(rxFifo)
  /\ \A i \in 1..Len(frame) : \A j \in 1..Len(rxFifo) :
       frame[i] > 255 /\ rxFifo[j] > 255 => frame[i] < rxFifo[j]
  /\ Above(frame) /\ Above(rxFifo)
  /\ \A i \in 1..Len(received) : Reached(Crc(received[i]), onAir, took)
  /\ \A i \in 1..Len(frame) : frame[i] > 255 => Reached(frame[i], onAir, took)
  /\ \A i \in 1..Len(rxFifo) : rxFifo[i] > 255 => Reached(rxFifo[i], onAir, took)

\* What is heard now is reached.
LEMMA ReachedNow ==
  ASSUME NEW c, HeardNow(c), c > 255
  PROVE  Reached(c, onAir', took')
  <1>1. /\ onAir' = onAir /\ onAir \in Sent
        /\ took' = Len(Line(onAir)) - 1 /\ c = Crc(onAir)
    BY DEF HeardNow
  <1>2. took' >= Len(Line(onAir')) - 1
    BY <1>1, LineIs
  <1> QED
    BY <1>1, <1>2 DEF Reached

\* What was reached is reached, and is below a checksum that is heard now.
LEMMA ReachedOn ==
  ASSUME TxInv, TxInv', Goes, NEW c, HeardNow(c), NEW x \in Nat, Reached(x, onAir, took)
  PROVE  /\ Reached(x, onAir', took')
         /\ c > 255 => x < c
  <1>1. onAir \in Nat /\ took \in Nat /\ (onAir # 0 => onAir \in Sent)
    BY TxNumbers
  <1>2. took' \in Nat
    <2>1. Queued((txFifo \o todo)', next', onAir', took')
      BY DEF TxInv
    <2>2. IF onAir' = 0 THEN took' = 0 ELSE took' \in 1..Len(Line(onAir'))
      BY <2>1 DEF Queued
    <2> QED
      BY <2>2
  <1>3. x < Crc(onAir) \/ (x = Crc(onAir) /\ onAir \in Sent /\ took >= Len(Line(onAir)) - 1)
    BY DEF Reached
  <1>4. Reached(x, onAir', took')
    <2>1. CASE onAir' = onAir /\ took' >= took
      <3>1. onAir \in Sent => Len(Line(onAir)) \in Nat
        BY LineIs
      <3>2. took >= Len(Line(onAir)) - 1 /\ onAir \in Sent => took' >= Len(Line(onAir)) - 1
        BY <1>1, <1>2, <2>1, <3>1
      <3> QED
        BY <1>3, <2>1, <3>2 DEF Reached
    <2>2. CASE onAir' = onAir + 1
      <3>1. x < Crc(onAir')
        BY <1>1, <1>3, <2>2 DEF Crc
      <3> QED
        BY <3>1 DEF Reached
    <2> QED
      BY <2>1, <2>2 DEF Goes
  <1>5. ASSUME c > 255 PROVE x < c
    <2>1. /\ onAir' = onAir /\ onAir \in Sent /\ took < took'
          /\ took' = Len(Line(onAir)) - 1 /\ c = Crc(onAir)
      BY <1>5 DEF HeardNow
    <2>2. ~(took >= Len(Line(onAir)) - 1)
      BY <1>1, <1>2, <2>1
    <2> QED
      BY <1>3, <2>1, <2>2
  <1> QED
    BY <1>4, <1>5

LEMMA RxHears ==
  ASSUME RxTypes, UNCHANGED ctx, NEW c, Heard(c)
  PROVE  RxTypes'
  BY DEF RxTypes, Heard, ctx

\* Everything on the side of the receiver, and what is heard behind it.
LEMMA OrderHears ==
  ASSUME TxInv, TxInv', RxTypes, OrderInv, UNCHANGED ctx, Goes, NEW c, Heard(c), HeardNow(c)
  PROVE  OrderInv'
  <1>1. UNCHANGED <<frame, received>>
    BY DEF ctx
  <1>2. /\ frame \in Seq(Nat) /\ rxFifo \in Seq(Nat) /\ received \in Seq(Sent)
        /\ rxFifo' \in Seq(Nat)
    BY DEF RxTypes, Heard
  <1>3. /\ \A i \in 1..Len(frame) : frame[i] \in Nat
        /\ \A i \in 1..Len(rxFifo) : rxFifo[i] \in Nat
        /\ \A i \in 1..Len(rxFifo') : rxFifo'[i] \in Nat
        /\ \A i \in 1..Len(received) : Crc(received[i]) \in Nat
        /\ Len(rxFifo) \in Nat /\ Len(rxFifo') \in Nat /\ Len(rxFifo) <= Len(rxFifo')
    <2>1. \A k \in Sent : Crc(k) \in Nat
      BY ContentIs
    <2>2. \A i \in 1..Len(received) : received[i] \in Sent
      BY <1>2
    <2>3. Len(rxFifo) <= Len(rxFifo')
      BY DEF Heard
    <2> QED
      BY <1>2, <2>1, <2>2, <2>3
  \* A character of the FIFO was there, or is what is heard, or is no checksum.
  <1>4. ASSUME NEW j \in 1..Len(rxFifo'), rxFifo'[j] > 255
        PROVE  \/ j \in 1..Len(rxFifo) /\ rxFifo'[j] = rxFifo[j]
               \/ c > 255 /\ rxFifo'[j] = c /\ j = Len(rxFifo') /\ ~(j \in 1..Len(rxFifo))
    <2>1. CASE j \in 1..Len(rxFifo)
      BY <2>1 DEF Heard
    <2>2. CASE ~(j \in 1..Len(rxFifo))
      <3>1. j > Len(rxFifo)
        BY <1>3, <2>2
      <3>2. rxFifo'[j] <= 255 \/ (rxFifo'[j] = c /\ j = Len(rxFifo'))
        BY <3>1 DEF Heard
      <3>3. ~(rxFifo'[j] <= 255)
        BY <1>3, <1>4
      <3> QED
        BY <1>4, <2>2, <3>2, <3>3
    <2> QED
      BY <2>1, <2>2
  <1>5. \A x \in Nat : Reached(x, onAir, took) => Reached(x, onAir', took') /\ (c > 255 => x < c)
    BY ReachedOn
  <1>6. c > 255 => Reached(c, onAir', took')
    BY ReachedNow
  <1>7. /\ \A i \in 1..Len(received) : Reached(Crc(received[i]), onAir, took)
        /\ \A i \in 1..Len(frame) : frame[i] > 255 => Reached(frame[i], onAir, took)
        /\ \A i \in 1..Len(rxFifo) : rxFifo[i] > 255 => Reached(rxFifo[i], onAir, took)
    BY DEF OrderInv
  <1>8. Rising(rxFifo')
    <2> SUFFICES ASSUME NEW i \in 1..Len(rxFifo'), NEW j \in 1..Len(rxFifo'), i < j,
                        rxFifo'[i] > 255, rxFifo'[j] > 255
                 PROVE  rxFifo'[i] < rxFifo'[j]
      BY DEF Rising
    <2>1. i \in 1..Len(rxFifo) /\ rxFifo'[i] = rxFifo[i]
      <3>1. i # Len(rxFifo')
        BY <1>3
      <3> QED
        BY <1>4, <3>1
    <2>2. CASE j \in 1..Len(rxFifo) /\ rxFifo'[j] = rxFifo[j]
      <3>1. Rising(rxFifo)
        BY DEF OrderInv
      <3> QED
        BY <2>1, <2>2, <3>1 DEF Rising
    <2>3. CASE c > 255 /\ rxFifo'[j] = c
      BY <1>3, <1>5, <1>7, <2>1, <2>3
    <2> QED
      BY <1>4, <2>2, <2>3
  <1>9. ASSUME NEW i \in 1..Len(frame), NEW j \in 1..Len(rxFifo'),
               frame[i] > 255, rxFifo'[j] > 255
        PROVE  frame[i] < rxFifo'[j]
    <2>1. CASE j \in 1..Len(rxFifo) /\ rxFifo'[j] = rxFifo[j]
      BY <1>9, <2>1 DEF OrderInv
    <2>2. CASE c > 255 /\ rxFifo'[j] = c
      BY <1>3, <1>5, <1>7, <1>9, <2>2
    <2> QED
      BY <1>4, <1>9, <2>1, <2>2
  <1>10. ASSUME NEW i \in 1..Len(received), NEW j \in 1..Len(rxFifo'), rxFifo'[j] > 255
         PROVE  Crc(received[i]) < rxFifo'[j]
    <2>1. CASE j \in 1..Len(rxFifo) /\ rxFifo'[j] = rxFifo[j]
      BY <1>10, <2>1 DEF OrderInv, Above
    <2>2. CASE c > 255 /\ rxFifo'[j] = c
      BY <1>3, <1>5, <1>7, <2>2
    <2> QED
      BY <1>4, <1>10, <2>1, <2>2
  <1>11. ASSUME NEW j \in 1..Len(rxFifo'), rxFifo'[j] > 255
         PROVE  Reached(rxFifo'[j], onAir', took')
    <2>1. CASE j \in 1..Len(rxFifo) /\ rxFifo'[j] = rxFifo[j]
      <3>1. Reached(rxFifo[j], onAir', took')
        BY <1>3, <1>5, <1>7, <1>11, <2>1
      <3> QED
        BY <2>1, <3>1 DEF Reached
    <2>2. CASE c > 255 /\ rxFifo'[j] = c
      BY <1>6, <2>2 DEF Reached
    <2> QED
      BY <1>4, <1>11, <2>1, <2>2
  <1>12. /\ \A i \in 1..Len(received) : Reached(Crc(received[i]), onAir', took')
         /\ \A i \in 1..Len(frame) : frame[i] > 255 => Reached(frame[i], onAir', took')
    BY <1>3, <1>5, <1>7
  <1>13. /\ \A i \in 1..Len(received) : Reached(Crc(received[i]), onAir, took)'
         /\ \A i \in 1..Len(frame)' : (frame[i] > 255 => Reached(frame[i], onAir, took))'
         /\ \A i \in 1..Len(rxFifo') : (rxFifo[i] > 255 => Reached(rxFifo[i], onAir, took))'
    BY <1>1, <1>11, <1>12
  <1>14. (Above(frame) /\ Rising(frame) /\ InOrder)'
    BY <1>1 DEF OrderInv, Above, Rising, InOrder
  <1>15. Above(rxFifo)'
    BY <1>1, <1>10 DEF Above
  <1> QED
    BY <1>1, <1>8, <1>9, <1>13, <1>14, <1>15 DEF OrderInv

-----------------------------------------------------------------------------
(* The poll.                                                                *)

\* The frame that the hook is called for.
LEMMA CorrectIs ==
  ASSUME Correct
  PROVE  \E k \in Sent : /\ k = CHOOSE j \in Sent : frame = Append(Frames[j], Crc(j))
                         /\ frame = Content(k)
  BY DEF Correct, Content

LEMMA AppendNat ==
  ASSUME NEW T, NEW s \in Seq(T), NEW x \in T
  PROVE  /\ Append(s, x) \in Seq(T) /\ Len(Append(s, x)) = Len(s) + 1 /\ Len(s) \in Nat
         /\ \A i \in 1..Len(s) : Append(s, x)[i] = s[i]
         /\ Append(s, x)[Len(s) + 1] = x
  OBVIOUS

LEMMA RxPoll ==
  ASSUME RxTypes, Poll
  PROVE  RxTypes'
  <1>1. /\ rxFifo \in Seq(Nat) /\ rxFifo # <<>> /\ rxFifo' = Tail(rxFifo)
        /\ Len(rxFifo) <= RxRoom /\ UNCHANGED rxstart
    BY DEF RxTypes, Poll
  <1> DEFINE c == Head(rxFifo)
  <1>2. /\ Tail(rxFifo) \in Seq(Nat) /\ Len(rxFifo) \in Nat \ {0}
        /\ Len(Tail(rxFifo)) = Len(rxFifo) - 1 /\ c \in Nat
    BY <1>1, TailNat
  <1>3. Len(Tail(rxFifo)) <= RxRoom
    BY <1>1, <1>2, Sizes
  <1> HIDE DEF c
  <1>4. \/ PollFlag
        \/ PollEscape
        \/ PollChar(c)
    BY DEF Poll, c
  <1>5. /\ sync \in BOOLEAN /\ escape \in BOOLEAN /\ rxstart \in BOOLEAN
        /\ frame \in Seq(Nat) /\ Len(frame) <= FrameBuf /\ received \in Seq(Sent)
    BY DEF RxTypes
  <1>6. CASE PollFlag
    <2>1. received' \in Seq(Sent)
      <3>1. CASE Correct
        <4>1. PICK k \in Sent : k = CHOOSE j \in Sent : frame = Append(Frames[j], Crc(j))
          BY <3>1, CorrectIs
        <4>2. received' = Append(received, k)
          BY <1>6, <3>1, <4>1 DEF PollFlag
        <4> QED
          BY <1>5, <4>2, AppendNat
      <3>2. CASE ~Correct
        BY <1>5, <1>6, <3>2 DEF PollFlag
      <3> QED
        BY <3>1, <3>2
    <2>2. frame' \in Seq(Nat) /\ Len(frame') <= FrameBuf /\ sync' \in BOOLEAN /\ escape' = escape
      BY <1>6, Limits DEF PollFlag
    <2> QED
      BY <1>1, <1>2, <1>3, <1>5, <2>1, <2>2 DEF RxTypes
  <1>7. CASE PollEscape
    BY <1>1, <1>2, <1>3, <1>5, <1>7 DEF RxTypes, PollEscape
  <1>8. CASE PollChar(c)
    <2>1. frame' \in Seq(Nat) /\ Len(frame') <= FrameBuf
      <3>1. CASE sync /\ Len(frame) < FrameBuf /\ (escape \/ c # Reset)
        <4>1. frame' = Append(frame, c)
          BY <1>8, <3>1 DEF PollChar
        <4>2. Append(frame, c) \in Seq(Nat) /\ Len(Append(frame, c)) = Len(frame) + 1
              /\ Len(frame) \in Nat
          BY <1>2, <1>5, AppendNat
        <4> QED
          BY <3>1, <4>1, <4>2, Sizes
      <3>2. CASE ~(sync /\ Len(frame) < FrameBuf /\ (escape \/ c # Reset))
        BY <1>5, <1>8, <3>2 DEF PollChar
      <3> QED
        BY <3>1, <3>2
    <2>2. sync' \in BOOLEAN /\ escape' \in BOOLEAN /\ received' = received
      BY <1>5, <1>8 DEF PollChar
    <2> QED
      BY <1>1, <1>2, <1>3, <1>5, <2>1, <2>2 DEF RxTypes
  <1> QED
    BY <1>4, <1>6, <1>7, <1>8

\* What a poll leaves in the FIFO was there, and is above what it takes out.
LEMMA OrderTail ==
  ASSUME RxTypes, OrderInv, Poll
  PROVE  /\ Rising(rxFifo') /\ Above(Tail(rxFifo)) /\ rxFifo' = Tail(rxFifo)
         /\ \A i \in 1..Len(rxFifo') : rxFifo'[i] \in Nat
         /\ \A i \in 1..Len(rxFifo') : rxFifo'[i] > 255 => Reached(rxFifo'[i], onAir, took)
         /\ \A i \in 1..Len(frame) : \A j \in 1..Len(rxFifo') :
              frame[i] > 255 /\ rxFifo'[j] > 255 => frame[i] < rxFifo'[j]
         /\ \A j \in 1..Len(rxFifo') :
              Head(rxFifo) > 255 /\ rxFifo'[j] > 255 => Head(rxFifo) < rxFifo'[j]
         /\ \A i \in 1..Len(received) : Head(rxFifo) > 255 => Crc(received[i]) < Head(rxFifo)
         /\ \A i \in 1..Len(frame) :
              frame[i] > 255 /\ Head(rxFifo) > 255 => frame[i] < Head(rxFifo)
         /\ Head(rxFifo) \in Nat
         /\ Head(rxFifo) > 255 => Reached(Head(rxFifo), onAir, took)
  <1> DEFINE s == rxFifo
             t == Tail(rxFifo)
  <1>1. s \in Seq(Nat) /\ s # <<>> /\ rxFifo' = t
    BY DEF RxTypes, Poll
  <1>2. /\ t \in Seq(Nat) /\ Len(s) \in Nat \ {0} /\ Len(t) = Len(s) - 1
        /\ Head(s) = s[1] /\ Head(s) \in Nat
        /\ \A i \in 1..Len(s) - 1 : t[i] = s[i + 1]
    BY <1>1, TailNat
  <1>3. \A i \in 1..Len(t) : t[i] \in Nat
    BY <1>2
  <1>4. 1 \in 1..Len(s) /\ \A i \in 1..Len(t) : i + 1 \in 1..Len(s) /\ t[i] = s[i + 1] /\ 1 < i + 1
    BY <1>2
  <1>5. /\ Rising(s) /\ Above(s)
        /\ \A i \in 1..Len(frame) : \A j \in 1..Len(s) : frame[i] > 255 /\ s[j] > 255 => frame[i] < s[j]
        /\ \A i \in 1..Len(s) : s[i] > 255 => Reached(s[i], onAir, took)
    BY DEF OrderInv
  <1> HIDE DEF s, t
  <1>6. Rising(t)
    <2> SUFFICES ASSUME NEW i \in 1..Len(t), NEW j \in 1..Len(t), i < j, t[i] > 255, t[j] > 255
                 PROVE  t[i] < t[j]
      BY DEF Rising
    <2>1. i + 1 < j + 1
      OBVIOUS
    <2> QED
      BY <1>4, <1>5, <2>1 DEF Rising
  <1>7. Above(t)
    BY <1>4, <1>5 DEF Above
  <1>8. /\ \A i \in 1..Len(t) : t[i] > 255 => Reached(t[i], onAir, took)
        /\ \A i \in 1..Len(frame) : \A j \in 1..Len(t) :
              frame[i] > 255 /\ t[j] > 255 => frame[i] < t[j]
    <2>1. ASSUME NEW i \in 1..Len(t), t[i] > 255 PROVE Reached(t[i], onAir, took)
      BY <1>4, <1>5, <2>1
    <2>2. ASSUME NEW i \in 1..Len(frame), NEW j \in 1..Len(t), frame[i] > 255, t[j] > 255
          PROVE  frame[i] < t[j]
      BY <1>4, <1>5, <2>2
    <2> QED
      BY <2>1, <2>2
  <1>9. \A j \in 1..Len(t) : s[1] > 255 /\ t[j] > 255 => s[1] < t[j]
    BY <1>4, <1>5 DEF Rising
  <1>10. /\ \A i \in 1..Len(received) : s[1] > 255 => Crc(received[i]) < s[1]
         /\ \A i \in 1..Len(frame) : frame[i] > 255 /\ s[1] > 255 => frame[i] < s[1]
         /\ s[1] > 255 => Reached(s[1], onAir, took)
    BY <1>4, <1>5 DEF Above
  <1> QED
    BY <1>1, <1>2, <1>3, <1>6, <1>7, <1>8, <1>9, <1>10 DEF s, t

\* At a flag the buffer is emptied, and its checksum goes to the hook.
LEMMA OrderFlag ==
  ASSUME RxTypes, RxTypes', OrderInv, Poll, PollFlag
  PROVE  OrderInv'
  <1> DEFINE t == rxFifo'
  <1>1. /\ Rising(t) /\ Above(Tail(rxFifo)) /\ t = Tail(rxFifo)
        /\ \A i \in 1..Len(t) : t[i] > 255 => Reached(t[i], onAir, took)
        /\ \A i \in 1..Len(frame) : \A j \in 1..Len(t) :
             frame[i] > 255 /\ t[j] > 255 => frame[i] < t[j]
    BY OrderTail
  <1>2. UNCHANGED <<onAir, took>> /\ frame' = <<>>
    BY DEF Poll, PollFlag, track
  <1> HIDE DEF t
  <1>3. /\ InOrder /\ Above(frame)
        /\ \A i \in 1..Len(received) : Reached(Crc(received[i]), onAir, took)
        /\ \A i \in 1..Len(frame) : frame[i] > 255 => Reached(frame[i], onAir, took)
    BY DEF OrderInv
  <1>4. /\ \A i, j \in 1..Len(received') : i < j => received'[i] < received'[j]
        /\ \A i \in 1..Len(received') : \A j \in 1..Len(t) : t[j] > 255 => Crc(received'[i]) < t[j]
        /\ \A i \in 1..Len(received') : Reached(Crc(received'[i]), onAir, took)
    <2>1. CASE Correct
      <3>1. PICK k \in Sent : /\ k = CHOOSE j \in Sent : frame = Append(Frames[j], Crc(j))
                              /\ frame = Content(k)
        BY <2>1, CorrectIs
      <3> DEFINE n == Len(frame)
      <3>2. k \in Nat /\ n \in 1..n /\ frame[n] = Crc(k) /\ frame[n] > 255 /\ Crc(k) \in Nat
        <4>1. /\ k \in Nat /\ Crc(k) \in Nat /\ Crc(k) > 255
              /\ Len(Content(k)) \in MinFrame..FrameBuf
              /\ Content(k)[Len(Content(k))] = Crc(k)
          BY ContentIs
        <4>2. Len(Content(k)) \in 1..Len(Content(k))
          BY <4>1, Sizes
        <4> QED
          BY <3>1, <4>1, <4>2
      <3> HIDE DEF n
      <3>3. received \in Seq(Sent) /\ received' = Append(received, k)
        BY <2>1, <3>1 DEF RxTypes, PollFlag
      <3> DEFINE m == Len(received)
                 r == received'
      <3>4. /\ Len(r) = m + 1 /\ m \in Nat /\ r[m + 1] = k
            /\ \A i \in 1..m : r[i] = received[i]
        BY <3>3, AppendNat
      <3>5. \A i \in 1..m : received[i] \in Nat /\ Crc(received[i]) \in Nat
        <4>1. \A i \in 1..m : received[i] \in Sent
          BY <3>3
        <4> QED
          BY <4>1, ContentIs
      <3> HIDE DEF m, r
      <3>6. \A i \in 1..m : received[i] < k
        <4>1. \A i \in 1..m : Crc(received[i]) < Crc(k)
          BY <1>3, <3>2 DEF Above, m, n
        <4> QED
          BY <3>2, <3>5, <4>1 DEF Crc
      <3>7. ASSUME NEW i \in 1..m + 1, NEW j \in 1..m + 1, i < j PROVE r[i] < r[j]
        <4>1. i \in 1..m /\ (j \in 1..m \/ j = m + 1)
          BY <3>4, <3>7
        <4>2. CASE j \in 1..m
          <5>1. received[i] < received[j]
            BY <1>3, <3>7, <4>1, <4>2 DEF InOrder, m
          <5> QED
            BY <3>4, <4>1, <4>2, <5>1
        <4>3. CASE j = m + 1
          BY <3>4, <3>6, <4>1, <4>3
        <4> QED
          BY <4>1, <4>2, <4>3
      <3>8. ASSUME NEW i \in 1..m + 1
            PROVE  /\ Reached(Crc(r[i]), onAir, took)
                   /\ \A j \in 1..Len(t) : t[j] > 255 => Crc(r[i]) < t[j]
        <4>1. CASE i \in 1..m
          <5>1. r[i] = received[i]
            BY <3>4, <4>1
          <5> QED
            BY <1>1, <1>3, <4>1, <5>1 DEF Above, m
        <4>2. CASE i = m + 1
          <5>1. Crc(r[i]) = frame[n]
            BY <3>2, <3>4, <4>2
          <5>2. n \in 1..Len(frame) /\ frame[n] > 255
            BY <3>2 DEF n
          <5> QED
            BY <1>1, <1>3, <5>1, <5>2
        <4> QED
          BY <3>4, <4>1, <4>2
      <3> QED
        BY <3>4, <3>7, <3>8 DEF r
    <2>2. CASE ~Correct
      <3>1. received' = received
        BY <2>2 DEF PollFlag
      <3> QED
        BY <1>1, <1>3, <3>1 DEF InOrder, Above
    <2> QED
      BY <2>1, <2>2
  <1>5. InOrder' /\ Above(rxFifo)'
    BY <1>4 DEF InOrder, Above, t
  <1>6. Rising(frame)' /\ Above(frame)' /\ Rising(rxFifo)' /\ Len(frame') = 0
    BY <1>1, <1>2 DEF Rising, Above, t
  <1> QED
    BY <1>1, <1>2, <1>4, <1>5, <1>6 DEF OrderInv, t

LEMMA OrderChar ==
  ASSUME RxTypes, OrderInv, Poll, PollChar(Head(rxFifo)) \/ PollEscape
  PROVE  OrderInv'
  <1> DEFINE t == rxFifo'
             c == Head(rxFifo)
  <1>1. /\ Rising(t) /\ Above(Tail(rxFifo)) /\ t = Tail(rxFifo)
        /\ \A i \in 1..Len(t) : t[i] > 255 => Reached(t[i], onAir, took)
        /\ \A i \in 1..Len(frame) : \A j \in 1..Len(t) :
             frame[i] > 255 /\ t[j] > 255 => frame[i] < t[j]
        /\ \A j \in 1..Len(t) : c > 255 /\ t[j] > 255 => c < t[j]
        /\ \A i \in 1..Len(received) : c > 255 => Crc(received[i]) < c
        /\ \A i \in 1..Len(frame) : frame[i] > 255 /\ c > 255 => frame[i] < c
        /\ c \in Nat
        /\ c > 255 => Reached(c, onAir, took)
    BY OrderTail
  <1>2. UNCHANGED <<onAir, took, received>>
    BY DEF Poll, PollChar, PollEscape, track
  <1>3. frame' = frame \/ frame' = Append(frame, c)
    BY DEF PollChar, PollEscape
  <1> HIDE DEF t, c
  <1>4. /\ InOrder /\ Above(frame) /\ Rising(frame)
        /\ \A i \in 1..Len(received) : Reached(Crc(received[i]), onAir, took)
        /\ \A i \in 1..Len(frame) : frame[i] > 255 => Reached(frame[i], onAir, took)
    BY DEF OrderInv
  <1> DEFINE f == frame'
  <1>5. /\ \A i, j \in 1..Len(f) : i < j /\ f[i] > 255 /\ f[j] > 255 => f[i] < f[j]
        /\ \A i \in 1..Len(f) : \A j \in 1..Len(t) : f[i] > 255 /\ t[j] > 255 => f[i] < t[j]
        /\ \A i \in 1..Len(received) : \A j \in 1..Len(f) : f[j] > 255 => Crc(received[i]) < f[j]
        /\ \A i \in 1..Len(f) : f[i] > 255 => Reached(f[i], onAir, took)
    <2>1. CASE f = frame
      BY <1>1, <1>4, <2>1 DEF Rising, Above
    <2>2. CASE f = Append(frame, c)
      <3> DEFINE n == Len(frame)
      <3>1. /\ Len(f) = n + 1 /\ n \in Nat /\ f[n + 1] = c
            /\ \A i \in 1..n : f[i] = frame[i]
        <4>1. frame \in Seq(Nat)
          BY DEF RxTypes
        <4> QED
          BY <1>1, <2>2, <4>1, AppendNat
      <3> HIDE DEF n, f
      <3>2. \A i \in 1..n + 1 : i \in 1..n \/ i = n + 1
        BY <3>1
      <3>3. ASSUME NEW i \in 1..n + 1, NEW j \in 1..n + 1, i < j, f[i] > 255, f[j] > 255
            PROVE  f[i] < f[j]
        <4>1. i \in 1..n /\ f[i] = frame[i]
          BY <3>1, <3>3
        <4>2. CASE j \in 1..n
          BY <1>4, <3>1, <3>3, <4>1, <4>2 DEF Rising, n
        <4>3. CASE j = n + 1
          BY <1>1, <3>1, <3>3, <4>1, <4>3 DEF n
        <4> QED
          BY <3>2, <4>2, <4>3
      <3>4. ASSUME NEW i \in 1..n + 1, f[i] > 255
            PROVE  /\ \A j \in 1..Len(t) : t[j] > 255 => f[i] < t[j]
                   /\ \A j \in 1..Len(received) : Crc(received[j]) < f[i]
                   /\ Reached(f[i], onAir, took)
        <4>1. CASE i \in 1..n
          BY <1>1, <1>4, <3>1, <3>4, <4>1 DEF Above, n
        <4>2. CASE i = n + 1
          BY <1>1, <3>1, <3>4, <4>2
        <4> QED
          BY <3>2, <4>1, <4>2
      <3> QED
        BY <3>1, <3>3, <3>4
    <2> QED
      BY <1>3, <2>1, <2>2
  <1>6. InOrder' /\ Above(rxFifo)'
    BY <1>1, <1>2, <1>4 DEF InOrder, Above, t
  <1>7. Rising(frame)' /\ Above(frame)' /\ Rising(rxFifo)'
    BY <1>1, <1>2, <1>5 DEF Rising, Above, t
  <1>8. \A i \in 1..Len(received') : Reached(Crc(received'[i]), onAir', took')
    BY <1>2, <1>4
  <1> QED
    BY <1>1, <1>2, <1>5, <1>6, <1>7, <1>8 DEF OrderInv, t

-----------------------------------------------------------------------------
(* The invariant.                                                           *)

\* What the sender and the receiver are counted by.
Counts == noise \in 0..MaxNoise /\ hit \subseteq 0..Len(Frames) + 1

ModemInv == TxInv /\ RxTypes /\ OrderInv /\ Counts

LEMMA ModemInit == Init => ModemInv
  <1> SUFFICES ASSUME Init PROVE ModemInv
    OBVIOUS
  <1>1. TxInv
    BY TxInit
  <1>2. rxFifo = <<>> /\ frame = <<>> /\ received = <<>>
    BY DEF Init
  <1>3. RxTypes
    <2>1. <<>> \in Seq(Nat) /\ <<>> \in Seq(Sent) /\ Len(<<>>) = 0
      OBVIOUS
    <2>2. rxstart \in BOOLEAN /\ sync \in BOOLEAN /\ escape \in BOOLEAN
      BY DEF Init
    <2>3. Len(<<>>) <= RxRoom /\ Len(<<>>) <= FrameBuf
      BY <2>1, Limits
    <2> QED
      BY <1>2, <2>1, <2>2, <2>3 DEF RxTypes
  <1>4. OrderInv
    BY <1>2 DEF OrderInv, InOrder, Rising, Above
  <1>5. Counts
    BY Limits DEF Counts, Init
  <1> QED
    BY <1>1, <1>3, <1>4, <1>5 DEF ModemInv

LEMMA TakenHit ==
  ASSUME NEW n, NEW over, Taken(n, over), onAir' \in 0..Len(Frames),
         hit \subseteq 0..Len(Frames) + 1
  PROVE  hit' \subseteq 0..Len(Frames) + 1
  <1>1. Len(Frames) \in Nat
    BY SentNat
  <1>2. \A x \in 0..Len(Frames) : x \in 0..Len(Frames) + 1 /\ x + 1 \in 0..Len(Frames) + 1
    BY <1>1
  <1>3. hit' \subseteq hit \cup {onAir', onAir' + 1}
    BY DEF Taken, Touched
  <1> QED
    BY <1>2, <1>3

LEMMA ModemCounts == TxInv /\ Counts /\ [Next]_vars => Counts'
  <1> SUFFICES ASSUME TxInv, Counts, [Next]_vars PROVE Counts'
    OBVIOUS
  <1>1. noise \in 0..MaxNoise /\ hit \subseteq 0..Len(Frames) + 1
    BY DEF Counts
  <1>2. noise' \in 0..MaxNoise
    <2>1. CASE Noise
      BY <1>1, <2>1, Sizes DEF Noise
    <2>2. CASE ~Noise
      BY <1>1, <2>2 DEF Next, Writer, Modulator, Begin, Push, Start, SetTrailer, Stop,
                        PreambleFlag, TrailerFlag, EscapedChar, EscapeLost, PlainChar,
                        Poll, vars
    <2> QED
      BY <2>1, <2>2
  <1>3. /\ onAir \in 0..Len(Frames) + 1 /\ onAir + 1 \in 0..Len(Frames) + 1
        /\ \A done \in BOOLEAN : Touched(onAir, done) \subseteq 0..Len(Frames) + 1
    BY TxNumbers DEF Touched
  <1>4. hit' \subseteq 0..Len(Frames) + 1
    <2>1. CASE Writer \/ Poll \/ PreambleFlag \/ UNCHANGED vars
      BY <1>1, <2>1 DEF Writer, Begin, Push, Start, SetTrailer, Poll, PreambleFlag, vars, track
    <2>2. CASE Stop \/ TrailerFlag \/ EscapeLost
      BY <1>1, <1>3, <2>2 DEF Stop, Underrun, TrailerFlag, EscapeLost
    <2>3. CASE Noise
      BY <1>1, <1>3, <2>3 DEF Noise
    <2>4. CASE EscapedChar
      <3>1. onAir' \in 0..Len(Frames)
        BY <2>4, TxEscaped, TxNumbers
      <3> QED
        BY <1>1, <2>4, <3>1, TakenHit DEF EscapedChar
    <2>5. CASE PlainChar
      <3>1. onAir' \in 1..next
        BY <2>5, TxTake, TxPlain DEF PlainChar
      <3>2. onAir' \in 0..Len(Frames)
        BY <3>1, TxNumbers
      <3> QED
        BY <1>1, <2>5, <3>2, TakenHit DEF PlainChar
    <2> QED
      BY <2>1, <2>2, <2>3, <2>4, <2>5 DEF Next, Modulator
  <1> QED
    BY <1>2, <1>4 DEF Counts

LEMMA ModemStep == ModemInv /\ [Next]_vars => ModemInv'
  <1> SUFFICES ASSUME ModemInv, [Next]_vars PROVE ModemInv'
    OBVIOUS
  <1>1. TxInv /\ RxTypes /\ OrderInv /\ Counts
    BY DEF ModemInv
  <1>2. TxInv' /\ Counts'
    BY <1>1, TxStep, ModemCounts
  <1>3. CASE Writer \/ Modulator \/ Noise \/ UNCHANGED vars
    <2>1. UNCHANGED ctx /\ Goes
      BY <1>1, <1>3, Hears
    <2>2. PICK c : Heard(c) /\ HeardNow(c)
      BY <1>1, <1>3, Hears
    <2>3. RxTypes'
      BY <1>1, <2>1, <2>2, RxHears
    <2>4. OrderInv'
      BY <1>1, <1>2, <2>1, <2>2, OrderHears
    <2> QED
      BY <1>2, <2>3, <2>4 DEF ModemInv
  <1>4. CASE Poll
    <2>1. RxTypes'
      BY <1>1, <1>4, RxPoll
    <2>2. PollFlag \/ PollChar(Head(rxFifo)) \/ PollEscape
      BY <1>4 DEF Poll
    <2>3. OrderInv'
      BY <1>1, <1>4, <2>1, <2>2, OrderFlag, OrderChar
    <2> QED
      BY <1>2, <2>1, <2>3 DEF ModemInv
  <1> QED
    BY <1>3, <1>4 DEF Next

\* Every variable keeps its type, and neither FIFO nor the buffer holds more than it
\* has room for; the interrupt never takes what no frame has been begun for.
THEOREM ModemTyped == Spec => []TypeOK
  <1>1. ModemInv => TypeOK
    <2> SUFFICES ASSUME ModemInv PROVE TypeOK
      OBVIOUS
    <2>1. onAir \in 0..next /\ next \in 0..Len(Frames) /\ Len(todo) \in Nat
      BY TxNumbers DEF ModemInv, TxInv
    <2> QED
      BY <2>1 DEF TypeOK, ModemInv, TxInv, TxTimes, RxTypes, Counts
  <1> QED
    BY <1>1, ModemInit, ModemStep, PTL DEF Spec

\* However the writer, the two interrupts, the noise and the poller fall together,
\* the hook is called for the frames in the order in which they were sent, and for
\* none of them twice.
THEOREM ModemInOrder == Spec => []InOrder
  <1>1. ModemInv => InOrder
    BY DEF ModemInv, OrderInv
  <1> QED
    BY <1>1, ModemInit, ModemStep, PTL DEF Spec

-----------------------------------------------------------------------------
(* Where the characters of a frame are in what is written of it.            *)

Pos(k) == CHOOSE pos : Placed(k, pos)

LEMMA PosIs ==
  ASSUME NEW k \in Sent
  PROVE  /\ Pos(k) \in [0..Len(Content(k)) -> Nat] /\ Pos(k)[0] = 0
         /\ Len(Content(k)) \in Nat \ {0} /\ Len(Line(k)) \in Nat
         /\ Len(Line(k)) = Pos(k)[Len(Content(k))] + 2
         /\ \A j \in 0..Len(Content(k)) : j < Len(Content(k)) => Pos(k)[j] < Pos(k)[Len(Content(k))]
         /\ \A j \in 0..Len(Content(k)) - 1 :
              IF Special(Content(k)[j + 1])
              THEN /\ Pos(k)[j + 1] = Pos(k)[j] + 2
                   /\ Line(k)[Pos(k)[j] + 2] = Esc
                   /\ Line(k)[Pos(k)[j] + 3] = Content(k)[j + 1]
              ELSE /\ Pos(k)[j + 1] = Pos(k)[j] + 1
                   /\ Line(k)[Pos(k)[j] + 2] = Content(k)[j + 1]
  <1> DEFINE n == Len(Content(k))
             s == Content(k)
             p == Pos(k)
             l == Line(k)
             e == Body(k)
  <1>1. Shape(s, n, e, p)
    BY BodyPlaced DEF Pos, Placed
  <1>2. n \in Nat \ {0}
    BY ContentIs
  <1>3. /\ p \in [0..n -> Nat] /\ p[0] = 0 /\ Len(e) = p[n]
        /\ \A j \in 1..n : p[j] = p[j - 1] + Width(s[j])
        /\ \A i, j \in 0..n : i < j => p[i] < p[j]
        /\ \A j \in 1..n : e[p[j]] = s[j] /\ (Special(s[j]) => e[p[j] - 1] = Esc)
    BY <1>1 DEF Shape
  <1>4. Len(l) = Len(e) + 2 /\ \A i \in 1..Len(e) : l[i + 1] = e[i]
    BY LineBody
  <1> HIDE DEF n, s, p, l, e
  <1>5. Len(l) = p[n] + 2 /\ p[n] \in Nat /\ Len(l) \in Nat
    BY <1>2, <1>3, <1>4
  <1>6. \A j \in 0..n : j < n => p[j] < p[n]
    BY <1>2, <1>3
  <1>7. ASSUME NEW j \in 0..n - 1
        PROVE  IF Special(s[j + 1])
               THEN p[j + 1] = p[j] + 2 /\ l[p[j] + 2] = Esc /\ l[p[j] + 3] = s[j + 1]
               ELSE p[j + 1] = p[j] + 1 /\ l[p[j] + 2] = s[j + 1]
    <2>1. j \in 0..n /\ j + 1 \in 0..n /\ j + 1 \in 1..n /\ (j + 1) - 1 = j
          /\ (j + 1 = n \/ j + 1 < n) /\ n \in 0..n
      BY <1>2
    <2>2. p[j] \in Nat /\ p[j + 1] \in Nat /\ p[j + 1] = p[j] + Width(s[j + 1])
      BY <1>3, <2>1
    <2>3. p[j + 1] <= p[n]
      <3>1. CASE j + 1 = n
        BY <1>5, <2>2, <3>1
      <3>2. CASE j + 1 < n
        BY <1>5, <1>6, <2>1, <2>2, <3>2
      <3> QED
        BY <2>1, <3>1, <3>2
    <2>4. Width(s[j + 1]) \in {1, 2} /\ (Special(s[j + 1]) <=> Width(s[j + 1]) = 2)
      BY DEF Width
    <2>5. p[j + 1] \in 1..Len(e) /\ (Special(s[j + 1]) => p[j + 1] - 1 \in 1..Len(e))
      BY <1>3, <1>5, <2>2, <2>3, <2>4, Between
    <2>6. /\ l[p[j + 1] + 1] = s[j + 1]
          /\ Special(s[j + 1]) => l[(p[j + 1] - 1) + 1] = Esc
      <3>1. e[p[j + 1]] = s[j + 1] /\ (Special(s[j + 1]) => e[p[j + 1] - 1] = Esc)
        BY <1>3, <2>1
      <3>2. l[p[j + 1] + 1] = e[p[j + 1]]
        BY <1>4, <2>5
      <3>3. Special(s[j + 1]) => l[(p[j + 1] - 1) + 1] = e[p[j + 1] - 1]
        BY <1>4, <2>5
      <3> QED
        BY <3>1, <3>2, <3>3
    <2>7. CASE Special(s[j + 1])
      <3>1. p[j + 1] = p[j] + 2 /\ p[j + 1] + 1 = p[j] + 3 /\ (p[j + 1] - 1) + 1 = p[j] + 2
        BY <2>2, <2>4, <2>7
      <3> QED
        BY <2>6, <2>7, <3>1
    <2>8. CASE ~Special(s[j + 1])
      <3>1. p[j + 1] = p[j] + 1 /\ p[j + 1] + 1 = p[j] + 2
        BY <2>2, <2>4, <2>8
      <3> QED
        BY <2>6, <2>8, <3>1
    <2> QED
      BY <2>7, <2>8
  <1> QED
    BY <1>2, <1>3, <1>5, <1>6, <1>7 DEF n, s, p, l

\* f, the escape esc pending, is what ax25_poll() makes of the first t characters that
\* are written of a frame.
Decoded(k, t, f, esc) ==
  /\ Len(f) <= Len(Content(k))
  /\ \A i \in 1..Len(f) : f[i] = Content(k)[i]
  /\ IF esc
     THEN /\ Len(f) < Len(Content(k)) /\ Special(Content(k)[Len(f) + 1])
          /\ t = Pos(k)[Len(f)] + 2
     ELSE t = Pos(k)[Len(f)] + 1

LEMMA DecodedMore ==
  ASSUME NEW k \in Sent, NEW f \in Seq(Nat), Len(f) < Len(Content(k)),
         \A i \in 1..Len(f) : f[i] = Content(k)[i]
  PROVE  LET g == Append(f, Content(k)[Len(f) + 1]) IN
           /\ Len(g) = Len(f) + 1 /\ g \in Seq(Nat)
           /\ Decoded(k, Pos(k)[Len(f) + 1] + 1, g, FALSE)
  <1> DEFINE s == Content(k)
             n == Len(f)
             g == Append(f, s[n + 1])
  <1>1. s \in Seq(Nat) /\ Len(s) \in Nat /\ n \in Nat
    BY ContentIs
  <1>2. s[n + 1] \in Nat
    BY <1>1
  <1>3. /\ g \in Seq(Nat) /\ Len(g) = n + 1 /\ g[n + 1] = s[n + 1]
        /\ \A i \in 1..n : g[i] = f[i]
    BY <1>2, AppendNat
  <1> HIDE DEF s, n, g
  <1>4. \A i \in 1..n + 1 : i \in 1..n \/ i = n + 1
    BY <1>1
  <1>5. \A i \in 1..Len(g) : g[i] = s[i]
    BY <1>3, <1>4 DEF s, n
  <1>6. n + 1 <= Len(s)
    BY <1>1 DEF s, n
  <1>7. Decoded(k, Pos(k)[n + 1] + 1, g, FALSE)
    BY <1>3, <1>5, <1>6 DEF Decoded, s
  <1> QED
    BY <1>3, <1>7 DEF s, n, g

\* One more character of a frame, polled as it is written.
LEMMA DecodedNext ==
  ASSUME NEW k \in Sent, NEW f \in Seq(Nat), NEW esc \in BOOLEAN, NEW t,
         Decoded(k, t, f, esc)
  PROVE  LET c == Line(k)[t + 1] IN
           /\ t \in Nat \ {0} /\ Len(f) \in Nat
           /\ esc => /\ Len(f) < Len(Content(k))
                     /\ Decoded(k, t + 1, Append(f, c), FALSE)
           /\ ~esc /\ c = Flag => t = Len(Line(k)) - 1 /\ f = Content(k)
           /\ ~esc /\ c = Esc => Decoded(k, t + 1, f, TRUE)
           /\ ~esc /\ c \notin {Flag, Esc} => /\ c # Reset /\ Len(f) < Len(Content(k))
                                             /\ Decoded(k, t + 1, Append(f, c), FALSE)
  <1> DEFINE c == Line(k)[t + 1]
             s == Content(k)
             p == Pos(k)
             l == Line(k)
             n == Len(s)
             j == Len(f)
  <1>1. /\ p \in [0..n -> Nat] /\ n \in Nat \ {0} /\ Len(l) \in Nat /\ Len(l) = p[n] + 2
        /\ \A i \in 0..n : i < n => p[i] < p[n]
        /\ \A i \in 0..n - 1 :
             IF Special(s[i + 1])
             THEN p[i + 1] = p[i] + 2 /\ l[p[i] + 2] = Esc /\ l[p[i] + 3] = s[i + 1]
             ELSE p[i + 1] = p[i] + 1 /\ l[p[i] + 2] = s[i + 1]
        /\ s \in Seq(Nat) /\ l[Len(l)] = Flag
    BY PosIs, ContentIs, LineIs
  <1>2. j \in Nat
    OBVIOUS
  <1>3. /\ j <= n /\ \A i \in 1..j : f[i] = s[i]
        /\ esc => j < n /\ Special(s[j + 1]) /\ t = p[j] + 2
        /\ ~esc => t = p[j] + 1
    BY DEF Decoded
  <1>4. j < n => Decoded(k, p[j + 1] + 1, Append(f, s[j + 1]), FALSE)
    BY <1>3, DecodedMore
  <1> HIDE DEF s, p, l, n, j
  <1>5. j \in 0..n /\ p[j] \in Nat /\ (j < n => j \in 0..n - 1)
    BY <1>1, <1>2, <1>3
  <1>6. t \in Nat \ {0}
    BY <1>3, <1>5
  <1>7. CASE esc
    <2>1. /\ j < n /\ t + 1 = p[j] + 3 /\ p[j + 1] + 1 = t + 1 /\ c = s[j + 1]
      <3>1. j < n /\ Special(s[j + 1]) /\ t + 1 = p[j] + 3
        BY <1>3, <1>5, <1>7
      <3>2. p[j + 1] = p[j] + 2 /\ l[p[j] + 3] = s[j + 1]
        BY <1>1, <1>5, <3>1
      <3> QED
        BY <1>5, <3>1, <3>2 DEF l
    <2>2. Decoded(k, t + 1, Append(f, c), FALSE)
      BY <1>4, <2>1
    <2>3. j < n
      BY <2>1
    <2> QED
      BY <1>2, <1>6, <1>7, <2>2, <2>3 DEF s, n, j
  <1>8. CASE ~esc
    <2>1. t + 1 = p[j] + 2 /\ t = p[j] + 1
      BY <1>3, <1>5, <1>8
    <2>2. CASE j = n
      <3>1. c = Flag /\ t = Len(l) - 1
        BY <1>1, <1>5, <2>1, <2>2 DEF l
      <3>2. f = s
        <4>1. Len(f) = Len(s) /\ \A i \in 1..Len(f) : f[i] = s[i]
          BY <1>3, <2>2 DEF n, j
        <4> QED
          BY <1>1, <4>1, SeqEqual
      <3>3. c # Esc
        BY <3>1 DEF Flag, Esc
      <3> QED
        BY <1>2, <1>6, <1>8, <3>1, <3>2, <3>3 DEF s, l, j
    <2>3. CASE j < n /\ Special(s[j + 1])
      <3>1. c = Esc
        BY <1>1, <1>5, <2>1, <2>3 DEF l
      <3>2. c # Flag
        BY <3>1 DEF Flag, Esc
      <3>3. Decoded(k, t + 1, f, TRUE)
        <4>1. t + 1 = p[j] + 2
          BY <2>1
        <4> QED
          BY <1>3, <2>3, <4>1 DEF Decoded, s, p, n, j
      <3> QED
        BY <1>2, <1>6, <1>8, <3>1, <3>2, <3>3 DEF j
    <2>4. CASE j < n /\ ~Special(s[j + 1])
      <3>1. c = s[j + 1] /\ p[j + 1] + 1 = t + 1
        BY <1>1, <1>5, <2>1, <2>4 DEF l
      <3>2. c # Flag /\ c # Esc /\ c # Reset
        BY <2>4, <3>1 DEF Special
      <3> QED
        BY <1>2, <1>4, <1>6, <1>8, <2>4, <3>1, <3>2 DEF s, n, j
    <2>5. j = n \/ j < n
      BY <1>1, <1>5
    <2> QED
      BY <2>2, <2>3, <2>4, <2>5
  <1> QED
    BY <1>7, <1>8

-----------------------------------------------------------------------------
(* The second FIFO, as the poller will read it.                             *)

\* Of the places of q, esc pending at its start, those behind which an escape is pending.
Open(q, esc, O) ==
  /\ O \subseteq 0..Len(q)
  /\ 0 \in O <=> esc
  /\ \A i \in 1..Len(q) : i \in O <=> i - 1 \notin O /\ q[i] = Esc

OpenMore(q, x, O) == IF Len(q) \notin O /\ x = Esc THEN O \cup {Len(q) + 1} ELSE O

\* The poller reads what was in q as it did.
Grown(q, O, r, P) ==
  /\ r \in Seq(Nat) /\ Len(q) <= Len(r)
  /\ \A i \in 1..Len(q) : r[i] = q[i]
  /\ \A i \in 0..Len(q) : i \in P <=> i \in O

LEMMA OpenGrows ==
  ASSUME NEW q \in Seq(Nat), NEW x \in Nat, NEW esc, NEW O, Open(q, esc, O)
  PROVE  /\ Open(Append(q, x), esc, OpenMore(q, x, O))
         /\ Grown(q, O, Append(q, x), OpenMore(q, x, O))
         /\ Len(Append(q, x)) = Len(q) + 1
         /\ Len(q) + 1 \in OpenMore(q, x, O) <=> Len(q) \notin O /\ x = Esc
  <1> DEFINE n == Len(q)
             r == Append(q, x)
             P == OpenMore(q, x, O)
  <1>1. /\ r \in Seq(Nat) /\ Len(r) = n + 1 /\ n \in Nat /\ r[n + 1] = x
        /\ \A i \in 1..n : r[i] = q[i]
    BY AppendNat
  <1>2. /\ O \subseteq 0..n /\ (0 \in O <=> esc)
        /\ \A i \in 1..n : i \in O <=> i - 1 \notin O /\ q[i] = Esc
    BY DEF Open
  <1>3. P = IF n \notin O /\ x = Esc THEN O \cup {n + 1} ELSE O
    BY DEF OpenMore
  <1> HIDE DEF n, r, P
  <1>4. n + 1 \notin O
    BY <1>1, <1>2
  <1>5. /\ \A i \in 0..n : i \in P <=> i \in O
        /\ n + 1 \in P <=> n \notin O /\ x = Esc
        /\ P \subseteq 0..n + 1
    BY <1>1, <1>2, <1>3, <1>4
  <1>6. ASSUME NEW i \in 1..n + 1
        PROVE  i \in P <=> i - 1 \notin P /\ r[i] = Esc
    <2>1. i - 1 \in 0..n /\ (i \in 1..n \/ i = n + 1) /\ (i \in 1..n => i \in 0..n)
      BY <1>1
    <2>2. CASE i \in 1..n
      BY <1>1, <1>2, <1>5, <2>1, <2>2
    <2>3. CASE i = n + 1
      <3>1. i - 1 = n
        BY <1>1, <2>3
      <3> QED
        BY <1>1, <1>5, <2>1, <2>3, <3>1
    <2> QED
      BY <2>1, <2>2, <2>3
  <1>7. 0 \in P <=> esc
    <2>1. 0 \in 0..n
      BY <1>1
    <2> QED
      BY <1>2, <1>5, <2>1
  <1>8. Open(r, esc, P)
    BY <1>1, <1>5, <1>6, <1>7 DEF Open
  <1>9. Grown(q, O, r, P)
    BY <1>1, <1>5 DEF Grown, n
  <1> QED
    BY <1>1, <1>5, <1>8, <1>9 DEF n, r, P

LEMMA GrownTwice ==
  ASSUME NEW q \in Seq(Nat), NEW r \in Seq(Nat), NEW s, NEW O, NEW P, NEW R,
         Grown(q, O, r, P), Grown(r, P, s, R)
  PROVE  Grown(q, O, s, R)
  <1>1. Len(q) \in Nat /\ Len(r) \in Nat /\ Len(q) <= Len(r) /\ Len(r) <= Len(s) /\ s \in Seq(Nat)
        /\ Len(s) \in Nat
    BY DEF Grown
  <1>2. \A i \in 0..Len(q) : i \in 0..Len(r)
    BY <1>1
  <1>3. \A i \in 1..Len(q) : i \in 1..Len(r)
    BY <1>1
  <1>4. Len(q) <= Len(s)
    BY <1>1
  <1> QED
    BY <1>1, <1>2, <1>3, <1>4 DEF Grown

LEMMA GrownNot ==
  ASSUME NEW q \in Seq(Nat), NEW O
  PROVE  Grown(q, O, q, O)
  BY DEF Grown

\* The first n characters of frame k are in q behind place a, where no escape is pending;
\* when a is below zero, so many of them have been polled.
Lies(k, n, a, q, O) ==
  /\ a \in Int /\ -n <= a /\ a + n <= Len(q)
  /\ \A i \in 1..n : a + i > 0 => q[a + i] = Line(k)[i]
  /\ a >= 0 => a \notin O

LEMMA LiesStill ==
  ASSUME NEW q \in Seq(Nat), NEW r, NEW O, NEW P, Grown(q, O, r, P),
         NEW k, NEW n \in Nat, NEW a, Lies(k, n, a, q, O)
  PROVE  Lies(k, n, a, r, P)
  <1>1. /\ r \in Seq(Nat) /\ Len(q) <= Len(r) /\ Len(q) \in Nat /\ Len(r) \in Nat
        /\ \A i \in 1..Len(q) : r[i] = q[i]
        /\ \A i \in 0..Len(q) : i \in P <=> i \in O
    BY DEF Grown
  <1>2. /\ a \in Int /\ -n <= a /\ a + n <= Len(q)
        /\ \A i \in 1..n : a + i > 0 => q[a + i] = Line(k)[i]
        /\ a >= 0 => a \notin O
    BY DEF Lies
  <1>3. a + n <= Len(r)
    BY <1>1, <1>2
  <1>4. ASSUME NEW i \in 1..n, a + i > 0 PROVE r[a + i] = Line(k)[i]
    <2>1. a + i \in 1..Len(q)
      BY <1>1, <1>2, <1>4
    <2> QED
      BY <1>1, <1>2, <1>4, <2>1
  <1>5. a >= 0 => a \notin P
    <2>1. a >= 0 => a \in 0..Len(q)
      BY <1>1, <1>2
    <2> QED
      BY <1>1, <1>2, <2>1
  <1> QED
    BY <1>2, <1>3, <1>4, <1>5 DEF Lies

LEMMA LiesMore ==
  ASSUME NEW q \in Seq(Nat), NEW x \in Nat, NEW esc, NEW O, Open(q, esc, O), NEW k,
         NEW n \in Nat, Lies(k, n, Len(q) - n, q, O), x = Line(k)[n + 1]
  PROVE  Lies(k, n + 1, Len(q) - n, Append(q, x), OpenMore(q, x, O))
  <1> DEFINE r == Append(q, x)
             P == OpenMore(q, x, O)
             a == Len(q) - n
  <1>1. Grown(q, O, r, P)
    BY OpenGrows
  <1>2. /\ Len(r) = Len(q) + 1 /\ Len(q) \in Nat /\ r[Len(q) + 1] = x
    BY AppendNat
  <1> HIDE DEF r, P, a
  <1>3. Lies(k, n, a, r, P)
    BY <1>1, LiesStill DEF a
  <1>4. a + (n + 1) = Len(q) + 1 /\ a \in Int
    BY <1>2 DEF a
  <1>5. /\ -n <= a /\ (a >= 0 => a \notin P)
        /\ \A i \in 1..n : a + i > 0 => r[a + i] = Line(k)[i]
    BY <1>3 DEF Lies
  <1>6. \A i \in 1..n + 1 : i \in 1..n \/ i = n + 1
    OBVIOUS
  <1>7. \A i \in 1..n + 1 : a + i > 0 => r[a + i] = Line(k)[i]
    BY <1>2, <1>4, <1>5, <1>6
  <1>8. -(n + 1) <= a /\ a + (n + 1) <= Len(r)
    BY <1>2, <1>4, <1>5
  <1> QED
    BY <1>4, <1>5, <1>7, <1>8 DEF Lies, r, P, a

\* A frame begins behind a FIFO in which no escape is pending.
LEMMA LiesFirst ==
  ASSUME NEW q \in Seq(Nat), NEW esc, NEW O, Open(q, esc, O), Len(q) \notin O, NEW k \in Sent
  PROVE  Lies(k, 1, Len(q), Append(q, Flag), OpenMore(q, Flag, O))
  <1>1. Lies(k, 0, Len(q) - 0, q, O)
    <2>1. Len(q) \in Nat /\ Len(q) - 0 = Len(q)
      OBVIOUS
    <2> QED
      BY <2>1 DEF Lies
  <1>2. Line(k)[0 + 1] = Flag /\ Flag \in Nat
    BY LineIs DEF Flag
  <1>3. Lies(k, 0 + 1, Len(q) - 0, Append(q, Flag), OpenMore(q, Flag, O))
    BY <1>1, <1>2, LiesMore
  <1>4. Len(q) - 0 = Len(q) /\ 0 + 1 = 1
    OBVIOUS
  <1> QED
    BY <1>3, <1>4

OpenLess(q, O) == {i \in 0..Len(q) - 1 : i + 1 \in O}

LEMMA OpenShrinks ==
  ASSUME NEW q \in Seq(Nat), q # <<>>, NEW esc, NEW next1, NEW O, Open(q, esc, O),
         next1 <=> 1 \in O
  PROVE  Open(Tail(q), next1, OpenLess(q, O))
  <1> DEFINE n == Len(q)
             r == Tail(q)
             P == OpenLess(q, O)
  <1>1. /\ r \in Seq(Nat) /\ n \in Nat \ {0} /\ Len(r) = n - 1
        /\ \A i \in 1..n - 1 : r[i] = q[i + 1]
    BY TailNat
  <1>2. \A i \in 1..n : i \in O <=> i - 1 \notin O /\ q[i] = Esc
    BY DEF Open
  <1>3. P \subseteq 0..n - 1 /\ \A i \in 0..n - 1 : i \in P <=> i + 1 \in O
    BY DEF OpenLess
  <1> HIDE DEF n, r, P
  <1>4. 0 \in P <=> next1
    <2>1. 0 \in 0..n - 1 /\ 0 + 1 = 1
      BY <1>1
    <2> QED
      BY <1>3, <2>1
  <1>5. ASSUME NEW i \in 1..n - 1
        PROVE  i \in P <=> i - 1 \notin P /\ r[i] = Esc
    <2>1. /\ i \in 0..n - 1 /\ i - 1 \in 0..n - 1 /\ (i - 1) + 1 = i
          /\ i + 1 \in 1..n /\ (i + 1) - 1 = i
      BY <1>1
    <2>2. i \in P <=> i + 1 \in O
      BY <1>3, <2>1
    <2>3. i - 1 \in P <=> i \in O
      BY <1>3, <2>1
    <2>4. i + 1 \in O <=> i \notin O /\ q[i + 1] = Esc
      BY <1>2, <2>1
    <2> QED
      BY <1>1, <2>2, <2>3, <2>4
  <1> QED
    BY <1>1, <1>3, <1>4, <1>5 DEF Open, n, r, P

LEMMA LiesLess ==
  ASSUME NEW q \in Seq(Nat), q # <<>>, NEW O, NEW k, NEW n \in Nat, NEW a,
         Lies(k, n, a, q, O), a > -n
  PROVE  Lies(k, n, a - 1, Tail(q), OpenLess(q, O))
  <1> DEFINE r == Tail(q)
             P == OpenLess(q, O)
             m == Len(q)
  <1>1. /\ r \in Seq(Nat) /\ m \in Nat \ {0} /\ Len(r) = m - 1
        /\ \A i \in 1..m - 1 : r[i] = q[i + 1]
    BY TailNat
  <1>2. /\ a \in Int /\ a + n <= m
        /\ \A i \in 1..n : a + i > 0 => q[a + i] = Line(k)[i]
        /\ a >= 0 => a \notin O
    BY DEF Lies
  <1>3. \A i \in P : i + 1 \in O
    BY DEF OpenLess
  <1> HIDE DEF r, P, m
  <1>4. a - 1 \in Int /\ -n <= a - 1 /\ (a - 1) + n <= Len(r)
    BY <1>1, <1>2
  <1>5. ASSUME NEW i \in 1..n, (a - 1) + i > 0 PROVE r[(a - 1) + i] = Line(k)[i]
    <2>1. (a - 1) + i \in 1..m - 1 /\ ((a - 1) + i) + 1 = a + i /\ a + i > 0
      BY <1>1, <1>2, <1>5
    <2> QED
      BY <1>1, <1>2, <2>1
  <1>6. a - 1 >= 0 => a - 1 \notin P
    <2>1. (a - 1) + 1 = a /\ (a - 1 >= 0 => a >= 0)
      BY <1>2
    <2> QED
      BY <1>2, <1>3, <2>1
  <1> QED
    BY <1>4, <1>5, <1>6 DEF Lies, r, P

\* What has been polled of a frame whose place in the FIFO is a.
Polled(k, a, f, esc, syn) == a < 0 => syn /\ Decoded(k, 0 - a, f, esc)

LEMMA FrameOnce ==
  ASSUME NEW k \in Sent, frame = Content(k)
  PROVE  Correct /\ k = CHOOSE j \in Sent : frame = Append(Frames[j], Crc(j))
  <1>1. Len(frame) >= MinFrame
    <2>1. Len(Content(k)) \in MinFrame..FrameBuf
      BY ContentIs
    <2> QED
      BY <2>1
  <1>2. frame = Append(Frames[k], Crc(k))
    BY DEF Content
  <1>3. ASSUME NEW j \in Sent, frame = Append(Frames[j], Crc(j))
        PROVE  j = k
    <2>1. frame = Content(j)
      BY <1>3 DEF Content
    <2>2. frame[Len(frame)] = Crc(j) /\ frame[Len(frame)] = Crc(k) /\ j \in Nat /\ k \in Nat
      BY <2>1, ContentIs
    <2> QED
      BY <2>2 DEF Crc
  <1> QED
    BY <1>1, <1>2, <1>3 DEF Correct

\* A poll takes one more character of a frame, or the last.
LEMMA PolledNext ==
  ASSUME RxTypes, Poll, NEW O, Open(rxFifo, escape, O),
         NEW k \in Sent, NEW n \in 1..Len(Line(k)), NEW a, Lies(k, n, a, rxFifo, O), a > -n,
         Polled(k, a, frame, escape, sync)
  PROVE  \/ Polled(k, a - 1, frame', escape', sync')
         \/ a = 1 - Len(Line(k)) /\ received' = Append(received, k)
  <1> DEFINE c == Head(rxFifo)
  <1>1. /\ rxFifo \in Seq(Nat) /\ rxFifo # <<>> /\ frame \in Seq(Nat)
        /\ escape \in BOOLEAN /\ sync \in BOOLEAN /\ Len(frame) \in Nat
    BY DEF RxTypes, Poll
  <1>2. c = rxFifo[1] /\ Len(rxFifo) \in Nat \ {0}
    BY <1>1, TailNat
  <1>3. \/ ~escape /\ c = Flag /\ PollFlag
        \/ ~escape /\ c = Esc /\ PollEscape
        \/ escape /\ PollChar(c)
        \/ ~escape /\ c \notin {Flag, Esc} /\ PollChar(c)
    BY DEF Poll
  <1> HIDE DEF c
  <1>4. a \in Int /\ \A i \in 1..n : a + i > 0 => rxFifo[a + i] = Line(k)[i]
    BY DEF Lies
  <1>5. Len(Line(k)) \in Nat /\ Line(k)[1] = Flag /\ n \in Nat
    BY LineIs
  <1>6. CASE a > 0
    <2>1. ~(a - 1 < 0)
      BY <1>4, <1>6
    <2> QED
      BY <2>1 DEF Polled
  <1>7. CASE a = 0
    <2>1. 1 \in 1..n /\ a + 1 = 1 /\ a + 1 > 0
      BY <1>5, <1>7
    <2>2. c = Flag
      BY <1>2, <1>4, <1>5, <2>1
    <2>3. ~escape
      <3>1. 0 \notin O
        BY <1>7 DEF Lies
      <3> QED
        BY <3>1 DEF Open
    <2>4. PollFlag
      BY <1>3, <2>2, <2>3 DEF Flag, Esc
    <2>5. frame' = <<>> /\ sync' = TRUE /\ escape' = escape
      BY <2>4 DEF PollFlag
    <2>6. Decoded(k, 1, <<>>, FALSE)
      <3>1. Pos(k)[0] = 0 /\ Len(Content(k)) \in Nat
        BY PosIs
      <3>2. Len(<<>>) = 0 /\ Len(<<>>) <= Len(Content(k)) /\ 1 = Pos(k)[Len(<<>>)] + 1
        BY <3>1
      <3> QED
        BY <3>2 DEF Decoded
    <2>7. 0 - (a - 1) = 1 /\ escape' = FALSE
      <3>1. 0 - (a - 1) = 1
        BY <1>7
      <3>2. escape' = FALSE
        BY <1>1, <2>3, <2>5
      <3> QED
        BY <3>1, <3>2
    <2> QED
      BY <2>5, <2>6, <2>7 DEF Polled
  <1>8. CASE a < 0
    <2> DEFINE t == 0 - a
    <2>1. sync /\ Decoded(k, t, frame, escape)
      BY <1>8 DEF Polled
    <2>2. t \in Nat /\ t + 1 \in 1..n /\ a + (t + 1) = 1 /\ a + (t + 1) > 0 /\ 0 - (a - 1) = t + 1
      BY <1>4, <1>5, <1>8
    <2>3. c = Line(k)[t + 1]
      BY <1>2, <1>4, <2>2
    <2> HIDE DEF t
    <2>4. /\ escape => /\ Len(frame) < Len(Content(k))
                       /\ Decoded(k, t + 1, Append(frame, c), FALSE)
          /\ ~escape /\ c = Flag => t = Len(Line(k)) - 1 /\ frame = Content(k)
          /\ ~escape /\ c = Esc => Decoded(k, t + 1, frame, TRUE)
          /\ ~escape /\ c \notin {Flag, Esc} => /\ c # Reset /\ Len(frame) < Len(Content(k))
                                               /\ Decoded(k, t + 1, Append(frame, c), FALSE)
      BY <1>1, <2>1, <2>3, DecodedNext
    <2>5. CASE ~escape /\ c = Flag /\ PollFlag
      <3>1. t = Len(Line(k)) - 1 /\ frame = Content(k)
        BY <2>4, <2>5
      <3>2. received' = Append(received, k)
        BY <2>5, <3>1, FrameOnce DEF PollFlag
      <3>3. a = 1 - Len(Line(k))
        BY <1>4, <1>5, <3>1 DEF t
      <3> QED
        BY <3>2, <3>3
    <2>6. CASE ~escape /\ c = Esc /\ PollEscape
      <3>1. escape' = TRUE /\ sync' = sync /\ frame' = frame
        BY <2>6 DEF PollEscape
      <3> QED
        BY <2>1, <2>2, <2>4, <2>6, <3>1 DEF Polled
    <2>7. CASE (escape \/ c \notin {Flag, Esc}) /\ PollChar(c)
      <3>1. Len(frame) < Len(Content(k)) /\ Decoded(k, t + 1, Append(frame, c), FALSE)
        BY <2>4, <2>7
      <3>2. Len(frame) < FrameBuf
        <4>1. Len(Content(k)) \in MinFrame..FrameBuf
          BY ContentIs
        <4> QED
          BY <1>1, <3>1, <4>1, Sizes
      <3>3. escape' = FALSE /\ sync' = sync /\ frame' = Append(frame, c)
        BY <2>1, <2>4, <2>7, <3>2 DEF PollChar
      <3> QED
        BY <2>1, <2>2, <3>1, <3>3 DEF Polled
    <2> QED
      BY <1>3, <2>5, <2>6, <2>7
  <1> QED
    BY <1>4, <1>6, <1>7, <1>8

-----------------------------------------------------------------------------
(* What the interrupt takes, while nothing has hit the frame.               *)

\* The next character to take is no escaped one.
Aligned(k, t) == \E j \in 0..Len(Content(k)) : t = Pos(k)[j] + 1

LEMMA AlignedFirst ==
  ASSUME NEW k \in Sent
  PROVE  Aligned(k, 1)
  <1>1. Pos(k)[0] = 0 /\ 0 \in 0..Len(Content(k)) /\ 1 = 0 + 1
    BY PosIs
  <1> QED
    BY <1>1 DEF Aligned

LEMMA AlignedNext ==
  ASSUME NEW k \in Sent, NEW t, Aligned(k, t)
  PROVE  LET c == Line(k)[t + 1] IN
           /\ c = Flag => t + 1 = Len(Line(k))
           /\ c # Reset
           /\ ~Special(c) => Aligned(k, t + 1)
           /\ c = Esc => Aligned(k, t + 2) /\ Special(Line(k)[t + 2])
  <1> DEFINE c == Line(k)[t + 1]
             s == Content(k)
             p == Pos(k)
             l == Line(k)
             n == Len(s)
  <1>1. /\ p \in [0..n -> Nat] /\ n \in Nat \ {0} /\ Len(l) \in Nat /\ Len(l) = p[n] + 2
        /\ \A i \in 0..n - 1 :
             IF Special(s[i + 1])
             THEN p[i + 1] = p[i] + 2 /\ l[p[i] + 2] = Esc /\ l[p[i] + 3] = s[i + 1]
             ELSE p[i + 1] = p[i] + 1 /\ l[p[i] + 2] = s[i + 1]
        /\ l[Len(l)] = Flag
    BY PosIs, LineIs
  <1>2. PICK j \in 0..n : t = p[j] + 1
    BY DEF Aligned
  <1> HIDE DEF s, p, l, n
  <1>3. p[j] \in Nat /\ t + 1 = p[j] + 2 /\ t + 2 = p[j] + 3 /\ (j = n \/ j \in 0..n - 1)
    BY <1>1, <1>2
  <1>4. CASE j = n
    <2>1. c = Flag /\ t + 1 = Len(l)
      BY <1>1, <1>3, <1>4 DEF l
    <2> QED
      BY <2>1 DEF Special, Flag, Esc, Reset, l
  <1>5. CASE j \in 0..n - 1 /\ Special(s[j + 1])
    <2>1. p[j + 1] = p[j] + 2 /\ c = Esc /\ l[t + 2] = s[j + 1]
      BY <1>1, <1>3, <1>5 DEF l
    <2>2. j + 1 \in 0..n /\ t + 2 = p[j + 1] + 1
      BY <1>1, <1>3, <1>5, <2>1
    <2>3. Aligned(k, t + 2)
      BY <2>2 DEF Aligned, s, p, n
    <2> QED
      BY <1>5, <2>1, <2>3 DEF Special, Flag, Esc, Reset, l
  <1>6. CASE j \in 0..n - 1 /\ ~Special(s[j + 1])
    <2>1. p[j + 1] = p[j] + 1 /\ c = s[j + 1]
      <3>1. p[j + 1] = p[j] + 1 /\ l[p[j] + 2] = s[j + 1]
        BY <1>1, <1>6
      <3> QED
        BY <1>3, <3>1 DEF l
    <2>2. j + 1 \in 0..n /\ t + 1 = p[j + 1] + 1
      BY <1>1, <1>3, <1>6, <2>1
    <2>3. Aligned(k, t + 1)
      BY <2>2 DEF Aligned, s, p, n
    <2> QED
      BY <1>6, <2>1, <2>3 DEF Special
  <1> QED
    BY <1>3, <1>4, <1>5, <1>6

Upcoming == IF Inside THEN onAir ELSE onAir + 1

\* A frame that nothing has hit is taken without a pause, and heard.
AirInv ==
  Inside /\ onAir \notin hit =>
    sending /\ preamble = 0 /\ rxstart /\ Aligned(onAir, took)

\* So much of a frame is in the second FIFO or has been polled.
Kept(k, n, a, O) == Lies(k, n, a, rxFifo, O) /\ Polled(k, a, frame, escape, sync)

ReceiverOk(O) ==
  /\ Open(rxFifo, escape, O)
  /\ Len(rxFifo) \in O => ~rxstart /\ Upcoming \in hit
  /\ \A k \in Sent \ hit : Complete(k) =>
       \/ k \in ToSet(received)
       \/ \E a : a >= 1 - Len(Line(k)) /\ Kept(k, Len(Line(k)), a, O)
  /\ Inside /\ onAir \notin hit => Kept(onAir, took, Len(rxFifo) - took, O)

LostInv == AirInv /\ \E O : ReceiverOk(O)

LEMMA LostNone ==
  ASSUME RxTypes, LostInv
  PROVE  LostOnlyIfHit
  <1> SUFFICES ASSUME rxFifo = <<>>, NEW k \in Sent, Complete(k), k \notin hit
               PROVE  k \in ToSet(received)
    BY DEF LostOnlyIfHit
  <1>1. PICK O : ReceiverOk(O)
    BY DEF LostInv
  <1>2. ASSUME NEW a, a >= 1 - Len(Line(k)), Kept(k, Len(Line(k)), a, O)
        PROVE  FALSE
    <2>1. a \in Int /\ a + Len(Line(k)) <= Len(rxFifo) /\ Len(rxFifo) = 0
      BY <1>2 DEF Kept, Lies
    <2>2. Len(Line(k)) \in Nat
      BY LineIs
    <2> QED
      BY <1>2, <2>1, <2>2
  <1> QED
    BY <1>1, <1>2 DEF ReceiverOk

\* What a step on the side of the sender must leave, however the second FIFO grew.
LEMMA ReceiverGrows ==
  ASSUME RxTypes, NEW O, ReceiverOk(O), UNCHANGED ctx, NEW P,
         Grown(rxFifo, O, rxFifo', P), Open(rxFifo', escape, P), hit \subseteq hit',
         Len(rxFifo') \in P => ~rxstart' /\ Upcoming' \in hit',
         \A k \in Sent \ hit' : Complete(k)' =>
           \/ Complete(k)
           \/ \E a : /\ a >= 1 - Len(Line(k))
                     /\ Lies(k, Len(Line(k)), a, rxFifo', P)
                     /\ Polled(k, a, frame, escape, sync),
         Inside' /\ onAir' \notin hit' =>
           /\ Lies(onAir', took', Len(rxFifo') - took', rxFifo', P)
           /\ Polled(onAir', Len(rxFifo') - took', frame, escape, sync)
  PROVE  ReceiverOk(P)'
  <1>1. UNCHANGED <<sync, escape, frame, received>> /\ rxFifo \in Seq(Nat)
    BY DEF ctx, RxTypes
  <1>2. ASSUME NEW k \in Sent \ hit', Complete(k)'
        PROVE  \/ k \in ToSet(received')
               \/ \E a : a >= 1 - Len(Line(k)) /\ Kept(k, Len(Line(k)), a, P)'
    <2>1. CASE Complete(k)
      <3>1. k \in Sent \ hit
        OBVIOUS
      <3>2. CASE k \in ToSet(received)
        BY <1>1, <3>2
      <3>3. ASSUME NEW a, a >= 1 - Len(Line(k)), Kept(k, Len(Line(k)), a, O)
            PROVE  Kept(k, Len(Line(k)), a, P)'
        <4>1. Len(Line(k)) \in Nat
          BY LineIs
        <4>2. Lies(k, Len(Line(k)), a, rxFifo', P)
          BY <1>1, <3>3, <4>1, LiesStill DEF Kept
        <4> QED
          BY <1>1, <3>3, <4>2 DEF Kept
      <3> QED
        BY <2>1, <3>1, <3>2, <3>3 DEF ReceiverOk
    <2>2. ASSUME NEW a, a >= 1 - Len(Line(k)), Lies(k, Len(Line(k)), a, rxFifo', P),
                 Polled(k, a, frame, escape, sync)
          PROVE  Kept(k, Len(Line(k)), a, P)'
      BY <1>1, <2>2 DEF Kept
    <2> QED
      BY <1>2, <2>1, <2>2
  <1>3. (Inside /\ onAir \notin hit => Kept(onAir, took, Len(rxFifo) - took, P))'
    BY <1>1 DEF Kept
  <1>4. Open(rxFifo, escape, P)'
    BY <1>1
  <1> QED
    BY <1>2, <1>3, <1>4 DEF ReceiverOk

-----------------------------------------------------------------------------
(* What is heard, as the poller will read it.                               *)

LEMMA ConcatOne ==
  ASSUME NEW q \in Seq(Nat), NEW x \in Nat, NEW y \in Nat
  PROVE  /\ q \o <<x>> = Append(q, x) /\ Append(q, x) \in Seq(Nat)
         /\ q \o <<x, y>> = Append(Append(q, x), y)
  OBVIOUS

LEMMA OverrunIs ==
  ASSUME RxTypes, NEW u, Len(u) \in Nat
  PROVE  Overrun(u) <=> ~(Len(u) <= RxRoom - Len(rxFifo))
  BY Sizes DEF Overrun, RxTypes

\* Where a flag cannot be written, an escape may stay open.
LEMMA FlagKept ==
  ASSUME RxTypes, NEW O, Open(rxFifo, escape, O), HearFlag
  PROVE  \E P : /\ Grown(rxFifo, O, rxFifo', P) /\ Open(rxFifo', escape, P)
                /\ Len(rxFifo') \in P => ~rxstart' /\ Len(rxFifo) \in O /\ Overrun(<<Flag>>)
  <1>1. rxFifo \in Seq(Nat) /\ Len(rxFifo) \in Nat
    BY DEF RxTypes
  <1>2. Len(<<Flag>>) = 1 /\ Flag \in Nat /\ Flag # Esc
    BY DEF Flag, Esc
  <1>3. CASE Len(rxFifo) < RxRoom
    <2>1. rxFifo' = Append(rxFifo, Flag)
      BY <1>3 DEF HearFlag
    <2> QED
      BY <1>1, <1>2, <2>1, OpenGrows
  <1>4. CASE ~(Len(rxFifo) < RxRoom)
    <2>1. rxFifo' = rxFifo /\ ~rxstart'
      BY <1>4 DEF HearFlag
    <2>2. Overrun(<<Flag>>)
      <3>1. ~(1 <= RxRoom - Len(rxFifo))
        BY <1>1, <1>4, Sizes
      <3> QED
        BY <1>2, <3>1, OverrunIs
    <2>3. Grown(rxFifo, O, rxFifo', O)
      BY <1>1, <2>1, GrownNot
    <2> QED
      BY <2>1, <2>2, <2>3
  <1> QED
    BY <1>3, <1>4

\* A character that fits leaves no escape open.
LEMMA UnitOpen ==
  ASSUME RxTypes, NEW O, Open(rxFifo, escape, O), Len(rxFifo) \notin O, NEW c \in Nat
  PROVE  \E P : /\ Grown(rxFifo, O, rxFifo \o Unit(c), P) /\ Open(rxFifo \o Unit(c), escape, P)
                /\ Len(rxFifo \o Unit(c)) \notin P
  <1> DEFINE q == rxFifo
  <1>1. q \in Seq(Nat) /\ Len(q) \in Nat /\ Esc \in Nat
    BY DEF RxTypes, Esc
  <1>2. CASE ~Special(c)
    <2>1. q \o Unit(c) = Append(q, c) /\ c # Esc
      BY <1>1, <1>2, ConcatOne DEF Unit, Special
    <2> QED
      BY <1>1, <2>1, OpenGrows
  <1>3. CASE Special(c)
    <2> DEFINE r == Append(q, Esc)
               P == OpenMore(q, Esc, O)
               s == Append(r, c)
               R == OpenMore(r, c, P)
    <2>1. q \o Unit(c) = s /\ r \in Seq(Nat)
      BY <1>1, <1>3, ConcatOne DEF Unit
    <2>2. /\ Open(r, escape, P) /\ Grown(q, O, r, P) /\ Len(r) = Len(q) + 1
          /\ Len(q) + 1 \in P
      BY <1>1, OpenGrows
    <2> HIDE DEF q, r, P
    <2>3. /\ Open(s, escape, R) /\ Grown(r, P, s, R) /\ Len(s) = Len(r) + 1
          /\ Len(r) + 1 \in R <=> Len(r) \notin P /\ c = Esc
      BY <2>1, <2>2, OpenGrows
    <2> HIDE DEF s, R
    <2>4. Grown(q, O, s, R)
      BY <1>1, <2>1, <2>2, <2>3, GrownTwice
    <2>5. Len(s) \notin R
      BY <2>2, <2>3
    <2> QED
      BY <2>1, <2>3, <2>4, <2>5 DEF q
  <1> QED
    BY <1>2, <1>3

LEMMA FirstOfTwo ==
  ASSUME NEW x \in Nat, NEW y \in Nat
  PROVE  SubSeq(<<x, y>>, 1, 1) = <<x>>
  <1> DEFINE s == <<x, y>>
             t == SubSeq(s, 1, 1)
  <1>1. s \in Seq(Nat) /\ Len(s) = 2 /\ s[1] = x
    OBVIOUS
  <1> HIDE DEF s
  <1>2. t \in Seq(Nat) /\ Len(t) = 1 /\ t[1] = s[1]
    BY <1>1
  <1>3. <<x>> \in Seq(Nat) /\ Len(<<x>>) = 1 /\ <<x>>[1] = x
    OBVIOUS
  <1> HIDE DEF t
  <1>4. \A i \in 1..Len(t) : i = 1
    BY <1>2
  <1>5. \A i \in 1..Len(t) : t[i] = <<x>>[i]
    BY <1>1, <1>2, <1>3, <1>4
  <1>6. t = <<x>>
    BY <1>2, <1>3, <1>5, SeqEqual
  <1> QED
    BY <1>6 DEF s, t

LEMMA CharKept ==
  ASSUME RxTypes, NEW O, Open(rxFifo, escape, O), rxstart => Len(rxFifo) \notin O,
         NEW c \in Nat, HearChar(c)
  PROVE  \E P : /\ Grown(rxFifo, O, rxFifo', P) /\ Open(rxFifo', escape, P)
                /\ Len(rxFifo') \in P =>
                     ~rxstart' /\ (Len(rxFifo) \in O \/ (rxstart /\ Overrun(Unit(c))))
  <1>1. rxFifo \in Seq(Nat) /\ Len(rxFifo) \in Nat /\ Esc \in Nat
    BY DEF RxTypes, Esc
  <1>2. CASE ~rxstart
    <2>1. rxFifo' = rxFifo /\ ~rxstart'
      BY <1>2 DEF HearChar, adc
    <2> QED
      BY <1>1, <2>1, GrownNot
  <1>3. CASE rxstart
    <2> DEFINE u == Unit(c)
               room == RxRoom - Len(rxFifo)
    <2>1. Unit(c) = u
      OBVIOUS
    <2>2. Len(u) = Width(c) /\ Width(c) \in {1, 2} /\ (Special(c) <=> Width(c) = 2)
      BY UnitIs DEF Width
    <2>3. IF Len(u) <= room
          THEN rxFifo' = rxFifo \o u /\ UNCHANGED rxstart
          ELSE rxFifo' = rxFifo \o SubSeq(u, 1, room) /\ rxstart' = FALSE
      BY <1>3, <2>1 DEF HearChar, Pushed
    <2>4. room \in Nat
      BY Sizes DEF RxTypes
    <2>5. CASE Len(u) <= room
      BY <1>3, <2>3, <2>5, UnitOpen
    <2>6. CASE ~(Len(u) <= room)
      <3>1. Overrun(Unit(c))
        <4>1. Len(u) \in Nat
          BY <2>2
        <4> QED
          BY <2>1, <2>6, <4>1, OverrunIs
      <3>2. rxFifo' = rxFifo \o SubSeq(u, 1, room) /\ ~rxstart'
        BY <2>3, <2>6
      <3>3. room = 0 \/ (room = 1 /\ Special(c))
        BY <2>2, <2>4, <2>6
      <3>4. CASE room = 0
        <4>1. rxFifo \o SubSeq(u, 1, 0) = rxFifo
          BY <1>1
        <4>2. rxFifo' = rxFifo
          BY <3>2, <3>4, <4>1
        <4> QED
          BY <1>1, <1>3, <3>1, <3>2, <4>2, GrownNot
      <3>5. CASE room = 1 /\ Special(c)
        <4>1. u = <<Esc, c>>
          BY <3>5 DEF Unit
        <4>2. SubSeq(<<Esc, c>>, 1, 1) = <<Esc>>
          BY <1>1, FirstOfTwo
        <4>3. rxFifo' = rxFifo \o <<Esc>>
          BY <3>2, <3>5, <4>1, <4>2
        <4>4. rxFifo' = Append(rxFifo, Esc)
          BY <1>1, <4>3, ConcatOne
        <4>5. /\ Open(Append(rxFifo, Esc), escape, OpenMore(rxFifo, Esc, O))
              /\ Grown(rxFifo, O, Append(rxFifo, Esc), OpenMore(rxFifo, Esc, O))
          BY <1>1, OpenGrows
        <4> QED
          BY <1>3, <3>1, <3>2, <4>4, <4>5
      <3> QED
        BY <3>3, <3>4, <3>5
    <2> QED
      BY <2>5, <2>6
  <1> QED
    BY <1>2, <1>3

-----------------------------------------------------------------------------
(* The steps that leave the sender in its frame, or between two.            *)

\* So the FIFO grows when the frame on the air, if there is one, has been hit.
RoomFor(P, O) ==
  /\ Grown(rxFifo, O, rxFifo', P) /\ Open(rxFifo', escape, P)
  /\ Len(rxFifo') \in P => ~rxstart' /\ (Len(rxFifo) \in O \/ {onAir, onAir + 1} \subseteq hit')

LEMMA LostStays ==
  ASSUME RxTypes, NEW O, ReceiverOk(O), UNCHANGED ctx, onAir' = onAir, Inside' <=> Inside,
         hit \subseteq hit', Inside => onAir \in hit', NEW P, RoomFor(P, O)
  PROVE  LostInv'
  <1>1. Grown(rxFifo, O, rxFifo', P) /\ Open(rxFifo', escape, P)
    BY DEF RoomFor
  <1>2. Upcoming' = Upcoming /\ Upcoming \in {onAir, onAir + 1}
    BY DEF Upcoming
  <1>3. Len(rxFifo) \in O => Upcoming \in hit
    BY DEF ReceiverOk
  <1>4. Len(rxFifo') \in P => ~rxstart' /\ Upcoming' \in hit'
    <2> SUFFICES ASSUME Len(rxFifo') \in P PROVE ~rxstart' /\ Upcoming' \in hit'
      OBVIOUS
    <2>1. ~rxstart' /\ (Len(rxFifo) \in O \/ {onAir, onAir + 1} \subseteq hit')
      BY DEF RoomFor
    <2> QED
      BY <1>2, <1>3, <2>1
  <1>5. \A k : Complete(k)' => Complete(k)
    BY DEF Complete
  <1>6. ~(Inside' /\ onAir' \notin hit')
    OBVIOUS
  <1>7. ReceiverOk(P)'
    BY <1>1, <1>4, <1>5, <1>6, ReceiverGrows
  <1>8. AirInv'
    BY <1>6 DEF AirInv
  <1> QED
    BY <1>7, <1>8 DEF LostInv

LEMMA RoomSame ==
  ASSUME RxTypes, NEW O, ReceiverOk(O), rxFifo' = rxFifo, rxstart' \in {rxstart, FALSE}
  PROVE  RoomFor(O, O)
  <1>1. rxFifo \in Seq(Nat)
    BY DEF RxTypes
  <1>2. Grown(rxFifo, O, rxFifo', O)
    BY <1>1, GrownNot
  <1>3. Open(rxFifo, escape, O) /\ (Len(rxFifo) \in O => ~rxstart)
    BY DEF ReceiverOk
  <1>4. Open(rxFifo', escape, O)
    BY <1>3
  <1>5. Len(rxFifo') \in O => ~rxstart' /\ Len(rxFifo) \in O
    BY <1>3
  <1> QED
    BY <1>2, <1>4, <1>5 DEF RoomFor

LEMMA RoomFlag ==
  ASSUME RxTypes, NEW O, ReceiverOk(O), HearFlag
  PROVE  \E P : RoomFor(P, O)
  <1>1. Open(rxFifo, escape, O)
    BY DEF ReceiverOk
  <1> QED
    BY <1>1, FlagKept DEF RoomFor

LEMMA RoomChar ==
  ASSUME RxTypes, NEW O, ReceiverOk(O), NEW c \in Nat, HearChar(c),
         rxstart /\ Overrun(Unit(c)) => {onAir, onAir + 1} \subseteq hit'
  PROVE  \E P : RoomFor(P, O)
  <1>1. Open(rxFifo, escape, O) /\ (rxstart => Len(rxFifo) \notin O)
    BY DEF ReceiverOk
  <1> QED
    BY <1>1, CharKept DEF RoomFor

LEMMA LostSame ==
  ASSUME RxTypes, LostInv, UNCHANGED <<adc, ctx, track>>,
         sending /\ preamble = 0 => sending' /\ preamble' = 0
  PROVE  LostInv'
  <1>1. PICK O : ReceiverOk(O)
    BY DEF LostInv
  <1>2. UNCHANGED <<rxFifo, rxstart, sync, escape, frame, received, onAir, took, hit>>
    BY DEF adc, ctx, track
  <1>3. ReceiverOk(O)'
    BY <1>1, <1>2 DEF ReceiverOk, Kept, Upcoming, Inside, Complete
  <1>4. AirInv'
    BY <1>2 DEF LostInv, AirInv, Inside
  <1> QED
    BY <1>3, <1>4 DEF LostInv

LEMMA LostOff ==
  ASSUME TxInv, RxTypes, LostInv,
         Stop \/ PreambleFlag \/ TrailerFlag \/ EscapeLost \/ Noise
  PROVE  LostInv'
  <1>1. PICK O : ReceiverOk(O)
    BY DEF LostInv
  <1>2. AirInv
    BY DEF LostInv
  <1>3. CASE Stop
    <2>1. /\ UNCHANGED ctx /\ onAir' = onAir /\ (Inside' <=> Inside)
          /\ hit \subseteq hit' /\ (Inside => onAir \in hit')
      BY <1>3 DEF Stop, Underrun, Inside
    <2>2. RoomFor(O, O)
      BY <1>1, <1>3, RoomSame DEF Stop, adc
    <2> QED
      BY <1>1, <2>1, <2>2, LostStays
  <1>4. CASE PreambleFlag
    <2>1. /\ UNCHANGED ctx /\ onAir' = onAir /\ (Inside' <=> Inside) /\ hit \subseteq hit'
      BY <1>4 DEF PreambleFlag, track, Inside
    <2>2. Inside => onAir \in hit'
      BY <1>2, <1>4 DEF PreambleFlag, track, AirInv
    <2>3. PICK P : RoomFor(P, O)
      BY <1>1, <1>4, RoomFlag DEF PreambleFlag
    <2> QED
      BY <1>1, <2>1, <2>2, <2>3, LostStays
  <1>5. CASE TrailerFlag
    <2>1. /\ UNCHANGED ctx /\ onAir' = onAir /\ (Inside' <=> Inside)
          /\ hit \subseteq hit' /\ (Inside => onAir \in hit')
      BY <1>5 DEF TrailerFlag, Inside
    <2>2. PICK P : RoomFor(P, O)
      BY <1>1, <1>5, RoomFlag DEF TrailerFlag
    <2> QED
      BY <1>1, <2>1, <2>2, LostStays
  <1>6. CASE EscapeLost
    <2>1. UNCHANGED ctx /\ onAir' = onAir /\ took' = took + 1 /\ hit' = hit \cup {onAir}
      BY <1>6 DEF EscapeLost
    <2>2. Inside /\ onAir \in 1..next /\ took + 1 < Len(Line(onAir)) - 1 /\ took \in Nat
      <3>1. txFifo # <<>> /\ Head(txFifo) = Esc
        BY <1>6 DEF EscapeLost
      <3> QED
        BY <3>1, TxTakeEscape
    <2>3. Inside'
      <3>1. onAir \in Sent
        BY <2>2, SentNat DEF TxInv, Queued, Sent
      <3>2. Len(Line(onAir)) \in Nat
        BY <3>1, LineIs
      <3>3. took' < Len(Line(onAir))
        BY <2>1, <2>2, <3>2
      <3> QED
        BY <2>1, <2>2, <3>3 DEF Inside
    <2>4. RoomFor(O, O)
      BY <1>1, <1>6, RoomSame DEF EscapeLost, adc
    <2> QED
      BY <1>1, <2>1, <2>2, <2>3, <2>4, LostStays
  <1>7. CASE Noise
    <2>1. /\ UNCHANGED ctx /\ onAir' = onAir /\ (Inside' <=> Inside) /\ hit \subseteq hit'
      BY <1>7 DEF Noise, Inside
    <2>2. Inside => onAir \in hit'
      BY <1>2, <1>7, <2>1 DEF Noise, AirInv
    <2>3. \E P : RoomFor(P, O)
      <3>1. CASE HearFlag
        BY <1>1, <3>1, RoomFlag
      <3>2. ASSUME NEW c \in {0, Flag, Esc}, HearChar(c),
                   hit' = IF rxstart /\ Overrun(Unit(c))
                          THEN hit \cup Touched(onAir, TRUE) ELSE hit
            PROVE  \E P : RoomFor(P, O)
        <4>1. c \in Nat
          BY DEF Flag, Esc
        <4>2. rxstart /\ Overrun(Unit(c)) => {onAir, onAir + 1} \subseteq hit'
          BY <3>2 DEF Touched
        <4> QED
          BY <1>1, <3>2, <4>1, <4>2, RoomChar
      <3>3. CASE rxFifo' = rxFifo /\ rxstart' = FALSE
        BY <1>1, <3>3, RoomSame
      <3> QED
        BY <1>7, <3>1, <3>2, <3>3 DEF Noise, HearReset
    <2> QED
      BY <1>1, <2>1, <2>2, <2>3, LostStays
  <1> QED
    BY <1>3, <1>4, <1>5, <1>6, <1>7

-----------------------------------------------------------------------------
(* The steps that take characters of a frame.                               *)

LEMMA CompleteThen ==
  ASSUME TxInv, onAir' = Now(onAir, took) \/ (Inside /\ onAir' = onAir),
         onAir' \in Sent, took' \in 1..Len(Line(onAir')), NEW k \in Sent, Complete(k)'
  PROVE  Complete(k) \/ (k = onAir' /\ took' = Len(Line(k)))
  <1>1. onAir \in Nat /\ onAir' \in Nat /\ onAir' > 0
    BY SentNat DEF TxInv, Queued, Sent
  <1>2. Len(Line(onAir')) \in Nat
    BY LineIs
  <1>3. k < onAir' \/ (k = onAir' /\ ~(took' < Len(Line(onAir'))))
    BY <1>1 DEF Complete, Inside
  <1>4. k = onAir' /\ ~(took' < Len(Line(onAir'))) => took' = Len(Line(k))
    BY <1>2
  <1>5. CASE k < onAir'
    <2>1. CASE Inside
      BY <1>5, <2>1 DEF Complete, Now, Going, Inside
    <2>2. CASE ~Inside
      <3>1. onAir' = onAir + 1
        BY <2>2 DEF Now, Going, Inside
      <3>2. k \in Nat /\ (k < onAir \/ k = onAir)
        BY <1>1, <1>5, <3>1 DEF Sent
      <3> QED
        BY <2>2, <3>2 DEF Complete
    <2> QED
      BY <2>1, <2>2
  <1> QED
    BY <1>3, <1>4, <1>5

\* What is taken of a frame that nothing has hit.
Clear(P) ==
  /\ Len(rxFifo') \notin P /\ Len(rxFifo') > 0
  /\ Lies(onAir', took', Len(rxFifo') - took', rxFifo', P)
  /\ Polled(onAir', Len(rxFifo') - took', frame, escape, sync)
  /\ Inside' => sending' /\ preamble' = 0 /\ rxstart' /\ Aligned(onAir', took')

LEMMA LostTaken ==
  ASSUME TxInv, RxTypes, NEW O, ReceiverOk(O), UNCHANGED ctx, hit \subseteq hit',
         onAir' = Now(onAir, took) \/ (Inside /\ onAir' = onAir),
         onAir' \in Sent, took' \in 1..Len(Line(onAir')), NEW P,
         Grown(rxFifo, O, rxFifo', P), Open(rxFifo', escape, P),
         onAir' \notin hit' => Clear(P),
         Len(rxFifo') \in P => ~rxstart' /\ Upcoming' \in hit'
  PROVE  LostInv'
  <1>1. ASSUME NEW k \in Sent \ hit', Complete(k)'
        PROVE  \/ Complete(k)
               \/ \E a : /\ a >= 1 - Len(Line(k))
                         /\ Lies(k, Len(Line(k)), a, rxFifo', P)
                         /\ Polled(k, a, frame, escape, sync)
    <2>1. CASE Complete(k)
      BY <2>1
    <2>2. CASE k = onAir' /\ took' = Len(Line(k))
      <3>1. Clear(P)
        BY <2>2
      <3>2. Len(Line(k)) \in Nat /\ Len(rxFifo') \in Nat /\ Len(rxFifo') > 0
        BY <3>1, LineIs DEF Clear, Grown
      <3>3. Len(rxFifo') - took' >= 1 - Len(Line(k))
        BY <2>2, <3>2
      <3> QED
        BY <2>2, <3>1, <3>3 DEF Clear
    <2> QED
      BY <1>1, <2>1, <2>2, CompleteThen
  <1>2. Inside' /\ onAir' \notin hit' =>
          /\ Lies(onAir', took', Len(rxFifo') - took', rxFifo', P)
          /\ Polled(onAir', Len(rxFifo') - took', frame, escape, sync)
    BY DEF Clear
  <1>3. ReceiverOk(P)'
    BY <1>1, <1>2, ReceiverGrows
  <1>4. AirInv'
    BY DEF AirInv, Clear
  <1> QED
    BY <1>3, <1>4 DEF LostInv

\* The frame on the air is followed by the next when its last character is taken.
LEMMA UpcomingThen ==
  ASSUME TxInv, onAir' \in Sent, took' \in 1..Len(Line(onAir')),
         onAir' \in hit', took' = Len(Line(onAir')) => onAir' + 1 \in hit'
  PROVE  Upcoming' \in hit'
  <1>1. onAir' \in Nat /\ onAir' > 0 /\ Len(Line(onAir')) \in Nat
    BY LineIs DEF Sent
  <1>2. Inside' \/ took' = Len(Line(onAir'))
    BY <1>1 DEF Inside
  <1> QED
    BY <1>2 DEF Upcoming

\* A character more of a frame that nothing has hit, on the air and in the FIFO.
LEMMA ClearMore ==
  ASSUME RxTypes, NEW O, ReceiverOk(O), Inside, onAir \in Sent, onAir \notin hit, took \in Nat,
         NEW x \in Nat, x = Line(onAir)[took + 1]
  PROVE  /\ Len(rxFifo) \notin O
         /\ Lies(onAir, took + 1, Len(rxFifo) - took, Append(rxFifo, x), OpenMore(rxFifo, x, O))
         /\ Polled(onAir, Len(rxFifo) - took, frame, escape, sync)
  <1>1. rxFifo \in Seq(Nat) /\ Open(rxFifo, escape, O) /\ Len(rxFifo) \notin O
    BY DEF RxTypes, ReceiverOk, Upcoming
  <1>2. Kept(onAir, took, Len(rxFifo) - took, O)
    BY DEF ReceiverOk
  <1>3. Lies(onAir, took, Len(rxFifo) - took, rxFifo, O)
    BY <1>2 DEF Kept
  <1>4. Lies(onAir, took + 1, Len(rxFifo) - took, Append(rxFifo, x), OpenMore(rxFifo, x, O))
    BY <1>1, <1>3, LiesMore
  <1> QED
    BY <1>1, <1>2, <1>4 DEF Kept

LEMMA LostFlag ==
  ASSUME TxInv, RxTypes, LostInv, PlainChar, Head(txFifo) = Flag, HearFlag,
         Taken(1, Overrun(<<Flag>>))
  PROVE  LostInv'
  <1>1. PICK O : ReceiverOk(O)
    BY DEF LostInv
  <1>2. /\ onAir' = Now(onAir, took) /\ took' = Far(onAir, took)
        /\ onAir' \in Sent /\ took' \in 1..Len(Line(onAir')) /\ Line(onAir')[took'] = Flag
    <2>1. txFifo # <<>>
      BY DEF PlainChar
    <2>2. onAir' = Now(onAir, took) /\ took' = Far(onAir, took)
      BY TxPlain
    <2>3. /\ Now(onAir, took) \in 1..next
          /\ Far(onAir, took) \in 1..Len(Line(Now(onAir, took)))
          /\ Flag = Line(Now(onAir, took))[Far(onAir, took)]
      BY <2>1, TxTake
    <2>4. Now(onAir, took) \in Sent
      BY <2>3, SentNat DEF TxInv, Queued, Sent
    <2> QED
      BY <2>2, <2>3, <2>4
  <1>3. UNCHANGED ctx /\ sending' /\ preamble' = 0
    BY DEF PlainChar
  <1>4. Open(rxFifo, escape, O) /\ rxFifo \in Seq(Nat) /\ Len(rxFifo) \in Nat
    BY <1>1 DEF ReceiverOk, RxTypes
  <1>5. CASE Overrun(<<Flag>>)
    <2>1. hit' = hit \cup Touched(onAir', took' = Len(Line(onAir')))
      BY <1>5 DEF Taken
    <2>2. hit \subseteq hit' /\ onAir' \in hit'
          /\ (took' = Len(Line(onAir')) => onAir' + 1 \in hit')
      BY <2>1 DEF Touched
    <2>3. PICK P : /\ Grown(rxFifo, O, rxFifo', P) /\ Open(rxFifo', escape, P)
                   /\ Len(rxFifo') \in P => ~rxstart'
      BY <1>4, FlagKept
    <2>4. Upcoming' \in hit'
      BY <1>2, <2>2, UpcomingThen
    <2> QED
      BY <1>1, <1>2, <1>3, <2>2, <2>3, <2>4, LostTaken
  <1>6. CASE ~Overrun(<<Flag>>)
    <2> DEFINE P == OpenMore(rxFifo, Flag, O)
               r == Append(rxFifo, Flag)
    <2>1. hit' = hit
      BY <1>6 DEF Taken
    <2>2. rxFifo' = r /\ rxstart'
      <3>1. Len(rxFifo) < RxRoom
        <4>1. Len(<<Flag>>) = 1
          OBVIOUS
        <4>2. 1 <= RxRoom - Len(rxFifo)
          BY <1>6, <4>1, OverrunIs
        <4> QED
          BY <1>4, <4>2, Sizes
      <3> QED
        BY <3>1 DEF HearFlag
    <2>3. Flag \in Nat /\ Flag # Esc
      BY DEF Flag, Esc
    <2>4. /\ Open(r, escape, P) /\ Grown(rxFifo, O, r, P) /\ Len(r) = Len(rxFifo) + 1
          /\ Len(rxFifo) + 1 \notin P
      BY <1>4, <2>3, OpenGrows
    <2> HIDE DEF P, r
    <2>5. ASSUME onAir' \notin hit' PROVE Clear(P)
      <3>1. CASE Inside
        <4>1. onAir' = onAir /\ took' = took + 1 /\ took \in Nat
          <5>1. onAir' = onAir /\ took' = took + 1
            BY <1>2, <3>1 DEF Now, Far, Going, Inside
          <5>2. took \in Nat
            BY DEF TxInv, Queued
          <5> QED
            BY <5>1, <5>2
        <4>2. Line(onAir)[took + 1] = Flag
          BY <1>2, <4>1
        <4>3. /\ Lies(onAir, took + 1, Len(rxFifo) - took, r, P)
              /\ Polled(onAir, Len(rxFifo) - took, frame, escape, sync)
          BY <1>1, <1>2, <2>1, <2>3, <2>5, <3>1, <4>1, <4>2, ClearMore DEF r, P
        <4>4. Aligned(onAir, took)
          BY <2>1, <2>5, <3>1, <4>1 DEF LostInv, AirInv
        <4>5. took + 1 = Len(Line(onAir))
          BY <1>2, <4>1, <4>2, <4>4, AlignedNext
        <4>6. ~Inside'
          BY <1>2, <4>1, <4>5, LineIs DEF Inside
        <4>7. Len(r) - (took + 1) = Len(rxFifo) - took
          BY <1>4, <2>4, <4>1
        <4>8. Len(r) > 0
          BY <1>4, <2>4
        <4> QED
          BY <2>2, <2>4, <4>1, <4>3, <4>6, <4>7, <4>8 DEF Clear
      <3>2. CASE ~Inside
        <4>1. took' = 1 /\ onAir' = onAir + 1
          BY <1>2, <3>2 DEF Now, Far, Going, Inside
        <4>2. Len(rxFifo) \notin O
          BY <1>1, <2>1, <2>5, <3>2, <4>1 DEF ReceiverOk, Upcoming
        <4>3. Lies(onAir', 1, Len(rxFifo), r, P)
          BY <1>2, <1>4, <4>2, LiesFirst DEF r, P
        <4>4. Polled(onAir', Len(rxFifo), frame, escape, sync)
          BY <1>4 DEF Polled
        <4>5. Aligned(onAir', 1)
          BY <1>2, AlignedFirst
        <4>6. Len(r) - 1 = Len(rxFifo) /\ Len(r) > 0
          BY <1>4, <2>4
        <4> QED
          BY <1>3, <2>2, <2>4, <4>1, <4>3, <4>4, <4>5, <4>6 DEF Clear
      <3> QED
        BY <3>1, <3>2
    <2> QED
      BY <1>1, <1>2, <1>3, <2>1, <2>2, <2>4, <2>5, LostTaken
  <1> QED
    BY <1>5, <1>6

LEMMA LostPlain ==
  ASSUME TxInv, RxTypes, LostInv, PlainChar, Head(txFifo) \notin {Flag, Reset},
         HearChar(Head(txFifo)),
         Taken(1, rxstart /\ Overrun(<<Flag>>))
  PROVE  LostInv'
  <1> DEFINE c == Head(txFifo)
  <1>1. PICK O : ReceiverOk(O)
    BY DEF LostInv
  <1>2. /\ onAir' = Now(onAir, took) /\ took' = Far(onAir, took)
        /\ onAir' \in Sent /\ took' \in 1..Len(Line(onAir')) /\ c = Line(onAir')[took']
        /\ c # Esc /\ c # Flag /\ c # Reset
    <2>1. txFifo # <<>> /\ c # Esc
      BY DEF PlainChar
    <2>2. onAir' = Now(onAir, took) /\ took' = Far(onAir, took)
      BY TxPlain
    <2>3. /\ Now(onAir, took) \in 1..next
          /\ Far(onAir, took) \in 1..Len(Line(Now(onAir, took)))
          /\ c = Line(Now(onAir, took))[Far(onAir, took)]
      BY <2>1, TxTake
    <2>4. Now(onAir, took) \in Sent
      BY <2>3, SentNat DEF TxInv, Queued, Sent
    <2> QED
      BY <2>1, <2>2, <2>3, <2>4
  <1>3. c # Flag /\ HearChar(c) /\ UNCHANGED ctx /\ sending' /\ preamble' = 0
    BY DEF PlainChar
  <1>4. Open(rxFifo, escape, O) /\ rxFifo \in Seq(Nat) /\ Len(rxFifo) \in Nat
        /\ (rxstart => Len(rxFifo) \notin O)
    BY <1>1 DEF ReceiverOk, RxTypes
  <1> HIDE DEF c
  <1>5. c \in Nat /\ ~Special(c)
    BY <1>2, LineIs DEF Special
  <1>6. Inside /\ onAir' = onAir /\ took' = took + 1 /\ took \in Nat
    <2>1. Inside
      <3> SUFFICES ASSUME ~Inside PROVE FALSE
        OBVIOUS
      <3>1. took' = 1
        BY <1>2 DEF Far, Going, Inside
      <3> QED
        BY <1>2, <1>3, <3>1, LineIs
    <2>2. took \in Nat
      BY <2>1 DEF TxInv, Queued, Inside
    <2> QED
      BY <1>2, <2>1, <2>2 DEF Now, Far, Going, Inside
  <1>7. took' # Len(Line(onAir'))
    BY <1>2, <1>3, LineIs
  <1>8. hit' = hit \cup (IF rxstart /\ Overrun(<<Flag>>) THEN {onAir'} ELSE {})
    BY <1>7 DEF Taken, Touched
  <1>9. CASE onAir' \in hit'
    <2>1. PICK P : /\ Grown(rxFifo, O, rxFifo', P) /\ Open(rxFifo', escape, P)
                   /\ Len(rxFifo') \in P => ~rxstart'
      BY <1>3, <1>4, <1>5, CharKept
    <2>2. Upcoming' \in hit'
      BY <1>2, <1>7, <1>9, UpcomingThen
    <2> QED
      BY <1>1, <1>2, <1>3, <1>8, <1>9, <2>1, <2>2, LostTaken
  <1>10. CASE onAir' \notin hit'
    <2> DEFINE P == OpenMore(rxFifo, c, O)
               r == Append(rxFifo, c)
    <2>1. onAir \notin hit /\ onAir \in Sent
      BY <1>2, <1>6, <1>8, <1>10
    <2>2. rxstart /\ Aligned(onAir, took) /\ Len(rxFifo) \notin O
      BY <1>4, <1>6, <2>1 DEF LostInv, AirInv
    <2>3. rxFifo' = r /\ rxstart' = rxstart
      <3>1. ~Overrun(<<Flag>>) /\ Len(<<Flag>>) = 1
        BY <1>8, <1>10, <2>2
      <3>2. 1 <= RxRoom - Len(rxFifo)
        BY <3>1, OverrunIs
      <3>3. Unit(c) = <<c>> /\ Len(<<c>>) = 1
        BY <1>5 DEF Unit
      <3>4. rxFifo' = rxFifo \o <<c>> /\ rxstart' = rxstart
        BY <1>3, <2>2, <3>2, <3>3 DEF HearChar, Pushed
      <3> QED
        BY <1>4, <1>5, <3>4, ConcatOne
    <2>4. /\ Open(r, escape, P) /\ Grown(rxFifo, O, r, P) /\ Len(r) = Len(rxFifo) + 1
          /\ Len(rxFifo) + 1 \notin P
      BY <1>2, <1>4, <1>5, OpenGrows
    <2>5. c = Line(onAir)[took + 1]
      BY <1>2, <1>6
    <2>6. /\ Lies(onAir, took + 1, Len(rxFifo) - took, r, P)
          /\ Polled(onAir, Len(rxFifo) - took, frame, escape, sync)
      BY <1>1, <1>5, <1>6, <2>1, <2>5, ClearMore
    <2> HIDE DEF P, r
    <2>7. Aligned(onAir, took + 1)
      BY <1>5, <2>1, <2>2, <2>5, AlignedNext
    <2>8. Len(r) - (took + 1) = Len(rxFifo) - took /\ Len(r) > 0
      BY <1>4, <1>6, <2>4
    <2>9. Clear(P)
      BY <1>3, <1>6, <2>2, <2>3, <2>4, <2>6, <2>7, <2>8 DEF Clear
    <2> QED
      BY <1>1, <1>2, <1>3, <1>8, <2>3, <2>4, <2>9, LostTaken
  <1> QED
    BY <1>9, <1>10

\* A reset has lost its escape: its frame has been hit.
LEMMA LostReset ==
  ASSUME TxInv, RxTypes, LostInv, PlainChar, Head(txFifo) = Reset, HearReset, Taken(1, FALSE)
  PROVE  LostInv'
  <1>1. PICK O : ReceiverOk(O)
    BY DEF LostInv
  <1>2. /\ onAir' = Now(onAir, took) /\ took' = Far(onAir, took)
        /\ onAir' \in Sent /\ took' \in 1..Len(Line(onAir')) /\ Line(onAir')[took'] = Reset
    <2>1. txFifo # <<>>
      BY DEF PlainChar
    <2>2. onAir' = Now(onAir, took) /\ took' = Far(onAir, took)
      BY TxPlain
    <2>3. /\ Now(onAir, took) \in 1..next
          /\ Far(onAir, took) \in 1..Len(Line(Now(onAir, took)))
          /\ Reset = Line(Now(onAir, took))[Far(onAir, took)]
      BY <2>1, TxTake
    <2>4. Now(onAir, took) \in Sent
      BY <2>3, SentNat DEF TxInv, Queued, Sent
    <2> QED
      BY <2>2, <2>3, <2>4
  <1>3. UNCHANGED ctx /\ hit' = hit /\ rxFifo' = rxFifo /\ ~rxstart'
    BY DEF PlainChar, Taken, HearReset
  <1>4. Open(rxFifo, escape, O) /\ rxFifo \in Seq(Nat)
    BY <1>1 DEF ReceiverOk, RxTypes
  <1>5. Flag # Reset
    BY DEF Flag, Reset
  <1>6. took' # 1 /\ took' # Len(Line(onAir'))
    BY <1>2, <1>5, LineIs
  <1>7. Inside
    BY <1>2, <1>6 DEF Far, Going, Inside
  <1>8. onAir' = onAir /\ took' = took + 1
    BY <1>2, <1>7 DEF Now, Far, Going, Inside
  <1>9. onAir' \in hit'
    <2> SUFFICES ASSUME onAir \notin hit PROVE FALSE
      BY <1>3, <1>8
    <2>1. Aligned(onAir, took)
      BY <1>7 DEF LostInv, AirInv
    <2> QED
      BY <1>2, <1>8, <2>1, AlignedNext
  <1>10. Grown(rxFifo, O, rxFifo', O) /\ Open(rxFifo', escape, O)
    BY <1>3, <1>4, GrownNot
  <1>11. Upcoming' \in hit'
    BY <1>2, <1>6, <1>9, UpcomingThen
  <1> QED
    BY <1>1, <1>2, <1>3, <1>9, <1>10, <1>11, LostTaken

LEMMA LostEscaped ==
  ASSUME TxInv, RxTypes, LostInv, EscapedChar
  PROVE  LostInv'
  <1> DEFINE c == txFifo[2]
  <1>1. PICK O : ReceiverOk(O)
    BY DEF LostInv
  <1>2. txFifo # <<>> /\ Head(txFifo) = Esc /\ Len(txFifo) > 1
    BY DEF EscapedChar
  <1>3. /\ Inside /\ onAir' = onAir /\ took' = took + 2 /\ took \in Nat
        /\ onAir \in Sent /\ took + 1 < Len(Line(onAir)) - 1 /\ Len(Line(onAir)) \in Nat
        /\ c = Line(onAir)[took + 2] /\ c \in Nat /\ Line(onAir)[took + 1] = Esc
    <2>1. Inside /\ onAir' = onAir /\ took' = took + 2
      BY TxEscaped
    <2>2. onAir \in 1..next /\ took + 1 < Len(Line(onAir)) - 1 /\ took \in Nat
      BY <1>2, TxTakeEscape
    <2>3. c = Line(onAir)[took + 2] /\ c \in Nat
      BY <1>2, TxTakeSecond
    <2>4. Line(onAir)[took + 1] = Esc
      <3>1. Now(onAir, took) = onAir /\ Far(onAir, took) = took + 1
        BY <2>1 DEF Now, Far, Going, Inside
      <3> QED
        BY <1>2, <3>1, TxTake
    <2>5. onAir \in Sent
      BY <2>2, SentNat DEF TxInv, Queued, Sent
    <2> QED
      BY <2>1, <2>2, <2>3, <2>4, <2>5, LineIs
  <1>4. HearChar(c) /\ UNCHANGED ctx /\ sending' /\ preamble' = 0
    BY DEF EscapedChar
  <1>5. Open(rxFifo, escape, O) /\ rxFifo \in Seq(Nat) /\ Len(rxFifo) \in Nat
        /\ (rxstart => Len(rxFifo) \notin O)
    BY <1>1 DEF ReceiverOk, RxTypes
  <1> DEFINE over == rxstart /\ Overrun(Unit(c))
  <1>6. hit' = hit \cup (IF over THEN Touched(onAir', took' = Len(Line(onAir'))) ELSE {})
    BY <1>3 DEF EscapedChar, Taken
  <1> HIDE DEF c
  <1>7. took' \in 1..Len(Line(onAir')) /\ took' # Len(Line(onAir')) /\ onAir' \in Sent
    BY <1>3
  <1>8. hit' = hit \cup (IF over THEN {onAir} ELSE {})
    BY <1>3, <1>6, <1>7 DEF Touched
  <1>9. CASE onAir' \in hit'
    <2>1. PICK P : /\ Grown(rxFifo, O, rxFifo', P) /\ Open(rxFifo', escape, P)
                   /\ Len(rxFifo') \in P => ~rxstart'
      BY <1>3, <1>4, <1>5, CharKept
    <2>2. Upcoming' \in hit'
      BY <1>3, <1>7, <1>9, UpcomingThen
    <2> QED
      BY <1>1, <1>3, <1>4, <1>7, <1>8, <1>9, <2>1, <2>2, LostTaken
  <1>10. CASE onAir' \notin hit'
    <2> DEFINE r == Append(rxFifo, Esc)
               P == OpenMore(rxFifo, Esc, O)
               s == Append(r, c)
               R == OpenMore(r, c, P)
    <2>1. onAir \notin hit /\ Esc \in Nat
      BY <1>3, <1>8, <1>10 DEF Esc
    <2>2. rxstart /\ Aligned(onAir, took) /\ Len(rxFifo) \notin O
      BY <1>3, <1>5, <2>1 DEF LostInv, AirInv
    <2>3. Aligned(onAir, took + 2) /\ Special(c)
      BY <1>3, <2>2, AlignedNext
    <2>4. rxFifo' = s /\ rxstart' = rxstart
      <3>1. Unit(c) = <<Esc, c>> /\ Len(<<Esc, c>>) \in Nat
        BY <1>3, <2>3 DEF Unit
      <3>2. ~Overrun(<<Esc, c>>)
        BY <1>3, <1>8, <1>10, <2>2, <3>1
      <3>3. Len(<<Esc, c>>) <= RxRoom - Len(rxFifo)
        BY <3>1, <3>2, OverrunIs
      <3>4. rxFifo' = rxFifo \o <<Esc, c>> /\ rxstart' = rxstart
        BY <1>4, <2>2, <3>1, <3>3 DEF HearChar, Pushed
      <3> QED
        BY <1>3, <1>5, <2>1, <3>4, ConcatOne
    <2>5. /\ Open(r, escape, P) /\ Grown(rxFifo, O, r, P) /\ Len(r) = Len(rxFifo) + 1
          /\ Len(rxFifo) + 1 \in P /\ r \in Seq(Nat)
      BY <1>5, <2>1, <2>2, OpenGrows, ConcatOne
    <2>6. /\ Lies(onAir, took + 1, Len(rxFifo) - took, r, P)
          /\ Polled(onAir, Len(rxFifo) - took, frame, escape, sync)
      BY <1>1, <1>3, <2>1, ClearMore
    <2> HIDE DEF r, P
    <2>7. /\ Open(s, escape, R) /\ Grown(r, P, s, R) /\ Len(s) = Len(r) + 1
          /\ Len(r) + 1 \notin R
      BY <1>3, <2>5, OpenGrows
    <2>8. Lies(onAir, took + 2, Len(rxFifo) - took, s, R)
      <3>1. Len(r) - (took + 1) = Len(rxFifo) - took /\ (took + 1) + 1 = took + 2
            /\ took + 1 \in Nat
        BY <1>3, <1>5, <2>5
      <3>2. Lies(onAir, took + 1, Len(r) - (took + 1), r, P)
        BY <2>6, <3>1
      <3>3. c = Line(onAir)[(took + 1) + 1]
        BY <1>3, <3>1
      <3>4. Lies(onAir, (took + 1) + 1, Len(r) - (took + 1), s, R)
        BY <1>3, <2>5, <3>1, <3>2, <3>3, LiesMore
      <3> QED
        BY <3>1, <3>4
    <2> HIDE DEF s, R
    <2>9. Grown(rxFifo, O, s, R)
      BY <1>5, <2>5, <2>7, GrownTwice
    <2>10. Len(s) - (took + 2) = Len(rxFifo) - took /\ Len(s) > 0
      BY <1>3, <1>5, <2>5, <2>7
    <2>11. Clear(R)
      BY <1>3, <1>4, <2>2, <2>3, <2>4, <2>6, <2>7, <2>8, <2>10 DEF Clear
    <2>12. Open(rxFifo', escape, R) /\ Grown(rxFifo, O, rxFifo', R) /\ Len(rxFifo') \notin R
      BY <2>4, <2>7, <2>9
    <2> QED
      BY <1>1, <1>3, <1>4, <1>7, <1>8, <2>11, <2>12, LostTaken
  <1> QED
    BY <1>9, <1>10

-----------------------------------------------------------------------------
(* A poll.                                                                  *)

\* What has been polled of a frame is less than what is written of it, until its end.
LEMMA DecodedShort ==
  ASSUME NEW k \in Sent, NEW t, NEW f \in Seq(Nat), NEW esc \in BOOLEAN, Decoded(k, t, f, esc)
  PROVE  t < Len(Line(k))
  <1> DEFINE p == Pos(k)
             n == Len(Content(k))
             j == Len(f)
  <1>1. /\ p \in [0..n -> Nat] /\ n \in Nat \ {0} /\ Len(Line(k)) = p[n] + 2
        /\ \A i \in 0..n : i < n => p[i] < p[n]
    BY PosIs
  <1>2. j \in Nat /\ j <= n /\ (IF esc THEN j < n /\ t = p[j] + 2 ELSE t = p[j] + 1)
    BY DEF Decoded
  <1> HIDE DEF p, n, j
  <1>3. j \in 0..n /\ n \in 0..n /\ (j = n \/ j < n)
    BY <1>1, <1>2
  <1>4. p[j] \in Nat /\ p[n] \in Nat /\ (j < n => p[j] < p[n])
    BY <1>1, <1>3
  <1>5. Len(Line(k)) = p[n] + 2
    BY <1>1
  <1> QED
    BY <1>2, <1>3, <1>4, <1>5

LEMMA ReceivedMore ==
  ASSUME RxTypes, Poll
  PROVE  \A k : k \in ToSet(received) \/ received' = Append(received, k) => k \in ToSet(received')
  <1> TAKE k
  <1>1. received \in Seq(Sent) /\ received' \in Seq(Sent)
    BY RxPoll DEF RxTypes
  <1>2. received' = received \/ \E j : received' = Append(received, j)
    BY DEF Poll, PollFlag, PollEscape, PollChar
  <1>3. CASE received' = received
    <2>1. received # Append(received, k)
      BY <1>1
    <2> QED
      BY <1>3, <2>1
  <1>4. ASSUME NEW j, received' = Append(received, j)
        PROVE  k \in ToSet(received) \/ received' = Append(received, k) => k \in ToSet(received')
    <2>1. /\ Len(received') = Len(received) + 1 /\ Len(received) \in Nat
          /\ received'[Len(received) + 1] = j
          /\ \A i \in 1..Len(received) : received'[i] = received[i]
      BY <1>1, <1>4
    <2>2. CASE k \in ToSet(received)
      <3>1. PICK i \in 1..Len(received) : k = received[i]
        BY <2>2 DEF ToSet
      <3>2. i \in 1..Len(received') /\ received'[i] = k
        BY <2>1, <3>1
      <3> QED
        BY <3>2 DEF ToSet
    <2>3. CASE received' = Append(received, k)
      <3>1. received'[Len(received) + 1] = k
        BY <1>1, <2>3
      <3>2. Len(received) + 1 \in 1..Len(received')
        BY <2>1
      <3> QED
        BY <3>1, <3>2 DEF ToSet
    <2> QED
      BY <2>2, <2>3
  <1> QED
    BY <1>2, <1>3, <1>4

\* A frame in the FIFO moves up, or has come to its end and to the hook.
LEMMA KeptPoll ==
  ASSUME RxTypes, Poll, NEW O, Open(rxFifo, escape, O),
         NEW k \in Sent, NEW n \in 1..Len(Line(k)), NEW a, Kept(k, n, a, O), a > -n,
         NEW Q, Q = OpenLess(rxFifo, O)
  PROVE  \/ Kept(k, n, a - 1, Q)'
         \/ a = 1 - Len(Line(k)) /\ received' = Append(received, k)
  <1>1. rxFifo \in Seq(Nat) /\ rxFifo # <<>> /\ rxFifo' = Tail(rxFifo) /\ n \in Nat
    BY LineIs DEF RxTypes, Poll
  <1>2. Lies(k, n, a, rxFifo, O) /\ Polled(k, a, frame, escape, sync)
    BY DEF Kept
  <1>3. Lies(k, n, a - 1, Tail(rxFifo), Q)
    BY <1>1, <1>2, LiesLess
  <1>4. CASE Polled(k, a - 1, frame', escape', sync')
    BY <1>1, <1>3, <1>4 DEF Kept
  <1>5. CASE a = 1 - Len(Line(k)) /\ received' = Append(received, k)
    BY <1>5
  <1> QED
    BY <1>2, <1>4, <1>5, PolledNext

LEMMA LostPoll ==
  ASSUME TxInv, RxTypes, LostInv, Poll
  PROVE  LostInv'
  <1>1. PICK O : ReceiverOk(O)
    BY DEF LostInv
  <1>0. PICK Q : Q = OpenLess(rxFifo, O)
    OBVIOUS
  <1> DEFINE c == Head(rxFifo)
  <1>2. UNCHANGED <<onAir, took, hit, rxstart, sending, preamble>>
    BY DEF Poll, dac, track
  <1>3. rxFifo \in Seq(Nat) /\ rxFifo # <<>> /\ rxFifo' = Tail(rxFifo)
    BY DEF RxTypes, Poll
  <1>4. Len(rxFifo) \in Nat \ {0} /\ Len(rxFifo') = Len(rxFifo) - 1 /\ c = rxFifo[1]
    BY <1>3, TailNat
  <1>5. Open(rxFifo, escape, O)
    BY <1>1 DEF ReceiverOk
  <1>6. escape' <=> 1 \in O
    <2>1. 1 \in O <=> ~escape /\ c = Esc
      <3>1. 1 \in 1..Len(rxFifo) /\ 1 - 1 = 0
        BY <1>4
      <3> QED
        BY <1>4, <1>5, <3>1 DEF Open
    <2>2. \/ ~escape /\ c = Flag /\ escape' = escape
          \/ ~escape /\ c = Esc /\ escape' = TRUE
          \/ (escape \/ c # Esc) /\ escape' = FALSE
      BY DEF Poll, PollFlag, PollEscape, PollChar
    <2> HIDE DEF c
    <2>3. Flag # Esc
      BY DEF Flag, Esc
    <2> QED
      BY <2>1, <2>2, <2>3
  <1> HIDE DEF c
  <1>7. Open(Tail(rxFifo), escape', Q)
    BY <1>0, <1>3, <1>5, <1>6, OpenShrinks
  <1>8. Len(rxFifo') \in Q => Len(rxFifo) \in O
    <2>1. (Len(rxFifo) - 1) + 1 = Len(rxFifo)
      BY <1>4
    <2> QED
      BY <1>0, <1>4, <2>1 DEF OpenLess
  <1>9. /\ frame' \in Seq(Nat) /\ escape' \in BOOLEAN /\ onAir \in Nat
        /\ IF onAir = 0 THEN took = 0 ELSE onAir \in Sent /\ took \in 1..Len(Line(onAir))
    <2>1. RxTypes'
      BY RxPoll
    <2>2. onAir \in 0..next /\ next \in 0..Len(Frames) /\ onAir \in Nat
          /\ IF onAir = 0 THEN took = 0 ELSE took \in 1..Len(Line(onAir))
      BY SentNat DEF TxInv, Queued
    <2>3. onAir # 0 => onAir \in Sent
      BY <2>2, SentNat DEF Sent
    <2> QED
      BY <2>1, <2>2, <2>3 DEF RxTypes
  <1>10. ASSUME NEW k \in Sent \ hit, Complete(k)
         PROVE  \/ k \in ToSet(received')
                \/ \E a : a >= 1 - Len(Line(k)) /\ Kept(k, Len(Line(k)), a, Q)'
    <2>1. Len(Line(k)) \in Nat /\ Len(Line(k)) > 2 /\ Len(Line(k)) \in 1..Len(Line(k))
      BY LineIs
    <2>2. CASE k \in ToSet(received)
      BY <2>2, ReceivedMore
    <2>3. ASSUME NEW a, a >= 1 - Len(Line(k)), Kept(k, Len(Line(k)), a, O)
          PROVE  \/ k \in ToSet(received')
                 \/ \E b : b >= 1 - Len(Line(k)) /\ Kept(k, Len(Line(k)), b, Q)'
      <3>1. a \in Int /\ a > -Len(Line(k))
        BY <2>1, <2>3 DEF Kept, Lies
      <3>2. CASE received' = Append(received, k)
        BY <3>2, ReceivedMore
      <3>3. CASE Kept(k, Len(Line(k)), a - 1, Q)'
        <4>1. a # 1 - Len(Line(k))
          <5> SUFFICES ASSUME a = 1 - Len(Line(k)) PROVE FALSE
            OBVIOUS
          <5>1. a - 1 < 0 /\ 0 - (a - 1) = Len(Line(k))
            BY <2>1
          <5>2. Polled(k, a - 1, frame', escape', sync')
            BY <3>3 DEF Kept
          <5>3. Decoded(k, Len(Line(k)), frame', escape')
            BY <5>1, <5>2 DEF Polled
          <5>4. Len(Line(k)) < Len(Line(k))
            BY <1>9, <5>3, DecodedShort
          <5> QED
            BY <2>1, <5>4
        <4>2. a - 1 >= 1 - Len(Line(k))
          BY <2>1, <2>3, <3>1, <4>1
        <4> QED
          BY <3>3, <4>2
      <3> QED
        BY <1>0, <1>5, <2>1, <2>3, <3>1, <3>2, <3>3, KeptPoll
    <2> QED
      BY <1>1, <1>10, <2>2, <2>3 DEF ReceiverOk
  <1>11. ASSUME Inside, onAir \notin hit
         PROVE  Kept(onAir, took, Len(rxFifo) - took, Q)'
    <2>1. onAir \in Sent /\ took \in 1..Len(Line(onAir)) /\ took < Len(Line(onAir))
          /\ took \in Nat /\ Len(Line(onAir)) \in Nat
      BY <1>9, <1>11, LineIs DEF Inside
    <2>0. PICK a : a = Len(rxFifo) - took
      OBVIOUS
    <2>2. Kept(onAir, took, a, O)
      BY <1>1, <1>11, <2>0 DEF ReceiverOk
    <2>3. a > -took /\ a # 1 - Len(Line(onAir)) /\ a - 1 = Len(rxFifo') - took
      BY <1>4, <2>1, <2>0
    <2>4. \/ Kept(onAir, took, a - 1, Q)'
          \/ a = 1 - Len(Line(onAir)) /\ received' = Append(received, onAir)
      <3>1. PICK k : k = onAir
        OBVIOUS
      <3>2. PICK n : n = took
        OBVIOUS
      <3>3. k \in Sent /\ n \in 1..Len(Line(k)) /\ Kept(k, n, a, O) /\ a > -n
        BY <2>1, <2>2, <2>3, <3>1, <3>2
      <3>4. \/ Kept(k, n, a - 1, Q)'
            \/ a = 1 - Len(Line(k)) /\ received' = Append(received, k)
        BY <1>0, <1>5, <3>3, KeptPoll
      <3> QED
        BY <1>2, <3>1, <3>2, <3>4 DEF Kept
    <2> QED
      BY <1>2, <2>3, <2>4 DEF Kept
  <1>12. ReceiverOk(Q)'
    <2>1. /\ Inside' <=> Inside
          /\ Upcoming' = Upcoming
          /\ \A k : Complete(k)' <=> Complete(k)
      BY <1>2 DEF Inside, Upcoming, Complete
    <2>2. Open(rxFifo, escape, Q)'
      BY <1>3, <1>7
    <2>3. (Len(rxFifo) \in Q => ~rxstart /\ Upcoming \in hit)'
      BY <1>1, <1>2, <1>8, <2>1 DEF ReceiverOk
    <2>4. ASSUME NEW k \in Sent \ hit', Complete(k)'
          PROVE  \/ k \in ToSet(received')
                 \/ \E a : a >= 1 - Len(Line(k)) /\ Kept(k, Len(Line(k)), a, Q)'
      BY <1>2, <1>10, <2>1, <2>4
    <2>5. (Inside /\ onAir \notin hit => Kept(onAir, took, Len(rxFifo) - took, Q))'
      BY <1>2, <1>11, <2>1
    <2> QED
      BY <2>2, <2>3, <2>4, <2>5 DEF ReceiverOk
  <1>13. AirInv'
    BY <1>2 DEF LostInv, AirInv, Inside
  <1> QED
    BY <1>12, <1>13 DEF LostInv

-----------------------------------------------------------------------------
(* The theorem.                                                             *)

LEMMA LostInit == Init => LostInv
  <1> SUFFICES ASSUME Init PROVE LostInv
    OBVIOUS
  <1>1. onAir = 0 /\ took = 0 /\ hit = {} /\ rxFifo = <<>> /\ escape = FALSE
    BY DEF Init
  <1>2. ~Inside
    BY <1>1 DEF Inside
  <1>3. \A k \in Sent : ~Complete(k)
    BY <1>1 DEF Complete, Sent
  <1>4. Open(rxFifo, escape, {})
    <2>1. Len(rxFifo) = 0
      BY <1>1
    <2> QED
      BY <1>1, <2>1 DEF Open
  <1>5. ReceiverOk({})
    BY <1>2, <1>3, <1>4 DEF ReceiverOk
  <1> QED
    BY <1>2, <1>5 DEF LostInv, AirInv

LEMMA LostStep == ModemInv /\ LostInv /\ [Next]_vars => LostInv'
  <1> SUFFICES ASSUME TxInv, RxTypes, LostInv, [Next]_vars PROVE LostInv'
    BY DEF ModemInv
  <1>1. CASE Writer \/ UNCHANGED vars
    <2>1. UNCHANGED <<adc, ctx, track>>
      BY <1>1 DEF Writer, Begin, Push, Start, SetTrailer, vars
    <2>2. sending /\ preamble = 0 => sending' /\ preamble' = 0
      BY <1>1 DEF Writer, Begin, Push, Start, SetTrailer, vars, dac
    <2> QED
      BY <2>1, <2>2, LostSame
  <1>2. CASE PlainChar
    BY <1>2, LostFlag, LostReset, LostPlain DEF PlainChar
  <1> QED
    BY <1>1, <1>2, LostOff, LostEscaped, LostPoll DEF Next, Modulator

(* A frame that nothing has hit on its way and that has been polled has reached *)
(* the hook, whatever the FIFOs' rooms, the frames and the noise                *)
(* (hdlc_parse(), ax25_poll(), afsk_dac_isr()).                                 *)
THEOREM ModemLostOnlyIfHit == Spec => []LostOnlyIfHit
  <1>1. Init => ModemInv /\ LostInv
    BY ModemInit, LostInit
  <1>2. ModemInv /\ LostInv /\ [Next]_vars => (ModemInv /\ LostInv)'
    BY ModemStep, LostStep
  <1>3. ModemInv /\ LostInv => LostOnlyIfHit
    BY LostNone DEF ModemInv
  <1> QED
    BY <1>1, <1>2, <1>3, PTL DEF Spec
-----------------------------------------------------------------------------
(* The line code: what the demodulator of a link makes of what its modulator *)
(* sends.                                                                   *)

\* The states of a demodulator, whatever it has heard and pushed.
Demodulator ==
  [found : 0..1, bits : 0..255, char : 0..127, idx : 0..7, start : BOOLEAN, out : Seq(0..255)]

\* The parts of a link, by their values.
Mod(tone, ones, char) == [tone |-> tone, ones |-> ones, char |-> char]
Dem(found, bits, char, idx, start, out) ==
  [found |-> found, bits |-> bits, char |-> char, idx |-> idx, start |-> start, out |-> out]
Pair(m, d) == [mod |-> m, dem |-> d]

\* The truth values, where they are the fields of a record.
Yes == TRUE
No == FALSE

Shifted(bits, bit) == (2 * bits + bit) % 256

LEMMA TakeBitIs ==
  ASSUME NEW f, NEW b, NEW c, NEW i, NEW s, NEW o, NEW bit
  PROVE  LET r == Dem(f, b, c, i, s, o) IN
           /\ i = 7 => TakeBit(r, bit) = Dem(f, b, 0, 0, s, o \o Unit(c + 128 * bit))
           /\ i # 7 => TakeBit(r, bit) = Dem(f, b, (c + 128 * bit) \div 2, i + 1, s, o)
  <1> DEFINE r == Dem(f, b, c, i, s, o)
             v == c + 128 * bit
             p == o \o Unit(v)
             h == v \div 2
             k == i + 1
  <1>1. r.idx = i /\ r.out = o /\ r.char = c
    BY DEF Dem
  <1>2. /\ i = 7 => TakeBit(r, bit) = [[[r EXCEPT !.out = p] EXCEPT !.char = 0] EXCEPT !.idx = 0]
        /\ i # 7 => TakeBit(r, bit) = [[r EXCEPT !.char = h] EXCEPT !.idx = k]
    <2> HIDE DEF r
    <2> QED
      BY <1>1 DEF TakeBit
  <1> HIDE DEF v, p, h, k
  <1>3. [[[r EXCEPT !.out = p] EXCEPT !.char = 0] EXCEPT !.idx = 0] = Dem(f, b, 0, 0, s, p)
    <2>1. [r EXCEPT !.out = p] = Dem(f, b, c, i, s, p)
      BY DEF Dem
    <2>2. [Dem(f, b, c, i, s, p) EXCEPT !.char = 0] = Dem(f, b, 0, i, s, p)
      BY DEF Dem
    <2>3. [Dem(f, b, 0, i, s, p) EXCEPT !.idx = 0] = Dem(f, b, 0, 0, s, p)
      BY DEF Dem
    <2> QED
      BY <2>1, <2>2, <2>3
  <1>4. [[r EXCEPT !.char = h] EXCEPT !.idx = k] = Dem(f, b, h, k, s, o)
    <2>1. [r EXCEPT !.char = h] = Dem(f, b, h, i, s, o)
      BY DEF Dem
    <2>2. [Dem(f, b, h, i, s, o) EXCEPT !.idx = k] = Dem(f, b, h, k, s, o)
      BY DEF Dem
    <2> QED
      BY <2>1, <2>2
  <1>5. /\ i = 7 => TakeBit(r, bit) = Dem(f, b, 0, 0, s, p)
        /\ i # 7 => TakeBit(r, bit) = Dem(f, b, h, k, s, o)
    BY <1>2, <1>3, <1>4
  <1> QED
    BY <1>5 DEF v, p, h, k

LEMMA ParseIs ==
  ASSUME NEW f, NEW b, NEW c, NEW i, NEW s, NEW o, NEW bit
  PROVE  LET r == Dem(f, b, c, i, s, o) IN
           /\ b = Flag => Parse(r, bit) = Dem(f, b, 0, 0, Yes, Append(o, Flag))
           /\ b # Flag /\ b % 128 = Reset => Parse(r, bit) = Dem(f, b, c, i, No, o)
           /\ b # Flag /\ b % 128 # Reset /\ (s = No \/ SeesStuffing(b)) => Parse(r, bit) = r
           /\ b # Flag /\ b % 128 # Reset /\ s = Yes /\ ~SeesStuffing(b) =>
                Parse(r, bit) = TakeBit(r, bit)
  <1> DEFINE r == Dem(f, b, c, i, s, o)
             p == Append(o, Flag)
  <1>1. r.bits = b /\ r.out = o /\ r.start = s
    BY DEF Dem
  <1>2. CASE b = Flag
    <2>1. Parse(r, bit) = [[[[r EXCEPT !.out = p] EXCEPT !.start = Yes]
                             EXCEPT !.char = 0] EXCEPT !.idx = 0]
      <3> HIDE DEF r
      <3> QED
        BY <1>1, <1>2 DEF Parse, Yes
    <2> HIDE DEF p
    <2>2. [[[[r EXCEPT !.out = p] EXCEPT !.start = Yes] EXCEPT !.char = 0] EXCEPT !.idx = 0]
            = Dem(f, b, 0, 0, Yes, p)
      <3>1. [r EXCEPT !.out = p] = Dem(f, b, c, i, s, p)
        BY DEF Dem
      <3>2. [Dem(f, b, c, i, s, p) EXCEPT !.start = Yes] = Dem(f, b, c, i, Yes, p)
        BY DEF Dem
      <3>3. [Dem(f, b, c, i, Yes, p) EXCEPT !.char = 0] = Dem(f, b, 0, i, Yes, p)
        BY DEF Dem
      <3>4. [Dem(f, b, 0, i, Yes, p) EXCEPT !.idx = 0] = Dem(f, b, 0, 0, Yes, p)
        BY DEF Dem
      <3> QED
        BY <3>1, <3>2, <3>3, <3>4
    <2> QED
      BY <1>2, <2>1, <2>2 DEF p
  <1>3. CASE b # Flag /\ b % 128 = Reset
    <2>1. Parse(r, bit) = [r EXCEPT !.start = No]
      <3> HIDE DEF r
      <3> QED
        BY <1>1, <1>3 DEF Parse, No
    <2>2. [r EXCEPT !.start = No] = Dem(f, b, c, i, No, o)
      BY DEF Dem
    <2> QED
      BY <1>3, <2>1, <2>2
  <1>4. CASE b # Flag /\ b % 128 # Reset
    <2>1. (s = No \/ SeesStuffing(b)) => Parse(r, bit) = r
      <3> HIDE DEF r
      <3> QED
        BY <1>1, <1>4 DEF Parse, Yes, No
    <2>2. s = Yes /\ ~SeesStuffing(b) => Parse(r, bit) = TakeBit(r, bit)
      <3> HIDE DEF r
      <3> QED
        BY <1>1, <1>4 DEF Parse, Yes, No
    <2> QED
      BY <1>4, <2>1, <2>2
  <1> QED
    BY <1>2, <1>3, <1>4

\* The tone and what is heard of it.
LEMMA SendIs ==
  ASSUME NEW t, NEW n, NEW ch, NEW f, NEW b, NEW c, NEW i, NEW s, NEW o, NEW bit,
         NEW tone, NEW ones, NEW heard,
         tone = IF bit = 1 THEN t ELSE 1 - t, ones = IF bit = 1 THEN n + 1 ELSE 0,
         heard = IF tone = f THEN 1 ELSE 0
  PROVE  Send(Pair(Mod(t, n, ch), Dem(f, b, c, i, s, o)), bit) =
           Pair(Mod(tone, ones, ch), Parse(Dem(tone, Shifted(b, heard), c, i, s, o), heard))
  <1> DEFINE m == Mod(t, n, ch)
             d == Dem(f, b, c, i, s, o)
             shifted == Shifted(b, heard)
  <1>1. m.tone = t /\ m.ones = n /\ d.found = f /\ d.bits = b
    BY DEF Mod, Dem
  <1>2. Pair(m, d).mod = m /\ Pair(m, d).dem = d
    BY DEF Pair
  <1>3. Send(Pair(m, d), bit) =
          Pair([[m EXCEPT !.tone = tone] EXCEPT !.ones = ones], Hear(d, tone))
    <2> HIDE DEF m, d
    <2> QED
      BY <1>1, <1>2 DEF Send, Pair
  <1>4. Hear(d, tone) = Parse([[d EXCEPT !.found = tone] EXCEPT !.bits = shifted], heard)
    <2> HIDE DEF d
    <2> QED
      BY <1>1 DEF Hear, Shifted
  <1> HIDE DEF shifted
  <1>5. [m EXCEPT !.tone = tone] = Mod(tone, n, ch)
    BY DEF Mod
  <1>6. [Mod(tone, n, ch) EXCEPT !.ones = ones] = Mod(tone, ones, ch)
    BY DEF Mod
  <1>7. [d EXCEPT !.found = tone] = Dem(tone, b, c, i, s, o)
    BY DEF Dem
  <1>8. [Dem(tone, b, c, i, s, o) EXCEPT !.bits = shifted] = Dem(tone, shifted, c, i, s, o)
    BY DEF Dem
  <1> QED
    BY <1>3, <1>4, <1>5, <1>6, <1>7, <1>8 DEF shifted

-----------------------------------------------------------------------------
(* The last eight bits that have been heard.                                *)

\* The last of the bits are so many ones and a zero before them.
Trailing(bits, n) ==
  \/ n = 0 /\ bits % 2 = 0
  \/ n = 1 /\ bits % 4 = 1
  \/ n = 2 /\ bits % 8 = 3
  \/ n = 3 /\ bits % 16 = 7
  \/ n = 4 /\ bits % 32 = 15
  \/ n = 5 /\ bits % 64 = 31
  \/ n = 6 /\ bits % 128 = 63

LEMMA ShiftZero ==
  ASSUME NEW bits \in 0..255, NEW n, Trailing(bits, n), n # 6
  PROVE  LET s == Shifted(bits, 0) IN
           /\ s \in 0..255 /\ Trailing(s, 0)
           /\ s # Flag /\ s % 128 # Reset
           /\ SeesStuffing(s) <=> n = 5
  <1>1. Shifted(bits, 0) \in 0..255 /\ Shifted(bits, 0) % 2 = 0
    BY DEF Shifted
  <1>2. Shifted(bits, 0) # Flag
    BY DEF Shifted, Trailing, Flag
  <1>3. Shifted(bits, 0) % 128 # Reset
    BY DEF Shifted, Reset
  <1>4. Shifted(bits, 0) % 64 = 62 <=> n = 5
    BY DEF Shifted, Trailing
  <1> QED
    BY <1>1, <1>2, <1>3, <1>4 DEF Trailing, SeesStuffing

LEMMA ShiftOne ==
  ASSUME NEW bits \in 0..255, NEW n, Trailing(bits, n), n # 6
  PROVE  LET s == Shifted(bits, 1) IN
           /\ s \in 0..255 /\ Trailing(s, n + 1)
           /\ s # Flag /\ s % 128 # Reset /\ ~SeesStuffing(s)
  <1>1. Shifted(bits, 1) \in 0..255 /\ Shifted(bits, 1) % 2 = 1
    BY DEF Shifted
  <1>2. Shifted(bits, 1) # Flag /\ Shifted(bits, 1) % 64 # 62
    BY DEF Shifted, Flag
  <1>3. Shifted(bits, 1) % 128 # Reset
    BY DEF Shifted, Trailing, Reset
  <1>4. CASE n = 0
    BY <1>1, <1>2, <1>3, <1>4 DEF Shifted, Trailing, SeesStuffing
  <1>5. CASE n = 1
    BY <1>1, <1>2, <1>3, <1>5 DEF Shifted, Trailing, SeesStuffing
  <1>6. CASE n = 2
    BY <1>1, <1>2, <1>3, <1>6 DEF Shifted, Trailing, SeesStuffing
  <1>7. CASE n = 3
    BY <1>1, <1>2, <1>3, <1>7 DEF Shifted, Trailing, SeesStuffing
  <1>8. CASE n = 4
    BY <1>1, <1>2, <1>3, <1>8 DEF Shifted, Trailing, SeesStuffing
  <1>9. CASE n = 5
    BY <1>1, <1>2, <1>3, <1>9 DEF Shifted, Trailing, SeesStuffing
  <1> QED
    BY <1>4, <1>5, <1>6, <1>7, <1>8, <1>9 DEF Trailing

-----------------------------------------------------------------------------
(* A character on its way.                                                  *)

\* The demodulator has heard every tone, and has taken k bits of a character.
Taking(l, char, k, v, o) ==
  \E t \in 0..1, n \in 0..5, b \in 0..255 :
    Trailing(b, n) /\ l = Pair(Mod(t, n, char), Dem(t, b, v, k, Yes, o))

\* A bit that is sent after fewer than five ones.
LEMMA DataBit ==
  ASSUME NEW l, NEW v, NEW k, NEW o, NEW bit \in {0, 1},
         Taking(l, Yes, k, v, o), l.mod.ones # 5
  PROVE  /\ k = 7 => Taking(Send(l, bit), Yes, 0, 0, o \o Unit(v + 128 * bit))
         /\ k # 7 => Taking(Send(l, bit), Yes, k + 1, (v + 128 * bit) \div 2, o)
  <1>1. PICK t \in 0..1, n \in 0..5, b \in 0..255 :
          Trailing(b, n) /\ l = Pair(Mod(t, n, Yes), Dem(t, b, v, k, Yes, o))
    BY DEF Taking
  <1>2. n # 5 /\ n # 6
    BY <1>1 DEF Pair, Mod
  <1> DEFINE tone == IF bit = 1 THEN t ELSE 1 - t
             ones == IF bit = 1 THEN n + 1 ELSE 0
             heard == IF tone = t THEN 1 ELSE 0
             s == Shifted(b, bit)
             d == Dem(tone, s, v, k, Yes, o)
  <1>3. tone \in 0..1 /\ ones \in 0..5 /\ heard = bit
    BY <1>2
  <1>4. Send(l, bit) = Pair(Mod(tone, ones, Yes), Parse(d, bit))
    BY <1>1, <1>3, SendIs
  <1>5. s \in 0..255 /\ Trailing(s, ones) /\ s # Flag /\ s % 128 # Reset /\ ~SeesStuffing(s)
    <2>1. CASE bit = 0
      <3>1. ones = 0 /\ s = Shifted(b, 0)
        BY <2>1
      <3> HIDE DEF ones, s
      <3> QED
        BY <1>1, <1>2, <3>1, ShiftZero
    <2>2. CASE bit = 1
      <3>1. ones = n + 1 /\ s = Shifted(b, 1)
        BY <2>2
      <3> HIDE DEF ones, s
      <3> QED
        BY <1>1, <1>2, <3>1, ShiftOne
    <2> QED
      BY <2>1, <2>2
  <1> HIDE DEF tone, ones, heard, s
  <1>6. Parse(d, bit) = TakeBit(d, bit)
    BY <1>5, ParseIs
  <1>7. /\ k = 7 => TakeBit(d, bit) = Dem(tone, s, 0, 0, Yes, o \o Unit(v + 128 * bit))
        /\ k # 7 => TakeBit(d, bit) = Dem(tone, s, (v + 128 * bit) \div 2, k + 1, Yes, o)
    BY TakeBitIs
  <1> HIDE DEF d
  <1>8. CASE k = 7
    <2>1. Send(l, bit) = Pair(Mod(tone, ones, Yes), Dem(tone, s, 0, 0, Yes, o \o Unit(v + 128 * bit)))
      BY <1>4, <1>6, <1>7, <1>8
    <2> QED
      BY <1>3, <1>5, <1>8, <2>1 DEF Taking
  <1>9. CASE k # 7
    <2>1. Send(l, bit) =
            Pair(Mod(tone, ones, Yes), Dem(tone, s, (v + 128 * bit) \div 2, k + 1, Yes, o))
      BY <1>4, <1>6, <1>7, <1>9
    <2> QED
      BY <1>3, <1>5, <1>9, <2>1 DEF Taking
  <1> QED
    BY <1>8, <1>9

\* The zero after five ones is sent and skipped.
LEMMA StuffedBit ==
  ASSUME NEW l, NEW v, NEW k, NEW o, Taking(l, Yes, k, v, o), l.mod.ones = 5
  PROVE  Taking(Send(l, 0), Yes, k, v, o) /\ Send(l, 0).mod.ones = 0
  <1>1. PICK t \in 0..1, n \in 0..5, b \in 0..255 :
          Trailing(b, n) /\ l = Pair(Mod(t, n, Yes), Dem(t, b, v, k, Yes, o))
    BY DEF Taking
  <1>2. n = 5 /\ n # 6
    BY <1>1 DEF Pair, Mod
  <1> DEFINE s == Shifted(b, 0)
             d == Dem(1 - t, s, v, k, Yes, o)
  <1>3. 1 - t \in 0..1 /\ 1 - t # t
    OBVIOUS
  <1>4. Send(l, 0) = Pair(Mod(1 - t, 0, Yes), Parse(d, 0))
    BY <1>1, <1>3, SendIs
  <1>5. s \in 0..255 /\ Trailing(s, 0) /\ s # Flag /\ s % 128 # Reset /\ SeesStuffing(s)
    BY <1>1, <1>2, ShiftZero
  <1> HIDE DEF s
  <1>6. Parse(d, 0) = d
    BY <1>5, ParseIs
  <1>7. Pair(Mod(1 - t, 0, Yes), d).mod.ones = 0
    BY DEF Pair, Mod
  <1> QED
    BY <1>3, <1>4, <1>5, <1>6, <1>7 DEF Taking

LEMMA BitTaken ==
  ASSUME NEW l, NEW v, NEW k, NEW o, NEW bit \in {0, 1}, Taking(l, Yes, k, v, o)
  PROVE  /\ k = 7 => Taking(SendBit(l, bit), Yes, 0, 0, o \o Unit(v + 128 * bit))
         /\ k # 7 => Taking(SendBit(l, bit), Yes, k + 1, (v + 128 * bit) \div 2, o)
  <1>1. l.mod.char /\ l.mod.ones \in 0..5
    BY DEF Taking, Pair, Mod, Yes
  <1>2. Stuffing(l.mod) <=> l.mod.ones = 5
    BY <1>1 DEF Stuffing, StuffLen, Yes
  <1>3. CASE l.mod.ones = 5
    <2>1. SendBit(l, bit) = Send(Send(l, 0), bit)
      BY <1>2, <1>3 DEF SendBit
    <2> QED
      BY <1>3, <2>1, StuffedBit, DataBit
  <1>4. CASE l.mod.ones # 5
    <2>1. SendBit(l, bit) = Send(l, bit)
      BY <1>2, <1>4 DEF SendBit
    <2> QED
      BY <1>4, <2>1, DataBit
  <1> QED
    BY <1>3, <1>4

\* The bits of a byte.
LEMMA BitIs ==
  ASSUME NEW x \in 0..255
  PROVE  /\ \A i \in 1..8 : Bit(x, i) \in {0, 1}
         /\ x = Bit(x, 1) + 2 * Bit(x, 2) + 4 * Bit(x, 3) + 8 * Bit(x, 4) + 16 * Bit(x, 5)
                + 32 * Bit(x, 6) + 64 * Bit(x, 7) + 128 * Bit(x, 8)
  <1>1. /\ Bit(x, 1) = (x \div 1) % 2 /\ Bit(x, 2) = (x \div 2) % 2
        /\ Bit(x, 3) = (x \div 4) % 2 /\ Bit(x, 4) = (x \div 8) % 2
        /\ Bit(x, 5) = (x \div 16) % 2 /\ Bit(x, 6) = (x \div 32) % 2
        /\ Bit(x, 7) = (x \div 64) % 2 /\ Bit(x, 8) = (x \div 128) % 2
    BY DEF Bit, Weight
  <1>2. /\ Bit(x, 1) \in {0, 1} /\ Bit(x, 2) \in {0, 1} /\ Bit(x, 3) \in {0, 1}
        /\ Bit(x, 4) \in {0, 1} /\ Bit(x, 5) \in {0, 1} /\ Bit(x, 6) \in {0, 1}
        /\ Bit(x, 7) \in {0, 1} /\ Bit(x, 8) \in {0, 1}
    BY <1>1
  <1>3. \A i \in 1..8 : i = 1 \/ i = 2 \/ i = 3 \/ i = 4 \/ i = 5 \/ i = 6 \/ i = 7 \/ i = 8
    OBVIOUS
  <1>4. x = ((x \div 1) % 2) + 2 * ((x \div 2) % 2) + 4 * ((x \div 4) % 2) + 8 * ((x \div 8) % 2)
            + 16 * ((x \div 16) % 2) + 32 * ((x \div 32) % 2) + 64 * ((x \div 64) % 2)
            + 128 * ((x \div 128) % 2)
    OBVIOUS
  <1>5. x = Bit(x, 1) + 2 * Bit(x, 2) + 4 * Bit(x, 3) + 8 * Bit(x, 4) + 16 * Bit(x, 5)
            + 32 * Bit(x, 6) + 64 * Bit(x, 7) + 128 * Bit(x, 8)
    BY <1>1, <1>4
  <1>6. \A i \in 1..8 : Bit(x, i) \in {0, 1}
    BY <1>2, <1>3
  <1> QED
    BY <1>5, <1>6

\* Eight bits, one after the other.
SymbolIs(l, x, l0, l1, l2, l3, l4, l5, l6, l7, l8) ==
  /\ l0 = Load(l, x)
  /\ l1 = SendBit(l0, Bit(x.byte, 1)) /\ l2 = SendBit(l1, Bit(x.byte, 2))
  /\ l3 = SendBit(l2, Bit(x.byte, 3)) /\ l4 = SendBit(l3, Bit(x.byte, 4))
  /\ l5 = SendBit(l4, Bit(x.byte, 5)) /\ l6 = SendBit(l5, Bit(x.byte, 6))
  /\ l7 = SendBit(l6, Bit(x.byte, 7)) /\ l8 = SendBit(l7, Bit(x.byte, 8))
  /\ SendSymbol(l, x) = l8

LEMMA SymbolSteps ==
  ASSUME NEW l, NEW x
  PROVE  \E l0, l1, l2, l3, l4, l5, l6, l7, l8 :
           SymbolIs(l, x, l0, l1, l2, l3, l4, l5, l6, l7, l8)
  <1> DEFINE l0 == Load(l, x)
             l1 == SendBit(l0, Bit(x.byte, 1))
             l2 == SendBit(l1, Bit(x.byte, 2))
             l3 == SendBit(l2, Bit(x.byte, 3))
             l4 == SendBit(l3, Bit(x.byte, 4))
             l5 == SendBit(l4, Bit(x.byte, 5))
             l6 == SendBit(l5, Bit(x.byte, 6))
             l7 == SendBit(l6, Bit(x.byte, 7))
             l8 == SendBit(l7, Bit(x.byte, 8))
  <1>1. SymbolIs(l, x, l0, l1, l2, l3, l4, l5, l6, l7, l8)
    BY DEF SymbolIs, SendSymbol
  <1> HIDE DEF l0, l1, l2, l3, l4, l5, l6, l7, l8
  <1> QED
    BY <1>1

\* The counter of the ones goes on behind a character only.
LEMMA LoadIs ==
  ASSUME NEW t, NEW n, NEW ch \in {Yes, No}, NEW d, NEW x
  PROVE  /\ ch = Yes => Load(Pair(Mod(t, n, ch), d), x) = Pair(Mod(t, n, x.char), d)
         /\ ch = No => Load(Pair(Mod(t, n, ch), d), x) = Pair(Mod(t, 0, x.char), d)
  <1> DEFINE l == Pair(Mod(t, n, ch), d)
             m == IF ch THEN n ELSE 0
             c == x.char
  <1>1. l.mod = Mod(t, n, ch) /\ l.mod.char = ch /\ l.mod.ones = n
    BY DEF Pair, Mod
  <1>2. Load(l, x) = [[l EXCEPT !.mod.ones = m] EXCEPT !.mod.char = c]
    <2> HIDE DEF l
    <2> QED
      BY <1>1 DEF Load
  <1> HIDE DEF m, c
  <1>3. [l EXCEPT !.mod.ones = m] = Pair(Mod(t, m, ch), d)
    BY DEF Pair, Mod
  <1>4. [Pair(Mod(t, m, ch), d) EXCEPT !.mod.char = c] = Pair(Mod(t, m, c), d)
    BY DEF Pair, Mod
  <1>5. (ch = Yes => m = n) /\ (ch = No => m = 0)
    BY DEF Yes, No, m
  <1> HIDE DEF l
  <1> QED
    BY <1>2, <1>3, <1>4, <1>5 DEF l, c

\* Between two symbols the link has heard what there was, and has taken nothing since.
InStep(l, o) ==
  \/ Taking(l, Yes, 0, 0, o)
  \/ Taking(l, No, 0, 0, o) /\ l.mod.ones = 0

LEMMA Loaded ==
  ASSUME NEW l, NEW x, NEW o, InStep(l, o)
  PROVE  Taking(Load(l, x), x.char, 0, 0, o)
  <1>1. CASE Taking(l, Yes, 0, 0, o)
    <2>1. PICK t \in 0..1, n \in 0..5, b \in 0..255 :
            Trailing(b, n) /\ l = Pair(Mod(t, n, Yes), Dem(t, b, 0, 0, Yes, o))
      BY <1>1 DEF Taking
    <2>2. Load(l, x) = Pair(Mod(t, n, x.char), Dem(t, b, 0, 0, Yes, o))
      BY <2>1, LoadIs
    <2> QED
      BY <2>1, <2>2 DEF Taking
  <1>2. CASE Taking(l, No, 0, 0, o) /\ l.mod.ones = 0
    <2>1. PICK t \in 0..1, n \in 0..5, b \in 0..255 :
            Trailing(b, n) /\ l = Pair(Mod(t, n, No), Dem(t, b, 0, 0, Yes, o))
      BY <1>2 DEF Taking
    <2>2. n = 0
      BY <1>2, <2>1 DEF Pair, Mod
    <2>3. Load(l, x) = Pair(Mod(t, 0, x.char), Dem(t, b, 0, 0, Yes, o))
      BY <2>1, LoadIs
    <2> QED
      BY <2>1, <2>2, <2>3 DEF Taking
  <1> QED
    BY <1>1, <1>2 DEF InStep

\* A character comes out of the link as it went in.
LEMMA CharSent ==
  ASSUME NEW l, NEW c \in 0..255, NEW o, InStep(l, o)
  PROVE  InStep(SendSymbol(l, Char(c)), o \o Unit(c))
  <1> DEFINE x == Char(c)
             b(i) == Bit(c, i)
  <1>1. x.byte = c /\ x.char = Yes
    BY DEF Char, Yes
  <1>2. PICK l0, l1, l2, l3, l4, l5, l6, l7, l8 :
          SymbolIs(l, x, l0, l1, l2, l3, l4, l5, l6, l7, l8)
    BY SymbolSteps
  <1> HIDE DEF x
  <1>3. /\ l0 = Load(l, x)
        /\ l1 = SendBit(l0, b(1)) /\ l2 = SendBit(l1, b(2)) /\ l3 = SendBit(l2, b(3))
        /\ l4 = SendBit(l3, b(4)) /\ l5 = SendBit(l4, b(5)) /\ l6 = SendBit(l5, b(6))
        /\ l7 = SendBit(l6, b(7)) /\ l8 = SendBit(l7, b(8))
        /\ SendSymbol(l, x) = l8
    BY <1>1, <1>2 DEF SymbolIs
  <1>4. /\ b(1) \in {0, 1} /\ b(2) \in {0, 1} /\ b(3) \in {0, 1} /\ b(4) \in {0, 1}
        /\ b(5) \in {0, 1} /\ b(6) \in {0, 1} /\ b(7) \in {0, 1} /\ b(8) \in {0, 1}
        /\ c = b(1) + 2 * b(2) + 4 * b(3) + 8 * b(4) + 16 * b(5) + 32 * b(6) + 64 * b(7) + 128 * b(8)
    BY BitIs
  <1> HIDE DEF b
  <1> DEFINE v1 == 64 * b(1)
             v2 == 32 * b(1) + 64 * b(2)
             v3 == 16 * b(1) + 32 * b(2) + 64 * b(3)
             v4 == 8 * b(1) + 16 * b(2) + 32 * b(3) + 64 * b(4)
             v5 == 4 * b(1) + 8 * b(2) + 16 * b(3) + 32 * b(4) + 64 * b(5)
             v6 == 2 * b(1) + 4 * b(2) + 8 * b(3) + 16 * b(4) + 32 * b(5) + 64 * b(6)
             v7 == b(1) + 2 * b(2) + 4 * b(3) + 8 * b(4) + 16 * b(5) + 32 * b(6) + 64 * b(7)
  <1>5. /\ (0 + 128 * b(1)) \div 2 = v1 /\ (v1 + 128 * b(2)) \div 2 = v2
        /\ (v2 + 128 * b(3)) \div 2 = v3 /\ (v3 + 128 * b(4)) \div 2 = v4
        /\ (v4 + 128 * b(5)) \div 2 = v5 /\ (v5 + 128 * b(6)) \div 2 = v6
        /\ (v6 + 128 * b(7)) \div 2 = v7 /\ v7 + 128 * b(8) = c
    BY <1>4
  <1> HIDE DEF v1, v2, v3, v4, v5, v6, v7
  <1>6. Taking(l0, Yes, 0, 0, o)
    BY <1>1, <1>3, Loaded
  <1>7. Taking(l1, Yes, 1, v1, o)
    <2>1. Taking(SendBit(l0, b(1)), Yes, 0 + 1, (0 + 128 * b(1)) \div 2, o)
      <3>1. b(1) \in {0, 1} /\ 0 # 7
        BY <1>4
      <3> QED
        BY <1>6, <3>1, BitTaken
    <2> QED
      BY <1>3, <1>5, <2>1
  <1>8. Taking(l2, Yes, 2, v2, o)
    <2>1. Taking(SendBit(l1, b(2)), Yes, 1 + 1, (v1 + 128 * b(2)) \div 2, o)
      <3>1. b(2) \in {0, 1} /\ 1 # 7
        BY <1>4
      <3> QED
        BY <1>7, <3>1, BitTaken
    <2> QED
      BY <1>3, <1>5, <2>1
  <1>9. Taking(l3, Yes, 3, v3, o)
    <2>1. Taking(SendBit(l2, b(3)), Yes, 2 + 1, (v2 + 128 * b(3)) \div 2, o)
      <3>1. b(3) \in {0, 1} /\ 2 # 7
        BY <1>4
      <3> QED
        BY <1>8, <3>1, BitTaken
    <2> QED
      BY <1>3, <1>5, <2>1
  <1>10. Taking(l4, Yes, 4, v4, o)
    <2>1. Taking(SendBit(l3, b(4)), Yes, 3 + 1, (v3 + 128 * b(4)) \div 2, o)
      <3>1. b(4) \in {0, 1} /\ 3 # 7
        BY <1>4
      <3> QED
        BY <1>9, <3>1, BitTaken
    <2> QED
      BY <1>3, <1>5, <2>1
  <1>11. Taking(l5, Yes, 5, v5, o)
    <2>1. Taking(SendBit(l4, b(5)), Yes, 4 + 1, (v4 + 128 * b(5)) \div 2, o)
      <3>1. b(5) \in {0, 1} /\ 4 # 7
        BY <1>4
      <3> QED
        BY <1>10, <3>1, BitTaken
    <2> QED
      BY <1>3, <1>5, <2>1
  <1>12. Taking(l6, Yes, 6, v6, o)
    <2>1. Taking(SendBit(l5, b(6)), Yes, 5 + 1, (v5 + 128 * b(6)) \div 2, o)
      <3>1. b(6) \in {0, 1} /\ 5 # 7
        BY <1>4
      <3> QED
        BY <1>11, <3>1, BitTaken
    <2> QED
      BY <1>3, <1>5, <2>1
  <1>13. Taking(l7, Yes, 7, v7, o)
    <2>1. Taking(SendBit(l6, b(7)), Yes, 6 + 1, (v6 + 128 * b(7)) \div 2, o)
      <3>1. b(7) \in {0, 1} /\ 6 # 7
        BY <1>4
      <3> QED
        BY <1>12, <3>1, BitTaken
    <2> QED
      BY <1>3, <1>5, <2>1
  <1>14. Taking(l8, Yes, 0, 0, o \o Unit(c))
    <2>1. b(8) \in {0, 1}
      BY <1>4
    <2>2. Taking(SendBit(l7, b(8)), Yes, 0, 0, o \o Unit(v7 + 128 * b(8)))
      BY <1>13, <2>1, BitTaken
    <2> QED
      BY <1>3, <1>5, <2>2
  <1> QED
    BY <1>3, <1>14 DEF InStep, x

-----------------------------------------------------------------------------
(* A flag on its way.                                                       *)

\* A bit of a symbol that is not stuffed.
LEMMA PlainBit ==
  ASSUME NEW t \in 0..1, NEW n, NEW f, NEW b, NEW c, NEW i, NEW s, NEW o, NEW bit \in {0, 1}
  PROVE  LET tone == IF bit = 1 THEN t ELSE 1 - t
             ones == IF bit = 1 THEN n + 1 ELSE 0
         IN  /\ SendBit(Pair(Mod(t, n, No), Dem(f, b, c, i, s, o)), bit) =
                  Send(Pair(Mod(t, n, No), Dem(f, b, c, i, s, o)), bit)
             /\ f = t => SendBit(Pair(Mod(t, n, No), Dem(f, b, c, i, s, o)), bit) =
                           Pair(Mod(tone, ones, No),
                                Parse(Dem(tone, Shifted(b, bit), c, i, s, o), bit))
  <1> DEFINE m == Mod(t, n, No)
             d == Dem(f, b, c, i, s, o)
             tone == IF bit = 1 THEN t ELSE 1 - t
             ones == IF bit = 1 THEN n + 1 ELSE 0
  <1>1. Pair(m, d).mod = m /\ ~m.char
    BY DEF Pair, Mod, No
  <1>2. SendBit(Pair(m, d), bit) = Send(Pair(m, d), bit)
    <2> HIDE DEF m, d
    <2> QED
      BY <1>1 DEF SendBit, Stuffing
  <1>3. ASSUME f = t
        PROVE  Send(Pair(m, d), bit) =
                 Pair(Mod(tone, ones, No), Parse(Dem(tone, Shifted(b, bit), c, i, s, o), bit))
    <2>1. bit = IF tone = f THEN 1 ELSE 0
      BY <1>3
    <2> HIDE DEF tone, ones
    <2> QED
      BY <2>1, SendIs DEF tone, ones
  <1> QED
    BY <1>2, <1>3

\* A flag is being sent: of the last bits heard so many are ones, and it is too early
\* for the demodulator to have a whole character.
Flagging(l, n, o) ==
  \E t \in 0..1, b \in 0..255, i \in 0..n + 1 : Trailing(b, n) /\
    \E m, c : l = Pair(Mod(t, m, No), Dem(t, b, c, i, Yes, o))

\* The zero of a flag, which may be taken for a stuffed one.
LEMMA FlagZero ==
  ASSUME NEW l, NEW o, Taking(l, No, 0, 0, o)
  PROVE  Flagging(SendBit(l, 0), 0, o)
  <1>1. PICK t \in 0..1, n \in 0..5, b \in 0..255 :
          Trailing(b, n) /\ l = Pair(Mod(t, n, No), Dem(t, b, 0, 0, Yes, o))
    BY DEF Taking
  <1> DEFINE s == Shifted(b, 0)
             tone == 1 - t
             d == Dem(tone, s, 0, 0, Yes, o)
  <1>2. tone \in 0..1
    OBVIOUS
  <1>3. SendBit(l, 0) = Pair(Mod(tone, 0, No), Parse(d, 0))
    BY <1>1, PlainBit
  <1>4. s \in 0..255 /\ Trailing(s, 0) /\ s # Flag /\ s % 128 # Reset
    <2>1. n # 6
      OBVIOUS
    <2> QED
      BY <1>1, <2>1, ShiftZero
  <1> HIDE DEF s, tone
  <1>5. /\ SeesStuffing(s) => Parse(d, 0) = d
        /\ ~SeesStuffing(s) => Parse(d, 0) = TakeBit(d, 0)
    BY <1>4, ParseIs
  <1>6. TakeBit(d, 0) = Dem(tone, s, (0 + 128 * 0) \div 2, 0 + 1, Yes, o)
    BY TakeBitIs
  <1>7. \E c, i \in 0..1 : Parse(d, 0) = Dem(tone, s, c, i, Yes, o)
    BY <1>5, <1>6
  <1> HIDE DEF d
  <1> QED
    BY <1>2, <1>3, <1>4, <1>7 DEF Flagging

\* Each of the six ones.
LEMMA FlagOne ==
  ASSUME NEW l, NEW n \in 0..5, NEW o, Flagging(l, n, o)
  PROVE  Flagging(SendBit(l, 1), n + 1, o)
  <1>0. PICK t \in 0..1, b \in 0..255, i \in 0..n + 1 : Trailing(b, n) /\
          \E m, c : l = Pair(Mod(t, m, No), Dem(t, b, c, i, Yes, o))
    BY DEF Flagging
  <1>1. PICK m, c : l = Pair(Mod(t, m, No), Dem(t, b, c, i, Yes, o))
    BY <1>0
  <1> DEFINE s == Shifted(b, 1)
             d == Dem(t, s, c, i, Yes, o)
             ones == m + 1
             v == (c + 128 * 1) \div 2
             k == i + 1
  <1>2. SendBit(l, 1) = Pair(Mod(t, ones, No), Parse(d, 1))
    BY <1>1, PlainBit
  <1>3. s \in 0..255 /\ Trailing(s, n + 1) /\ s # Flag /\ s % 128 # Reset /\ ~SeesStuffing(s)
    <2>1. n # 6
      OBVIOUS
    <2> QED
      BY <1>0, <2>1, ShiftOne
  <1> HIDE DEF s, ones
  <1>4. Parse(d, 1) = TakeBit(d, 1)
    BY <1>3, ParseIs
  <1>5. i # 7 /\ k \in 0..(n + 1) + 1
    OBVIOUS
  <1>6. TakeBit(d, 1) = Dem(t, s, v, k, Yes, o)
    BY <1>5, TakeBitIs
  <1> HIDE DEF d, v, k
  <1> QED
    BY <1>2, <1>3, <1>4, <1>5, <1>6 DEF Flagging

\* With its last zero the flag is recognised, and what was begun is dropped.
LEMMA FlagEnd ==
  ASSUME NEW l, NEW o, Flagging(l, 6, o)
  PROVE  Taking(SendBit(l, 0), No, 0, 0, Append(o, Flag)) /\ SendBit(l, 0).mod.ones = 0
  <1>0. PICK t \in 0..1, b \in 0..255, i \in 0..6 + 1 : Trailing(b, 6) /\
          \E m, c : l = Pair(Mod(t, m, No), Dem(t, b, c, i, Yes, o))
    BY DEF Flagging
  <1>1. PICK m, c : l = Pair(Mod(t, m, No), Dem(t, b, c, i, Yes, o))
    BY <1>0
  <1> DEFINE tone == 1 - t
             s == Shifted(b, 0)
  <1>2. tone \in 0..1
    OBVIOUS
  <1>3. SendBit(l, 0) = Pair(Mod(tone, 0, No), Parse(Dem(tone, s, c, i, Yes, o), 0))
    BY <1>1, PlainBit
  <1>4. s = Flag /\ Trailing(s, 0) /\ s \in 0..255
    BY <1>0 DEF Trailing, Shifted, Flag
  <1> HIDE DEF tone, s
  <1>5. Parse(Dem(tone, s, c, i, Yes, o), 0) = Dem(tone, s, 0, 0, Yes, Append(o, Flag))
    BY <1>4, ParseIs
  <1>6. SendBit(l, 0) = Pair(Mod(tone, 0, No), Dem(tone, s, 0, 0, Yes, Append(o, Flag)))
    BY <1>3, <1>5
  <1>7. SendBit(l, 0).mod.ones = 0
    BY <1>6 DEF Pair, Mod
  <1> QED
    BY <1>2, <1>4, <1>6, <1>7 DEF Taking

\* A flag is heard as a flag.
LEMMA FlagSent ==
  ASSUME NEW l, NEW o, InStep(l, o)
  PROVE  InStep(SendSymbol(l, FlagSymbol), Append(o, Flag))
  <1> DEFINE x == FlagSymbol
  <1>1. x.byte = Flag /\ x.char = No
    BY DEF FlagSymbol, No
  <1>2. PICK l0, l1, l2, l3, l4, l5, l6, l7, l8 :
          SymbolIs(l, x, l0, l1, l2, l3, l4, l5, l6, l7, l8)
    BY SymbolSteps
  <1>3. Taking(Load(l, x), x.char, 0, 0, o)
    BY Loaded
  <1> HIDE DEF x
  <1>4. /\ l0 = Load(l, x)
        /\ l1 = SendBit(l0, 0) /\ l2 = SendBit(l1, 1) /\ l3 = SendBit(l2, 1)
        /\ l4 = SendBit(l3, 1) /\ l5 = SendBit(l4, 1) /\ l6 = SendBit(l5, 1)
        /\ l7 = SendBit(l6, 1) /\ l8 = SendBit(l7, 0)
        /\ SendSymbol(l, x) = l8
    <2>1. /\ Bit(Flag, 1) = 0 /\ Bit(Flag, 2) = 1 /\ Bit(Flag, 3) = 1 /\ Bit(Flag, 4) = 1
          /\ Bit(Flag, 5) = 1 /\ Bit(Flag, 6) = 1 /\ Bit(Flag, 7) = 1 /\ Bit(Flag, 8) = 0
      BY DEF Bit, Weight, Flag
    <2> QED
      BY <1>1, <1>2, <2>1 DEF SymbolIs
  <1>5. Flagging(l1, 0, o)
    BY <1>1, <1>3, <1>4, FlagZero
  <1>6. Flagging(l2, 0 + 1, o)
    BY <1>4, <1>5, FlagOne
  <1>7. Flagging(l3, 1 + 1, o)
    BY <1>4, <1>6, FlagOne
  <1>8. Flagging(l4, 2 + 1, o)
    BY <1>4, <1>7, FlagOne
  <1>9. Flagging(l5, 3 + 1, o)
    BY <1>4, <1>8, FlagOne
  <1>10. Flagging(l6, 4 + 1, o)
    BY <1>4, <1>9, FlagOne
  <1>11. Flagging(l7, 5 + 1, o)
    BY <1>4, <1>10, FlagOne
  <1>12. Taking(l8, No, 0, 0, Append(o, Flag)) /\ l8.mod.ones = 0
    BY <1>4, <1>11, FlagEnd
  <1> QED
    BY <1>4, <1>12 DEF InStep, x

-----------------------------------------------------------------------------
(* A demodulator in any state that hears a preamble.                        *)

\* The demodulator has heard the tone that is sent, and these were the last bits.
Attached(l, t, b) ==
  \E s \in {Yes, No} : \E m, c, i, o : l = Pair(Mod(t, m, No), Dem(t, b, c, i, s, o))

\* A demodulator that has these two fields.
Keeps(r, f, b) == \E s \in {Yes, No} : \E c, i, o : r = Dem(f, b, c, i, s, o)

LEMMA KeepsDem ==
  ASSUME NEW f, NEW b, NEW c, NEW i, NEW s \in {Yes, No}, NEW o
  PROVE  Keeps(Dem(f, b, c, i, s, o), f, b)
  BY DEF Keeps

LEMMA ParseKeeps ==
  ASSUME NEW f, NEW b, NEW c, NEW i, NEW s \in {Yes, No}, NEW o, NEW bit
  PROVE  Keeps(Parse(Dem(f, b, c, i, s, o), bit), f, b)
  <1> DEFINE r == Dem(f, b, c, i, s, o)
  <1>1. \/ Parse(r, bit) = Dem(f, b, 0, 0, Yes, Append(o, Flag))
        \/ Parse(r, bit) = Dem(f, b, c, i, No, o)
        \/ Parse(r, bit) = r
        \/ Parse(r, bit) = TakeBit(r, bit)
    BY ParseIs
  <1>2. \/ TakeBit(r, bit) = Dem(f, b, 0, 0, s, o \o Unit(c + 128 * bit))
        \/ TakeBit(r, bit) = Dem(f, b, (c + 128 * bit) \div 2, i + 1, s, o)
    BY TakeBitIs
  <1>3. /\ Keeps(Dem(f, b, 0, 0, Yes, Append(o, Flag)), f, b)
        /\ Keeps(Dem(f, b, c, i, No, o), f, b)
        /\ Keeps(r, f, b)
        /\ Keeps(Dem(f, b, 0, 0, s, o \o Unit(c + 128 * bit)), f, b)
        /\ Keeps(Dem(f, b, (c + 128 * bit) \div 2, i + 1, s, o), f, b)
    BY KeepsDem
  <1> HIDE DEF r
  <1>4. Keeps(Parse(r, bit), f, b)
    BY <1>1, <1>2, <1>3
  <1> QED
    BY <1>4 DEF r

LEMMA AttachedBit ==
  ASSUME NEW l, NEW t \in 0..1, NEW b, NEW bit \in {0, 1}, Attached(l, t, b)
  PROVE  Attached(SendBit(l, bit), IF bit = 1 THEN t ELSE 1 - t, Shifted(b, bit))
  <1>1. PICK s \in {Yes, No} : \E m, c, i, o : l = Pair(Mod(t, m, No), Dem(t, b, c, i, s, o))
    BY DEF Attached
  <1>2. PICK m, c, i, o : l = Pair(Mod(t, m, No), Dem(t, b, c, i, s, o))
    BY <1>1
  <1> DEFINE tone == IF bit = 1 THEN t ELSE 1 - t
             ones == IF bit = 1 THEN m + 1 ELSE 0
             shifted == Shifted(b, bit)
  <1>3. SendBit(l, bit) = Pair(Mod(tone, ones, No), Parse(Dem(tone, shifted, c, i, s, o), bit))
    <2>1. SendBit(Pair(Mod(t, m, No), Dem(t, b, c, i, s, o)), bit) =
            Pair(Mod(tone, ones, No), Parse(Dem(tone, shifted, c, i, s, o), bit))
      <3>1. CASE bit = 1
        <4>1. SendBit(Pair(Mod(t, m, No), Dem(t, b, c, i, s, o)), 1) =
                Pair(Mod(t, m + 1, No), Parse(Dem(t, Shifted(b, 1), c, i, s, o), 1))
          BY PlainBit
        <4> QED
          BY <3>1, <4>1
      <3>2. CASE bit = 0
        <4>1. SendBit(Pair(Mod(t, m, No), Dem(t, b, c, i, s, o)), 0) =
                Pair(Mod(1 - t, 0, No), Parse(Dem(1 - t, Shifted(b, 0), c, i, s, o), 0))
          BY PlainBit
        <4> QED
          BY <3>2, <4>1
      <3> QED
        BY <3>1, <3>2
    <2> QED
      BY <1>2, <2>1
  <1> HIDE DEF tone, ones, shifted
  <1>4. Keeps(Parse(Dem(tone, shifted, c, i, s, o), bit), tone, shifted)
    BY ParseKeeps
  <1> DEFINE p == Parse(Dem(tone, shifted, c, i, s, o), bit)
  <1> HIDE DEF p
  <1>5. Attached(SendBit(l, bit), tone, shifted)
    <2>1. PICK s2 \in {Yes, No} : \E c2, i2, o2 : p = Dem(tone, shifted, c2, i2, s2, o2)
      BY <1>4 DEF Keeps, p
    <2>2. SendBit(l, bit) = Pair(Mod(tone, ones, No), p)
      BY <1>3 DEF p
    <2> QED
      BY <2>1, <2>2 DEF Attached
  <1> QED
    BY <1>5 DEF tone, shifted

LEMMA AttachedLoad ==
  ASSUME NEW l, NEW t, NEW b, Attached(l, t, b)
  PROVE  Attached(Load(l, FlagSymbol), t, b)
  <1>1. PICK s \in {Yes, No} : \E m, c, i, o : l = Pair(Mod(t, m, No), Dem(t, b, c, i, s, o))
    BY DEF Attached
  <1>2. PICK m, c, i, o : l = Pair(Mod(t, m, No), Dem(t, b, c, i, s, o))
    BY <1>1
  <1>3. FlagSymbol.char = No
    BY DEF FlagSymbol, No
  <1>4. Load(l, FlagSymbol) = Pair(Mod(t, 0, No), Dem(t, b, c, i, s, o))
    BY <1>2, <1>3, LoadIs
  <1> QED
    BY <1>4 DEF Attached

\* The middle of a flag.
LEMMA SixOnes ==
  ASSUME NEW b \in 0..255, NEW l1, NEW l2, NEW l3, NEW l4, NEW l5, NEW l6, NEW l7,
         Attached(l1, 1, b),
         l2 = SendBit(l1, 1), l3 = SendBit(l2, 1), l4 = SendBit(l3, 1),
         l5 = SendBit(l4, 1), l6 = SendBit(l5, 1), l7 = SendBit(l6, 1)
  PROVE  Attached(l7, 1, (64 * b + 63) % 256)
  <1>1. \A l, v : Attached(l, 1, v) => Attached(SendBit(l, 1), 1, Shifted(v, 1))
    <2> TAKE l, v
    <2> HAVE Attached(l, 1, v)
    <2>1. Attached(SendBit(l, 1), IF 1 = 1 THEN 1 ELSE 1 - 1, Shifted(v, 1))
      BY AttachedBit
    <2> QED
      BY <2>1
  <1>2. /\ Shifted(b, 1) = (2 * b + 1) % 256
        /\ Shifted((2 * b + 1) % 256, 1) = (4 * b + 3) % 256
        /\ Shifted((4 * b + 3) % 256, 1) = (8 * b + 7) % 256
        /\ Shifted((8 * b + 7) % 256, 1) = (16 * b + 15) % 256
        /\ Shifted((16 * b + 15) % 256, 1) = (32 * b + 31) % 256
        /\ Shifted((32 * b + 31) % 256, 1) = (64 * b + 63) % 256
    BY DEF Shifted
  <1>3. Attached(l2, 1, (2 * b + 1) % 256)
    BY <1>1, <1>2
  <1>4. Attached(l3, 1, (4 * b + 3) % 256)
    BY <1>1, <1>2, <1>3
  <1>5. Attached(l4, 1, (8 * b + 7) % 256)
    BY <1>1, <1>2, <1>4
  <1>6. Attached(l5, 1, (16 * b + 15) % 256)
    BY <1>1, <1>2, <1>5
  <1>7. Attached(l6, 1, (32 * b + 31) % 256)
    BY <1>1, <1>2, <1>6
  <1> QED
    BY <1>1, <1>2, <1>7

FlagBits(l, l0, l1, l2, l3, l4, l5, l6, l7) ==
  /\ l0 = Load(l, FlagSymbol) /\ l1 = SendBit(l0, 0)
  /\ l2 = SendBit(l1, 1) /\ l3 = SendBit(l2, 1) /\ l4 = SendBit(l3, 1)
  /\ l5 = SendBit(l4, 1) /\ l6 = SendBit(l5, 1) /\ l7 = SendBit(l6, 1)
  /\ SendSymbol(l, FlagSymbol) = SendBit(l7, 0)

LEMMA FlagSteps ==
  ASSUME NEW l
  PROVE  \E l0, l1, l2, l3, l4, l5, l6, l7 : FlagBits(l, l0, l1, l2, l3, l4, l5, l6, l7)
  <1>1. FlagSymbol.byte = Flag
    BY DEF FlagSymbol
  <1>2. /\ Bit(Flag, 1) = 0 /\ Bit(Flag, 2) = 1 /\ Bit(Flag, 3) = 1 /\ Bit(Flag, 4) = 1
        /\ Bit(Flag, 5) = 1 /\ Bit(Flag, 6) = 1 /\ Bit(Flag, 7) = 1 /\ Bit(Flag, 8) = 0
    BY DEF Bit, Weight, Flag
  <1>3. PICK l0, l1, l2, l3, l4, l5, l6, l7, l8 :
          SymbolIs(l, FlagSymbol, l0, l1, l2, l3, l4, l5, l6, l7, l8)
    BY SymbolSteps
  <1>4. FlagBits(l, l0, l1, l2, l3, l4, l5, l6, l7)
    BY <1>1, <1>2, <1>3 DEF SymbolIs, FlagBits
  <1> QED
    BY <1>4

\* The first flag: its first edge may be missed.
LEMMA FirstFlag ==
  ASSUME NEW f \in 0..1, NEW b \in 0..255, NEW c, NEW i, NEW s \in {Yes, No}, NEW o
  PROVE  LET l == SendSymbol(Pair(Mod(0, 0, No), Dem(f, b, c, i, s, o)), FlagSymbol) IN
           Attached(l, 0, 126) \/ Attached(l, 0, 254)
  <1> DEFINE l == Pair(Mod(0, 0, No), Dem(f, b, c, i, s, o))
             heard == IF 1 = f THEN 1 ELSE 0
             v == Shifted(b, heard)
             d == Dem(1, v, c, i, s, o)
  <1>1. PICK l0, l1, l2, l3, l4, l5, l6, l7 : FlagBits(l, l0, l1, l2, l3, l4, l5, l6, l7)
    BY FlagSteps
  <1>2. l0 = l
    <2>1. FlagSymbol.char = No
      BY DEF FlagSymbol, No
    <2>2. Load(l, FlagSymbol) = l
      BY <2>1, LoadIs
    <2> QED
      BY <1>1, <2>2 DEF FlagBits
  <1>3. l1 = Pair(Mod(1, 0, No), Parse(d, heard))
    <2>1. SendBit(l, 0) = Send(l, 0)
      BY PlainBit
    <2>2. Send(l, 0) = Pair(Mod(1, 0, No), Parse(d, heard))
      <3>1. 1 = (IF 0 = 1 THEN 0 ELSE 1 - 0) /\ 0 = (IF 0 = 1 THEN 0 + 1 ELSE 0)
        OBVIOUS
      <3> QED
        BY <3>1, SendIs
    <2> HIDE DEF l, d, heard
    <2> QED
      BY <1>1, <1>2, <2>1, <2>2 DEF FlagBits
  <1>4. v \in 0..255
    BY DEF Shifted
  <1> HIDE DEF l, v, heard
  <1>5. Attached(l1, 1, v)
    <2>1. Keeps(Parse(d, heard), 1, v)
      BY ParseKeeps
    <2> DEFINE p == Parse(d, heard)
    <2> HIDE DEF p
    <2>2. PICK s2 \in {Yes, No} : \E c2, i2, o2 : p = Dem(1, v, c2, i2, s2, o2)
      BY <2>1 DEF Keeps, p
    <2>3. l1 = Pair(Mod(1, 0, No), p)
      BY <1>3 DEF p
    <2> QED
      BY <2>2, <2>3 DEF Attached
  <1> HIDE DEF d
  <1>6. Attached(l7, 1, (64 * v + 63) % 256)
    BY <1>1, <1>4, <1>5, SixOnes DEF FlagBits
  <1>7. Attached(SendBit(l7, 0), 0, Shifted((64 * v + 63) % 256, 0))
    <2>1. Attached(SendBit(l7, 0), IF 0 = 1 THEN 1 ELSE 1 - 1, Shifted((64 * v + 63) % 256, 0))
      BY <1>6, AttachedBit
    <2> QED
      BY <2>1
  <1>8. Shifted((64 * v + 63) % 256, 0) \in {126, 254}
    BY <1>4 DEF Shifted
  <1>9. SendSymbol(l, FlagSymbol) = SendBit(l7, 0)
    BY <1>1 DEF FlagBits
  <1>10. Attached(SendSymbol(l, FlagSymbol), 0, 126) \/ Attached(SendSymbol(l, FlagSymbol), 0, 254)
    BY <1>7, <1>8, <1>9
  <1> QED
    BY <1>10 DEF l

\* The second flag is always recognised.
LEMMA SecondFlag ==
  ASSUME NEW l, NEW b \in {126, 254}, Attached(l, 0, b)
  PROVE  \E o : SendSymbol(l, FlagSymbol) = Pair(Mod(0, 0, No), Dem(0, Flag, 0, 0, Yes, o))
  <1>1. PICK l0, l1, l2, l3, l4, l5, l6, l7 : FlagBits(l, l0, l1, l2, l3, l4, l5, l6, l7)
    BY FlagSteps
  <1>2. Attached(l0, 0, b)
    BY <1>1, AttachedLoad DEF FlagBits
  <1>3. Attached(l1, 1, 252)
    <2>1. Attached(SendBit(l0, 0), IF 0 = 1 THEN 0 ELSE 1 - 0, Shifted(b, 0))
      BY <1>2, AttachedBit
    <2>2. Shifted(b, 0) = 252
      BY DEF Shifted
    <2> QED
      BY <1>1, <2>1, <2>2 DEF FlagBits
  <1>4. Attached(l7, 1, 63)
    <2>1. Attached(l7, 1, (64 * 252 + 63) % 256)
      BY <1>1, <1>3, SixOnes DEF FlagBits
    <2>2. (64 * 252 + 63) % 256 = 63
      OBVIOUS
    <2> QED
      BY <2>1, <2>2
  <1>5. PICK s \in {Yes, No} : \E m, c, i, o : l7 = Pair(Mod(1, m, No), Dem(1, 63, c, i, s, o))
    BY <1>4 DEF Attached
  <1>6. PICK m, c, i, o : l7 = Pair(Mod(1, m, No), Dem(1, 63, c, i, s, o))
    BY <1>5
  <1>7. SendBit(l7, 0) = Pair(Mod(0, 0, No), Parse(Dem(0, Flag, c, i, s, o), 0))
    <2>1. SendBit(l7, 0) =
            Pair(Mod(1 - 1, 0, No), Parse(Dem(1 - 1, Shifted(63, 0), c, i, s, o), 0))
      BY <1>6, PlainBit
    <2>2. Shifted(63, 0) = Flag /\ 1 - 1 = 0
      BY DEF Shifted, Flag
    <2> QED
      BY <2>1, <2>2
  <1>8. Parse(Dem(0, Flag, c, i, s, o), 0) = Dem(0, Flag, 0, 0, Yes, Append(o, Flag))
    BY ParseIs
  <1>9. SendSymbol(l, FlagSymbol) = SendBit(l7, 0)
    BY <1>1 DEF FlagBits
  <1> QED
    BY <1>7, <1>8, <1>9

-----------------------------------------------------------------------------
(* Sequences of symbols.                                                    *)

\* The links between the symbols.
Links(g, l, u, m) ==
  g = [i \in 0..m |-> IF i = 0 THEN l ELSE SendSymbol(g[i - 1], u[i])]

LEMMA LinksAt ==
  ASSUME NEW g, NEW l, NEW u, NEW m \in Nat, Links(g, l, u, m)
  PROVE  g[0] = l /\ \A i \in 1..m : g[i] = SendSymbol(g[i - 1], u[i])
  <1> DEFINE h == [i \in 0..m |-> IF i = 0 THEN l ELSE SendSymbol(g[i - 1], u[i])]
  <1>1. g = h
    BY DEF Links
  <1>2. h[0] = l /\ \A i \in 1..m : h[i] = SendSymbol(g[i - 1], u[i])
    OBVIOUS
  <1> HIDE DEF h
  <1> QED
    BY <1>1, <1>2

LEMMA LinksExist ==
  ASSUME NEW l, NEW u, NEW n \in Nat
  PROVE  \E g : Links(g, l, u, n)
  <1> DEFINE T == {m \in Nat : \E g : Links(g, l, u, m)}
  <1>1. 0 \in T
    <2> DEFINE h == [i \in 0..0 |-> l]
    <2>1. h = [i \in 0..0 |-> IF i = 0 THEN l ELSE SendSymbol(h[i - 1], u[i])]
      BY \A i \in 0..0 : i = 0
    <2> HIDE DEF h
    <2> QED
      BY <2>1 DEF Links
  <1>2. ASSUME NEW m \in Nat, m \in T PROVE m + 1 \in T
    <2>1. PICK g : Links(g, l, u, m)
      BY <1>2
    <2> DEFINE h == [i \in 0..m + 1 |-> IF i <= m THEN g[i] ELSE SendSymbol(g[i - 1], u[i])]
    <2>2. ASSUME NEW i \in 0..m + 1
          PROVE  h[i] = IF i = 0 THEN l ELSE SendSymbol(h[i - 1], u[i])
      <3>1. g[0] = l /\ (i \in 1..m => g[i] = SendSymbol(g[i - 1], u[i]))
        BY <2>1, LinksAt
      <3>2. i # 0 => h[i - 1] = g[i - 1]
        OBVIOUS
      <3>3. h[i] = IF i <= m THEN g[i] ELSE SendSymbol(g[i - 1], u[i])
        OBVIOUS
      <3> HIDE DEF h
      <3> QED
        BY <3>1, <3>2, <3>3
    <2>3. Links(h, l, u, m + 1)
      BY <2>2 DEF Links
    <2> QED
      BY <2>3
  <1> HIDE DEF T
  <1>3. Nat \subseteq T
    BY <1>1, <1>2, SetInduction
  <1> QED
    BY <1>3 DEF T

LEMMA CarriedIs ==
  ASSUME NEW l, NEW u, Len(u) \in Nat
  PROVE  \E g : Links(g, l, u, Len(u)) /\ Carried(l, u) = g[Len(u)]
  <1> DEFINE f == CHOOSE g : g = [i \in 0..Len(u) |-> IF i = 0 THEN l
                                                      ELSE SendSymbol(g[i - 1], u[i])]
  <1>1. Links(f, l, u, Len(u))
    BY LinksExist DEF Links
  <1>2. Carried(l, u) = f[Len(u)]
    BY DEF Carried
  <1> QED
    BY <1>1, <1>2

PushedBy(u) == FlattenSeq([i \in 1..Len(u) |-> AsHeard(u[i])])
Symbols == {FlagSymbol} \cup {Char(c) : c \in 0..255}

LEMMA SymbolSent ==
  ASSUME NEW l, NEW x \in Symbols, NEW o \in Seq(Nat), InStep(l, o)
  PROVE  AsHeard(x) \in Seq(Nat) /\ InStep(SendSymbol(l, x), o \o AsHeard(x))
  <1>1. CASE x = FlagSymbol
    <2>1. AsHeard(x) = <<Flag>> /\ Flag \in Nat
      BY <1>1 DEF AsHeard, FlagSymbol, Flag
    <2>2. o \o <<Flag>> = Append(o, Flag)
      BY <2>1
    <2>3. InStep(SendSymbol(l, FlagSymbol), Append(o, Flag))
      BY FlagSent
    <2>4. <<Flag>> \in Seq(Nat)
      BY <2>1
    <2> QED
      BY <1>1, <2>1, <2>2, <2>3, <2>4
  <1>2. CASE \E c \in 0..255 : x = Char(c)
    <2>1. PICK c \in 0..255 : x = Char(c)
      BY <1>2
    <2>2. AsHeard(x) = Unit(c)
      BY <2>1 DEF AsHeard, Char
    <2>3. Unit(c) \in Seq(Nat)
      BY DEF Unit, Esc
    <2> QED
      BY <2>1, <2>2, <2>3, CharSent
  <1> QED
    BY <1>1, <1>2 DEF Symbols

LEMMA InStepOut ==
  ASSUME NEW l, NEW o, InStep(l, o)
  PROVE  l.dem.out = o
  <1>1. \A char : Taking(l, char, 0, 0, o) => l.dem.out = o
    <2> TAKE char
    <2> HAVE Taking(l, char, 0, 0, o)
    <2>1. PICK t \in 0..1, n \in 0..5, b \in 0..255 :
            l = Pair(Mod(t, n, char), Dem(t, b, 0, 0, Yes, o))
      BY DEF Taking
    <2> QED
      BY <2>1 DEF Pair, Dem
  <1> QED
    BY <1>1 DEF InStep

\* A link that is in step carries every sequence of symbols, and stays in step.
LEMMA CarriedInStep ==
  ASSUME NEW l, InStep(l, <<>>), NEW u \in Seq(Symbols)
  PROVE  InStep(Carried(l, u), PushedBy(u))
  <1> DEFINE n == Len(u)
             w == [i \in 1..n |-> AsHeard(u[i])]
  <1>1. n \in Nat /\ (\A i \in 1..n : u[i] \in Symbols) /\ Len(w) = n
    OBVIOUS
  <1>2. PICK g : Links(g, l, u, n) /\ Carried(l, u) = g[n]
    BY <1>1, CarriedIs
  <1>3. g[0] = l /\ \A i \in 1..n : g[i] = SendSymbol(g[i - 1], u[i])
    BY <1>1, <1>2, LinksAt
  <1>4. CASE n = 0
    <2>1. PushedBy(u) = <<>>
      <3>1. Len(w) = 0 /\ w = <<>>
        BY <1>4
      <3> QED
        BY <3>1 DEF PushedBy, FlattenSeq
    <2> QED
      BY <1>2, <1>3, <1>4, <2>1
  <1>5. CASE n # 0
    <2>1. PICK h : FlattensTo(h, w, Len(w)) /\ FlattenSeq(w) = h[Len(w)]
      <3>1. Len(w) \in Nat \ {0}
        BY <1>1, <1>5
      <3> HIDE DEF w
      <3> QED
        BY <3>1, FlattenIs
    <2>2. \A i \in 1..n : h[i] = IF i = 1 THEN w[1] ELSE h[i - 1] \o w[i]
      <3> HIDE DEF w
      <3>1. FlattensTo(h, w, n)
        BY <1>1, <2>1
      <3> QED
        BY <3>1, FlattensAt
    <2>3. \A i \in 1..n : w[i] = AsHeard(u[i])
      OBVIOUS
    <2> HIDE DEF w
    <2> DEFINE T == {m \in Nat : m + 1 \in 1..n => h[m + 1] \in Seq(Nat) /\ InStep(g[m + 1], h[m + 1])}
    <2>4. 0 \in T
      <3>1. 1 \in 1..n
        BY <1>1, <1>5
      <3>2. g[1] = SendSymbol(l, u[1]) /\ h[1] = AsHeard(u[1])
        BY <1>3, <2>2, <2>3, <3>1
      <3>3. AsHeard(u[1]) \in Seq(Nat) /\ InStep(SendSymbol(l, u[1]), <<>> \o AsHeard(u[1]))
        <4>1. <<>> \in Seq(Nat) /\ u[1] \in Symbols
          BY <1>1, <3>1
        <4> QED
          BY <4>1, SymbolSent
      <3>4. <<>> \o AsHeard(u[1]) = AsHeard(u[1])
        BY <3>3
      <3> QED
        BY <3>2, <3>3, <3>4
    <2>5. ASSUME NEW m \in Nat, m \in T PROVE m + 1 \in T
      <3> SUFFICES ASSUME m + 2 \in 1..n
                   PROVE  h[m + 2] \in Seq(Nat) /\ InStep(g[m + 2], h[m + 2])
        BY (m + 1) + 1 = m + 2
      <3>1. m + 1 \in 1..n /\ (m + 2) - 1 = m + 1 /\ m + 2 # 1
        BY <1>1
      <3>2. h[m + 1] \in Seq(Nat) /\ InStep(g[m + 1], h[m + 1])
        BY <2>5, <3>1
      <3>3. g[m + 2] = SendSymbol(g[m + 1], u[m + 2]) /\ h[m + 2] = h[m + 1] \o AsHeard(u[m + 2])
        BY <1>3, <2>2, <2>3, <3>1
      <3>4. /\ AsHeard(u[m + 2]) \in Seq(Nat)
            /\ InStep(SendSymbol(g[m + 1], u[m + 2]), h[m + 1] \o AsHeard(u[m + 2]))
        <4>1. u[m + 2] \in Symbols
          BY <1>1
        <4> QED
          BY <3>2, <4>1, SymbolSent
      <3> QED
        BY <3>2, <3>3, <3>4
    <2> HIDE DEF T
    <2>6. Nat \subseteq T
      BY <2>4, <2>5, SetInduction
    <2>7. n - 1 \in T /\ (n - 1) + 1 = n /\ n \in 1..n
      BY <1>1, <1>5, <2>6
    <2>8. InStep(g[n], h[n])
      BY <2>7 DEF T
    <2> QED
      BY <1>1, <1>2, <2>1, <2>8 DEF PushedBy, w
  <1> QED
    BY <1>4, <1>5

\* A flag twice.
LEMMA CarriedTwo ==
  ASSUME NEW l, NEW x, NEW y
  PROVE  Carried(l, <<x, y>>) = SendSymbol(SendSymbol(l, x), y)
  <1> DEFINE u == <<x, y>>
  <1>1. Len(u) = 2 /\ u[1] = x /\ u[2] = y
    OBVIOUS
  <1> HIDE DEF u
  <1>2. PICK g : Links(g, l, u, 2) /\ Carried(l, u) = g[2]
    <2>1. Len(u) \in Nat
      BY <1>1
    <2>2. \E g : Links(g, l, u, Len(u)) /\ Carried(l, u) = g[Len(u)]
      BY <2>1, CarriedIs
    <2> QED
      BY <1>1, <2>2
  <1>3. g[0] = l /\ \A i \in 1..2 : g[i] = SendSymbol(g[i - 1], u[i])
    BY <1>2, LinksAt
  <1>4. g[1] = SendSymbol(g[0], u[1]) /\ g[2] = SendSymbol(g[1], u[2])
    BY <1>3
  <1>5. Carried(l, u) = SendSymbol(SendSymbol(l, x), y)
    BY <1>1, <1>2, <1>3, <1>4
  <1> QED
    BY <1>5 DEF u

InStepLink == Pair(Mod(0, 0, No), Dem(0, Flag, 0, 0, Yes, <<>>))

LEMMA FollowIs ==
  ASSUME NEW r \in Demodulator
  PROVE  Follow(r) = InStepLink
  <1> DEFINE l == [mod |-> Silent, dem |-> r]
  <1>1. /\ r = Dem(r.found, r.bits, r.char, r.idx, r.start, r.out)
        /\ r.found \in 0..1 /\ r.bits \in 0..255 /\ r.start \in {Yes, No}
    BY DEF Demodulator, Dem, Yes, No
  <1>2. PICK f \in 0..1, b \in 0..255, s \in {Yes, No} : \E c, i, o : r = Dem(f, b, c, i, s, o)
    BY <1>1
  <1>3. PICK c, i, o : l = Pair(Mod(0, 0, No), Dem(f, b, c, i, s, o))
    BY <1>2 DEF Pair, Mod, Silent, No
  <1>4. \/ Attached(SendSymbol(l, FlagSymbol), 0, 126)
        \/ Attached(SendSymbol(l, FlagSymbol), 0, 254)
    <2> HIDE DEF l
    <2>1. LET k == SendSymbol(Pair(Mod(0, 0, No), Dem(f, b, c, i, s, o)), FlagSymbol)
          IN  Attached(k, 0, 126) \/ Attached(k, 0, 254)
      BY FirstFlag
    <2> QED
      BY <1>3, <2>1
  <1>5. Carried(l, TwoFlags) = SendSymbol(SendSymbol(l, FlagSymbol), FlagSymbol)
    BY CarriedTwo DEF TwoFlags
  <1> HIDE DEF l
  <1>6. PICK p : Carried(l, TwoFlags) = Pair(Mod(0, 0, No), Dem(0, Flag, 0, 0, Yes, p))
    BY <1>4, <1>5, SecondFlag
  <1>7. [Pair(Mod(0, 0, No), Dem(0, Flag, 0, 0, Yes, p)) EXCEPT !.dem.out = <<>>] = InStepLink
    BY DEF InStepLink, Pair, Dem
  <1> QED
    BY <1>6, <1>7 DEF Follow, l

LEMMA ReadyIs == Ready = InStepLink /\ InStep(Ready, <<>>)
  <1> DEFINE r == [found |-> 0, bits |-> 0, char |-> 0, idx |-> 0, start |-> FALSE, out |-> <<>>]
  <1>1. r \in Demodulator
    BY DEF Demodulator
  <1>2. Ready = InStepLink
    <2>1. Ready = Follow(r)
      BY DEF Ready
    <2> HIDE DEF r
    <2> QED
      BY <1>1, <2>1, FollowIs
  <1>3. Trailing(Flag, 0) /\ Flag \in 0..255
    BY DEF Trailing, Flag
  <1>4. InStep(InStepLink, <<>>)
    <2>1. InStepLink = Pair(Mod(0, 0, No), Dem(0, Flag, 0, 0, Yes, <<>>))
      BY DEF InStepLink
    <2>2. InStepLink.mod.ones = 0
      BY <2>1 DEF Pair, Mod
    <2>3. Taking(InStepLink, No, 0, 0, <<>>)
      <3>1. 0 \in 0..1 /\ 0 \in 0..5
        OBVIOUS
      <3> QED
        BY <1>3, <2>1, <3>1 DEF Taking
    <2> QED
      BY <2>2, <2>3 DEF InStep
  <1> QED
    BY <1>2, <1>4

\* Two flags of a preamble bring the demodulator into step from any state at all: with
\* any tone, any bits and any part of a character in it (hdlc_parse(), afsk_adc_isr()).
THEOREM LineSettles == \A r \in Demodulator : Follow(r) = Ready
  BY FollowIs, ReadyIs

\* What is sent behind a preamble is heard, for every sequence of characters and flags:
\* each character as it was, with an escape before it where it needs one, and each flag
\* as a flag (afsk_dac_isr() against hdlc_parse()).
THEOREM LineCarries ==
  ASSUME NEW u \in Seq(Symbols)
  PROVE  Carried(Ready, u).dem.out = PushedBy(u)
  BY CarriedInStep, InStepOut, ReadyIs

LEMMA PassesAll ==
  ASSUME NEW a \in 0..255, NEW b \in 0..255
  PROVE  Passes(a, b)
  <1> DEFINE u == <<Char(a), Char(b), FlagSymbol>>
             w == [i \in 1..Len(u) |-> AsHeard(u[i])]
  <1>1. u \in Seq(Symbols)
    BY DEF Symbols
  <1>2. Len(w) = 3 /\ w[1] = Unit(a) /\ w[2] = Unit(b) /\ w[3] = <<Flag>>
    BY DEF AsHeard, Char, FlagSymbol
  <1>3. PushedBy(u) = FlattenSeq(w)
    BY DEF PushedBy
  <1>4. Carried(Ready, u).dem.out = PushedBy(u)
    BY <1>1, LineCarries
  <1> HIDE DEF w
  <1>5. PICK g : FlattensTo(g, w, 3) /\ FlattenSeq(w) = g[3]
    <2>1. Len(w) \in Nat \ {0}
      BY <1>2
    <2>2. \E g : FlattensTo(g, w, Len(w)) /\ FlattenSeq(w) = g[Len(w)]
      BY <2>1, FlattenIs
    <2> QED
      BY <1>2, <2>2
  <1>6. \A i \in 1..3 : g[i] = IF i = 1 THEN w[i] ELSE g[i - 1] \o w[i]
    BY <1>5, FlattensAt
  <1>7. g[1] = w[1] /\ g[2] = g[1] \o w[2] /\ g[3] = g[2] \o w[3]
    <2>1. 1 \in 1..3 /\ 2 \in 1..3 /\ 3 \in 1..3 /\ 2 - 1 = 1 /\ 3 - 1 = 2 /\ 2 # 1 /\ 3 # 1
      OBVIOUS
    <2>2. g[1] = w[1]
      BY <1>6, <2>1
    <2>3. g[2] = g[1] \o w[2]
      BY <1>6, <2>1
    <2>4. g[3] = g[2] \o w[3]
      BY <1>6, <2>1
    <2> QED
      BY <2>2, <2>3, <2>4
  <1> QED
    BY <1>2, <1>3, <1>4, <1>5, <1>7 DEF Passes

LEMMA LineCode == Transparent
  <1>1. Noisy \subseteq Demodulator
    <2> DEFINE c == {0}
               c2 == 0..127
               i == {0, 7}
               i2 == 0..7
               o == {<<>>}
               o2 == Seq(0..255)
    <2>1. c \subseteq c2 /\ i \subseteq i2 /\ o \subseteq o2
      OBVIOUS
    <2> HIDE DEF c, c2, i, i2, o, o2
    <2>2. [found : 0..1, bits : 0..255, char : c, idx : i, start : BOOLEAN, out : o]
            \subseteq
          [found : 0..1, bits : 0..255, char : c2, idx : i2, start : BOOLEAN, out : o2]
      BY <2>1
    <2> QED
      BY <2>2, Zenon DEF Noisy, Demodulator, c, c2, i, i2, o, o2
  <1>2. Settles
    BY <1>1, LineSettles DEF Settles
  <1>3. Edges \subseteq 0..255
    BY DEF Edges
  <1> QED
    BY <1>2, <1>3, PassesAll DEF Transparent

(* What the runs check of the line code on the edges of the bit stuffing holds   *)
(* for every two characters (afsk_dac_isr() against hdlc_parse()).               *)
THEOREM LineTransparent == Spec => []Transparent
  BY LineCode, PTL
=============================================================================
