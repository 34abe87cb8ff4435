------------------------- MODULE PlayerServiceProofs -------------------------
(***************************************************************************)
(* For all well-formed requests, tables of users and sets of words that    *)
(* are not UTF-8: a request received in one piece is parsed and answered   *)
(* as its structure asks, one received in part is refused.                 *)
(*                                                                         *)
(* The proofs read a text by position.  The parameters of a request take   *)
(* four symbols each, so the position of every symbol of a rendered        *)
(* request is known, and with it what the parsers find where.              *)
(***************************************************************************)
EXTENDS PlayerService, WellFoundedInduction, TLAPS

-----------------------------------------------------------------------------
(* Texts of several parts.                                                  *)

\* There is no infinite descent in the naturals.
LEMMA Descent == IsWellFoundedOn({p \in Nat \X Nat : p[1] < p[2]}, Nat)
BY NatLessThanWellFounded DEF OpToRel

\* A set that has 0, and with n its successor, has all naturals.
LEMMA SetInduction ==
  ASSUME NEW T, 0 \in T, \A n \in Nat : n \in T => n + 1 \in T
  PROVE  Nat \subseteq T
<1> DEFINE Below == {p \in Nat \X Nat : p[1] < p[2]}
           Rest == Nat \ T
<1> SUFFICES ASSUME Rest # {} PROVE FALSE
  OBVIOUS
<1>1. \E x \in Rest : \A y \in Rest : ~(<<y, x>> \in Below)
  <2>1. Rest \subseteq Nat
    OBVIOUS
  <2> HIDE DEF Rest, Below
  <2> QED
    BY <2>1, Descent, WFMin DEF Below
<1>2. PICK x \in Rest : \A y \in Rest : ~(y < x)
  BY <1>1
<1>3. x # 0 /\ x - 1 \in Nat /\ x - 1 \in T
  BY <1>2
<1>4. x - 1 + 1 \in T
  BY <1>3
<1> QED
  BY <1>3, <1>4

\* Two parts, one behind the other.
Joins(S) ==
  \A p, q \in Seq(S) :
    /\ p \o q \in Seq(S) /\ Len(p \o q) = Len(p) + Len(q)
    /\ Len(p) \in Nat /\ Len(q) \in Nat
    /\ \A i \in 1 .. Len(p) : (p \o q)[i] = p[i]
    /\ \A i \in 1 .. Len(q) : (p \o q)[Len(p) + i] = q[i]

\* So they are in all sequences.
LEMMA Joined == ASSUME NEW S PROVE Joins(S)
BY DEF Joins

\* Sequences with the same elements are the same.
LEMMA SameElements ==
  ASSUME NEW S, NEW p \in Seq(S), NEW q \in Seq(S), Len(p) = Len(q),
         \A i \in 1 .. Len(p) : p[i] = q[i]
  PROVE  p = q
OBVIOUS

\* f[i] is the text of the first i parts of s, for i up to n.
Texts(S, s, n, f) ==
  /\ f[1] = s[1]
  /\ \A i \in 1 .. n - 1 : f[i + 1] = f[i] \o s[i + 1]
  /\ \A i \in 1 .. n : f[i] \in Seq(S)

\* There is such a function.
LEMMA TextsExist ==
  ASSUME NEW S, NEW s \in Seq(Seq(S)), Len(s) # 0
  PROVE  \E f : f = [i \in 1 .. Len(s) |-> f[i]] /\ Texts(S, s, Len(s), f)
<1> DEFINE len == Len(s)
           T == {n \in Nat : n + 1 <= len =>
                   \E f : f = [i \in 1 .. n + 1 |-> f[i]] /\ Texts(S, s, n + 1, f)}
<1>1. len \in Nat /\ len # 0 /\ \A i \in 1 .. len : s[i] \in Seq(S)
  OBVIOUS
<1> HIDE DEF len
<1>2. 0 \in T
  <2> DEFINE f == [i \in 1 .. 0 + 1 |-> s[i]]
  <2>1. f = [i \in 1 .. 0 + 1 |-> f[i]]
    OBVIOUS
  <2>2. Texts(S, s, 0 + 1, f)
    <3>1. 1 \in 1 .. len /\ 0 + 1 = 1 /\ f[1] = s[1]
      BY <1>1
    <3> QED
      BY <1>1, <3>1 DEF Texts
  <2> HIDE DEF f
  <2> QED
    BY <2>1, <2>2
<1>3. ASSUME NEW n \in Nat, n \in T PROVE n + 1 \in T
  <2> SUFFICES ASSUME n + 1 + 1 <= len
               PROVE  \E f : f = [i \in 1 .. n + 1 + 1 |-> f[i]] /\ Texts(S, s, n + 1 + 1, f)
    OBVIOUS
  <2>0. n + 1 <= len /\ n + 1 + 1 \in 1 .. len
    BY <1>1
  <2>1. PICK g : Texts(S, s, n + 1, g)
    BY <1>3, <2>0
  <2> DEFINE w == g[n + 1] \o s[n + 1 + 1]
             f == [i \in 1 .. n + 1 + 1 |-> IF i <= n + 1 THEN g[i] ELSE w]
  <2>2. w \in Seq(S)
    <3>1. g[n + 1] \in Seq(S) /\ s[n + 1 + 1] \in Seq(S)
      BY <1>1, <2>0, <2>1 DEF Texts
    <3>2. \A v, u \in Seq(S) : v \o u \in Seq(S)
      OBVIOUS
    <3> QED
      BY <3>1, <3>2
  <2>3. f = [i \in 1 .. n + 1 + 1 |-> f[i]]
    OBVIOUS
  <2> HIDE DEF w
  <2>4. (\A i \in 1 .. n + 1 : f[i] = g[i]) /\ f[n + 1 + 1] = w
    OBVIOUS
  <2> HIDE DEF f
  <2>5. f[1] = s[1]
    <3>1. 1 \in 1 .. n + 1
      OBVIOUS
    <3> QED
      BY <2>1, <2>4, <3>1, Zenon DEF Texts
  <2>6. ASSUME NEW i \in 1 .. (n + 1 + 1) - 1 PROVE f[i + 1] = f[i] \o s[i + 1]
    <3>1. CASE i = n + 1
      <4>1. n + 1 \in 1 .. n + 1
        OBVIOUS
      <4> QED
        BY <2>4, <3>1, <4>1, Zenon DEF w
    <3>2. CASE i # n + 1
      <4>1. i \in 1 .. (n + 1) - 1 /\ i \in 1 .. n + 1 /\ i + 1 \in 1 .. n + 1
        BY <3>2
      <4> QED
        BY <2>1, <2>4, <4>1, Zenon DEF Texts
    <3> QED
      BY <3>1, <3>2
  <2>7. ASSUME NEW i \in 1 .. n + 1 + 1 PROVE f[i] \in Seq(S)
    <3>1. i \in 1 .. n + 1 \/ i = n + 1 + 1
      OBVIOUS
    <3> QED
      BY <2>1, <2>2, <2>4, <3>1, Zenon DEF Texts
  <2>8. Texts(S, s, n + 1 + 1, f)
    BY <2>5, <2>6, <2>7 DEF Texts
  <2> QED
    BY <2>3, <2>8
<1> HIDE DEF T
<1>4. Nat \subseteq T
  BY <1>2, <1>3, SetInduction
<1>5. len - 1 \in T /\ (len - 1) + 1 = len /\ len <= len
  BY <1>1, <1>4
<1> QED
  BY <1>5 DEF T, len

\* The recursion of FlattenSeq, and the function it defines.
Flats(f, s) == f = [i \in 1 .. Len(s) |-> IF i = 1 THEN s[i] ELSE f[i - 1] \o s[i]]
Flat(s) == CHOOSE f : Flats(f, s)

\* FlattenSeq puts one part after the other.
LEMMA FlatFacts ==
  ASSUME NEW S, NEW s \in Seq(Seq(S)), Len(s) # 0
  PROVE  FlattenSeq(s) = Flat(s)[Len(s)] /\ Texts(S, s, Len(s), Flat(s))
<1>1. Len(s) \in Nat /\ \A i \in 1 .. Len(s) : s[i] \in Seq(S)
  OBVIOUS
<1>2. PICK f : f = [i \in 1 .. Len(s) |-> f[i]] /\ Texts(S, s, Len(s), f)
  BY TextsExist
<1>3. ASSUME NEW i \in 1 .. Len(s) PROVE f[i] = IF i = 1 THEN s[i] ELSE f[i - 1] \o s[i]
  <2>1. CASE i = 1
    BY <1>2, <2>1, Zenon DEF Texts
  <2>2. CASE i # 1
    <3>1. i - 1 \in 1 .. Len(s) - 1 /\ (i - 1) + 1 = i
      BY <1>1, <2>2
    <3>2. f[(i - 1) + 1] = f[i - 1] \o s[(i - 1) + 1]
      BY <1>2, <3>1, Zenon DEF Texts
    <3> QED
      BY <2>2, <3>1, <3>2
  <2> QED
    BY <2>1, <2>2
<1>4. Flats(f, s)
  BY <1>2, <1>3, Zenon DEF Flats
<1> DEFINE g == Flat(s)
<1>5. Flats(g, s)
  BY <1>4 DEF Flat
<1>6. FlattenSeq(s) = g[Len(s)]
  BY Zenon DEF FlattenSeq, Flat, Flats
<1> HIDE DEF g
<1>7. \A i \in 1 .. Len(s) : g[i] = IF i = 1 THEN s[i] ELSE g[i - 1] \o s[i]
  BY <1>5, Zenon DEF Flats
<1>8. g[1] = s[1]
  <2>1. 1 \in 1 .. Len(s)
    BY <1>1
  <2> QED
    BY <1>7, <2>1, Zenon
<1>9. ASSUME NEW i \in 1 .. Len(s) - 1 PROVE g[i + 1] = g[i] \o s[i + 1]
  <2>1. i + 1 \in 1 .. Len(s) /\ i + 1 # 1 /\ (i + 1) - 1 = i
    BY <1>1
  <2>2. g[i + 1] = g[(i + 1) - 1] \o s[i + 1]
    BY <1>7, <2>1, Zenon
  <2> QED
    BY <2>1, <2>2
<1> DEFINE T == {i \in Nat : i + 1 <= Len(s) => g[i + 1] \in Seq(S)}
<1>10. 0 \in T
  <2>1. 1 \in 1 .. Len(s) /\ 0 + 1 = 1
    BY <1>1
  <2> QED
    BY <1>1, <1>8, <2>1
<1>11. ASSUME NEW i \in Nat, i \in T PROVE i + 1 \in T
  <2> SUFFICES ASSUME i + 1 + 1 <= Len(s) PROVE g[i + 1 + 1] \in Seq(S)
    OBVIOUS
  <2>1. i + 1 \in 1 .. Len(s) - 1 /\ i + 1 + 1 \in 1 .. Len(s) /\ i + 1 <= Len(s)
    BY <1>1
  <2>2. g[i + 1 + 1] = g[i + 1] \o s[i + 1 + 1] /\ g[i + 1] \in Seq(S) /\ s[i + 1 + 1] \in Seq(S)
    BY <1>1, <1>9, <1>11, <2>1
  <2>3. \A v, w \in Seq(S) : v \o w \in Seq(S)
    OBVIOUS
  <2> QED
    BY <2>2, <2>3
<1> HIDE DEF T
<1>12. Nat \subseteq T
  BY <1>10, <1>11, SetInduction
<1>13. ASSUME NEW i \in 1 .. Len(s) PROVE g[i] \in Seq(S)
  <2>1. i - 1 \in T /\ (i - 1) + 1 = i /\ i <= Len(s)
    BY <1>1, <1>12
  <2> QED
    BY <2>1 DEF T
<1>14. Texts(S, s, Len(s), g)
  BY <1>8, <1>9, <1>13 DEF Texts
<1> QED
  BY <1>6, <1>14 DEF g

\* The text is a text.
LEMMA FlattenType ==
  ASSUME NEW S, NEW s \in Seq(Seq(S))
  PROVE  FlattenSeq(s) \in Seq(S)
<1>1. CASE Len(s) = 0
  <2>1. s = <<>> /\ <<>> \in Seq(S)
    BY <1>1
  <2>2. FlattenSeq(s) = s
    BY <1>1, Zenon DEF FlattenSeq
  <2> QED
    BY <2>1, <2>2
<1>2. CASE Len(s) # 0
  <2>1. Len(s) \in 1 .. Len(s)
    BY <1>2
  <2>2. FlattenSeq(s) = Flat(s)[Len(s)] /\ Texts(S, s, Len(s), Flat(s))
    BY <1>2, FlatFacts
  <2> QED
    BY <2>1, <2>2, Zenon DEF Texts
<1> QED
  BY <1>1, <1>2

\* p is s up to its i-th part.
Before(S, s, p, i) ==
  /\ s \in Seq(Seq(S)) /\ p \in Seq(Seq(S)) /\ i \in 1 .. Len(s) /\ Len(p) = i - 1
  /\ \A j \in 1 .. Len(p) : p[j] = s[j]

\* The text up to a part is the text before it, and that part.
LEMMA FlatBefore ==
  ASSUME NEW S, NEW s, NEW p, NEW i, Before(S, s, p, i)
  PROVE  Flat(s)[i] = FlattenSeq(p) \o s[i] /\ FlattenSeq(p) \in Seq(S) /\ s[i] \in Seq(S)
<1> DEFINE f == Flat(s)
           g == Flat(p)
           n == Len(p)
<1>1. /\ s \in Seq(Seq(S)) /\ p \in Seq(Seq(S)) /\ i \in 1 .. Len(s) /\ Len(s) \in Nat
      /\ n \in Nat /\ i = n + 1 /\ n + 1 <= Len(s) /\ Len(s) # 0
      /\ \A j \in 1 .. n : p[j] = s[j]
  BY DEF Before
<1>2. Texts(S, s, Len(s), f)
  BY <1>1, FlatFacts
<1>3. FlattenSeq(p) \in Seq(S) /\ s[i] \in Seq(S)
  BY <1>1, FlattenType
<1>4. CASE n = 0
  <2>1. FlattenSeq(p) = <<>>
    <3>1. p = <<>>
      BY <1>1, <1>4
    <3>2. FlattenSeq(p) = p
      BY <1>4, Zenon DEF FlattenSeq, n
    <3> QED
      BY <3>1, <3>2
  <2>2. f[i] = s[i]
    <3>1. i = 1
      BY <1>1, <1>4
    <3> QED
      BY <1>2, <3>1, Zenon DEF Texts
  <2>3. \A v \in Seq(S) : <<>> \o v = v
    OBVIOUS
  <2> QED
    BY <1>3, <2>1, <2>2, <2>3
<1>5. CASE n # 0
  <2>1. FlattenSeq(p) = g[n] /\ Texts(S, p, n, g)
    BY <1>1, <1>5, FlatFacts
  <2> HIDE DEF f, g, n
  <2> DEFINE T == {j \in Nat : j + 1 <= n => f[j + 1] = g[j + 1]}
  <2>2. 0 \in T
    <3>1. f[1] = s[1] /\ g[1] = p[1]
      BY <1>2, <2>1, Zenon DEF Texts
    <3>2. 1 \in 1 .. n /\ 0 + 1 = 1
      BY <1>1, <1>5
    <3> QED
      BY <1>1, <3>1, <3>2
  <2>3. ASSUME NEW j \in Nat, j \in T PROVE j + 1 \in T
    <3> SUFFICES ASSUME j + 1 + 1 <= n PROVE f[j + 1 + 1] = g[j + 1 + 1]
      OBVIOUS
    <3>1. j + 1 \in 1 .. n - 1 /\ j + 1 \in 1 .. Len(s) - 1 /\ j + 1 + 1 \in 1 .. n /\ j + 1 <= n
      BY <1>1
    <3>2. f[j + 1 + 1] = f[j + 1] \o s[j + 1 + 1] /\ g[j + 1 + 1] = g[j + 1] \o p[j + 1 + 1]
      BY <1>2, <2>1, <3>1, Zenon DEF Texts
    <3>3. f[j + 1] = g[j + 1]
      BY <2>3, <3>1
    <3>4. p[j + 1 + 1] = s[j + 1 + 1]
      BY <1>1, <3>1
    <3> QED
      BY <3>2, <3>3, <3>4, Zenon
  <2> HIDE DEF T
  <2>4. Nat \subseteq T
    BY <2>2, <2>3, SetInduction
  <2>5. f[n] = g[n]
    <3>1. n - 1 \in T /\ (n - 1) + 1 = n /\ n <= n
      BY <1>1, <1>5, <2>4
    <3> QED
      BY <3>1 DEF T
  <2>6. f[n + 1] = f[n] \o s[n + 1]
    <3>1. n \in 1 .. Len(s) - 1
      BY <1>1, <1>5
    <3> QED
      BY <1>2, <3>1, Zenon DEF Texts
  <2> QED
    BY <1>1, <1>3, <2>1, <2>5, <2>6 DEF f
<1> QED
  BY <1>3, <1>4, <1>5

\* What is appended to the parts is appended to their text.
LEMMA FlattenAppend ==
  ASSUME NEW S, NEW s, NEW p, NEW i, Before(S, s, p, i), i = Len(s)
  PROVE  FlattenSeq(s) = FlattenSeq(p) \o s[i]
<1>1. s \in Seq(Seq(S)) /\ Len(s) # 0
  BY DEF Before
<1>2. FlattenSeq(s) = Flat(s)[Len(s)]
  BY <1>1, FlatFacts
<1>3. Flat(s)[i] = FlattenSeq(p) \o s[i]
  BY FlatBefore
<1> QED
  BY <1>2, <1>3

\* t begins with w.
Begins(w, t) == Len(w) <= Len(t) /\ \A j \in 1 .. Len(w) : t[j] = w[j]

\* The text begins with that of its first parts.
LEMMA FlattenBegins ==
  ASSUME NEW S, NEW s, NEW p, NEW i, Before(S, s, p, i)
  PROVE  Begins(FlattenSeq(p) \o s[i], FlattenSeq(s))
<1> DEFINE f == Flat(s)
           n == Len(s)
<1>1. s \in Seq(Seq(S)) /\ n \in Nat /\ n # 0 /\ i \in 1 .. n /\ \A j \in 1 .. n : s[j] \in Seq(S)
  BY DEF Before
<1>2. FlattenSeq(s) = f[n] /\ Texts(S, s, n, f)
  BY <1>1, FlatFacts
<1>3. f[i] = FlattenSeq(p) \o s[i]
  BY FlatBefore
<1> HIDE DEF f, n
<1>j. \A v, w \in Seq(S) :
        /\ v \o w \in Seq(S) /\ Len(v) \in Nat /\ Len(w) \in Nat /\ Len(v) <= Len(v \o w)
        /\ \A j \in 1 .. Len(v) : (v \o w)[j] = v[j]
  OBVIOUS
<1> DEFINE T == {d \in Nat : i + d <= n => Begins(f[i], f[i + d])}
<1>4. 0 \in T
  <2>1. f[i] \in Seq(S)
    BY <1>1, <1>2, Zenon DEF Texts
  <2>2. Len(f[i]) \in Nat
    BY <2>1
  <2>3. Begins(f[i], f[i])
    BY <2>2 DEF Begins
  <2>4. i + 0 = i
    BY <1>1
  <2> QED
    BY <2>3, <2>4
<1>5. ASSUME NEW d \in Nat, d \in T PROVE d + 1 \in T
  <2> SUFFICES ASSUME i + (d + 1) <= n PROVE Begins(f[i], f[i + (d + 1)])
    OBVIOUS
  <2> DEFINE m == i + d
  <2>1. m \in 1 .. n - 1 /\ m \in 1 .. n /\ m + 1 \in 1 .. n /\ i + (d + 1) = m + 1 /\ m <= n
    BY <1>1
  <2>2. Begins(f[i], f[m])
    BY <1>5, <2>1
  <2> HIDE DEF m
  <2>3. f[m + 1] = f[m] \o s[m + 1] /\ f[m] \in Seq(S) /\ s[m + 1] \in Seq(S) /\ f[i] \in Seq(S)
    BY <1>1, <1>2, <2>1, Zenon DEF Texts
  <2>4. /\ Len(f[m]) \in Nat /\ Len(f[m]) <= Len(f[m + 1])
        /\ \A j \in 1 .. Len(f[m]) : f[m + 1][j] = f[m][j]
    <3> DEFINE v == f[m]
               w == s[m + 1]
               vw == f[m + 1]
    <3>1. v \in Seq(S) /\ w \in Seq(S) /\ vw = v \o w
      BY <2>3
    <3> HIDE DEF v, w, vw
    <3>2. Len(v) \in Nat /\ Len(v) <= Len(v \o w) /\ \A j \in 1 .. Len(v) : (v \o w)[j] = v[j]
      BY <1>j, <3>1, Zenon
    <3>3. Len(v) \in Nat /\ Len(v) <= Len(vw) /\ \A j \in 1 .. Len(v) : vw[j] = v[j]
      BY <3>1, <3>2
    <3> QED
      BY <3>3 DEF v, vw
  <2>5. Len(f[i]) \in Nat /\ Len(f[m + 1]) \in Nat
    BY <1>j, <2>3, Zenon
  <2>6. Begins(f[i], f[m + 1])
    <3> DEFINE a == Len(f[i])
               b == Len(f[m])
               c == Len(f[m + 1])
    <3>1. a \in Nat /\ b \in Nat /\ c \in Nat /\ a <= b /\ b <= c
      BY <2>2, <2>4, <2>5 DEF Begins
    <3> HIDE DEF a, b, c
    <3>2. a <= c /\ \A j \in 1 .. a : j \in 1 .. b
      BY <3>1
    <3>3. \A j \in 1 .. a : f[m + 1][j] = f[i][j]
      BY <2>2, <2>4, <3>2, Zenon DEF Begins, a, b
    <3> QED
      BY <3>2, <3>3 DEF Begins, a, c
  <2> QED
    BY <2>1, <2>6
<1> HIDE DEF T
<1>6. Nat \subseteq T
  BY <1>4, <1>5, SetInduction
<1>7. n - i \in Nat /\ i + (n - i) = n /\ n <= n
  BY <1>1
<1>8. Begins(f[i], f[n])
  <2>1. n - i \in T
    BY <1>6, <1>7
  <2> QED
    BY <1>7, <2>1 DEF T
<1> QED
  BY <1>2, <1>3, <1>8

\* Parts of four symbols each make a text of four times their number.
LEMMA FlattenFours ==
  ASSUME NEW S, NEW s \in Seq(Seq(S)), \A i \in 1 .. Len(s) : Len(s[i]) = 4
  PROVE  Len(FlattenSeq(s)) = 4 * Len(s)
<1> DEFINE f == Flat(s)
           n == Len(s)
<1>1. n \in Nat /\ \A i \in 1 .. n : s[i] \in Seq(S) /\ Len(s[i]) = 4
  OBVIOUS
<1>2. CASE n = 0
  <2>1. s = <<>> /\ Len(s) = 0
    BY <1>2
  <2>2. FlattenSeq(s) = s
    BY <1>2, Zenon DEF FlattenSeq
  <2> QED
    BY <2>1, <2>2
<1>3. CASE n # 0
  <2>1. FlattenSeq(s) = f[n] /\ Texts(S, s, n, f)
    BY <1>3, FlatFacts
  <2> HIDE DEF f, n
  <2>2. f[1] = s[1] /\ \A i \in 1 .. n - 1 : f[i + 1] = f[i] \o s[i + 1] /\ f[i] \in Seq(S)
    <3>1. \A i \in 1 .. n - 1 : i \in 1 .. n
      BY <1>1
    <3> QED
      BY <2>1, <3>1, Zenon DEF Texts
  <2>3. \A v, w \in Seq(S) : Len(v \o w) = Len(v) + Len(w)
    OBVIOUS
  <2> DEFINE T == {i \in Nat : i + 1 <= n => Len(f[i + 1]) = 4 * (i + 1)}
  <2>4. 0 \in T
    <3>1. 1 \in 1 .. n
      BY <1>1, <1>3
    <3>2. Len(s[1]) = 4
      BY <1>1, <3>1
    <3>3. Len(f[0 + 1]) = 4 * (0 + 1)
      BY <2>2, <3>2
    <3> QED
      BY <3>3
  <2>5. ASSUME NEW i \in Nat, i \in T PROVE i + 1 \in T
    <3> SUFFICES ASSUME i + 1 + 1 <= n PROVE Len(f[i + 1 + 1]) = 4 * (i + 1 + 1)
      OBVIOUS
    <3>1. i + 1 \in 1 .. n - 1 /\ i + 1 + 1 \in 1 .. n /\ i + 1 <= n
      BY <1>1
    <3>2. Len(f[i + 1]) = 4 * (i + 1)
      BY <2>5, <3>1
    <3>3. s[i + 1 + 1] \in Seq(S) /\ Len(s[i + 1 + 1]) = 4
      BY <1>1, <3>1
    <3>4. Len(f[i + 1 + 1]) = Len(f[i + 1]) + Len(s[i + 1 + 1])
      BY <2>2, <2>3, <3>1, <3>3
    <3> QED
      BY <3>2, <3>3, <3>4
  <2> HIDE DEF T
  <2>6. Nat \subseteq T
    BY <2>4, <2>5, SetInduction
  <2>7. n - 1 \in T /\ (n - 1) + 1 = n /\ n <= n
    BY <1>1, <1>3, <2>6
  <2>8. Len(f[n]) = 4 * n
    BY <2>7 DEF T
  <2> QED
    BY <2>1, <2>8 DEF n
<1> QED
  BY <1>2, <1>3

-----------------------------------------------------------------------------
(* Symbols.                                                                 *)

Separators == {CRLF, SP, "?", "&", "=", ":"}

\* Whatever a request may be rendered as.
Symbol ==
  STRING \cup Methods \cup Separators
    \cup {"HTTP/1.1", "Host", "h", "Content-Length"} \cup {Digits[i] : i \in DOMAIN Digits}

\* The separators are different symbols.
LEMMA Separate ==
  /\ CRLF # SP /\ CRLF # "?" /\ CRLF # "&" /\ CRLF # "=" /\ CRLF # ":"
  /\ SP # "?" /\ SP # "&" /\ SP # "=" /\ SP # ":"
  /\ "?" # "&" /\ "?" # "=" /\ "?" # ":" /\ "&" # "=" /\ "&" # ":" /\ "=" # ":"
BY Zenon DEF CRLF, SP

\* Words have none in them.
LEMMA WordSolid == ASSUME NEW w \in Word PROVE w \notin Separators /\ w \in Symbol /\ w # "other"
BY Zenon DEF Word, Separators, Symbol

\* Nor have methods.
LEMMA MethodSolid == ASSUME NEW m \in Methods PROVE m \notin Separators /\ m \in Symbol
<1>1. m \in Symbol
  BY Zenon DEF Symbol
<1>2. m # CRLF /\ m # SP
  BY Zenon DEF Methods, CRLF, SP
<1>3. m # "?" /\ m # "&"
  BY Zenon DEF Methods
<1>4. m # "=" /\ m # ":"
  BY Zenon DEF Methods
<1> QED
  BY <1>1, <1>2, <1>3, <1>4, Zenon DEF Separators

\* Nor have the words every request has.
LEMMA FixedSolid ==
  /\ "HTTP/1.1" \notin Separators /\ "Host" \notin Separators /\ "h" \notin Separators
  /\ "Content-Length" \notin Separators
  /\ {"HTTP/1.1", "Host", "h", "Content-Length"} \subseteq Symbol
  /\ Separators \subseteq Symbol
  /\ CRLF \in Symbol /\ SP \in Symbol /\ "?" \in Symbol /\ "&" \in Symbol
  /\ "=" \in Symbol /\ ":" \in Symbol
<1>1. "HTTP/1.1" \notin Separators
  BY Zenon DEF Separators, CRLF, SP
<1>2. "Host" \notin Separators
  BY Zenon DEF Separators, CRLF, SP
<1>3. "h" \notin Separators
  BY Zenon DEF Separators, CRLF, SP
<1>4. "Content-Length" \notin Separators
  BY Zenon DEF Separators, CRLF, SP
<1>5. {"HTTP/1.1", "Host", "h", "Content-Length"} \subseteq Symbol /\ Separators \subseteq Symbol
  BY Zenon DEF Symbol
<1>6. CRLF \in Separators /\ SP \in Separators /\ "?" \in Separators /\ "&" \in Separators
      /\ "=" \in Separators /\ ":" \in Separators
  BY Zenon DEF Separators
<1> QED
  BY <1>1, <1>2, <1>3, <1>4, <1>5, <1>6, Zenon

\* There are ten digits, all different, and no separator among them.
LEMMA DigitFacts ==
  /\ Len(Digits) = 10 /\ DOMAIN Digits = 1 .. 10
  /\ \A i \in 1 .. 10 : Digits[i] \in Symbol /\ Digits[i] \notin Separators
  /\ \A i, j \in 1 .. 10 : Digits[i] = Digits[j] => i = j
<1>1. Len(Digits) = 10 /\ DOMAIN Digits = 1 .. 10
  BY DEF Digits
<1>2. ASSUME NEW i \in 1 .. 10, NEW j \in 1 .. 10, Digits[i] = Digits[j] PROVE i = j
  BY <1>2 DEF Digits
<1>3. ASSUME NEW i \in 1 .. 10 PROVE Digits[i] \in Symbol
  BY <1>1, Zenon DEF Symbol
<1>4. ASSUME NEW i \in 1 .. 10 PROVE Digits[i] \notin Separators
  <2>1. Digits[i] \in {"0", "1", "2", "3", "4", "5", "6", "7", "8", "9"}
    BY DEF Digits
  <2> DEFINE d == Digits[i]
  <2> HIDE DEF d
  <2>2. d \in {"0", "1", "2", "3", "4", "5", "6", "7", "8", "9"}
    BY <2>1 DEF d
  <2>3. d # CRLF
    BY <2>2, Zenon DEF CRLF
  <2>4. d # SP
    BY <2>2, Zenon DEF SP
  <2>5. d # "?" /\ d # "&" /\ d # "=" /\ d # ":"
    BY <2>2
  <2>6. d \notin Separators
    BY <2>3, <2>4, <2>5, Zenon DEF Separators
  <2> QED
    BY <2>6 DEF d
<1> QED
  BY <1>1, <1>2, <1>3, <1>4

-----------------------------------------------------------------------------
(* A request by position.                                                   *)

\* A sequence of some symbols is one of more symbols.
LEMMA SeqOfMore ==
  ASSUME NEW A, NEW B, NEW s \in Seq(A), A \subseteq B
  PROVE  s \in Seq(B)
<1>1. Len(s) \in Nat /\ s = [i \in 1 .. Len(s) |-> s[i]] /\ \A i \in 1 .. Len(s) : s[i] \in B
  OBVIOUS
<1> QED
  BY <1>1

\* What a request is made of.
LEMMA RequestFields ==
  ASSUME NEW r \in Request
  PROVE  /\ r.method \in Methods /\ r.path \in Word
         /\ r.params \in Seq(Word \X Word) /\ Len(r.params) \in Nat
         /\ \A k \in 1 .. Len(r.params) : r.params[k][1] \in Word /\ r.params[k][2] \in Word
         /\ r.body \in Seq(Symbol) /\ Len(r.body) \in 0 .. 9
<1>1. /\ r.method \in Methods /\ r.path \in Word /\ r.params \in Seq(Word \X Word)
      /\ r.body \in Seq(STRING) /\ Len(r.body) < Len(Digits)
  BY DEF Request
<1>2. Len(r.body) \in 0 .. 9
  <2>1. Len(Digits) = 10
    BY DigitFacts, Zenon
  <2>2. Len(r.body) \in Nat /\ Len(r.body) < 10
    BY <1>1, <2>1
  <2>3. \A n \in Nat : n < 10 => n \in 0 .. 9
    OBVIOUS
  <2> QED
    BY <2>2, <2>3, Zenon
<1>3. STRING \subseteq Symbol
  BY Zenon DEF Symbol
<1> HIDE DEF Symbol
<1>4. r.body \in Seq(Symbol)
  <2> DEFINE b == r.body
  <2>1. b \in Seq(STRING)
    BY <1>1
  <2> HIDE DEF b
  <2>2. b \in Seq(Symbol)
    BY <1>3, <2>1, SeqOfMore
  <2> QED
    BY <2>2 DEF b
<1> QED
  BY <1>1, <1>2, <1>4

\* What opens the k-th parameter.
Mark(k) == IF k = 1 THEN "?" ELSE "&"

\* The text t has symbol x at position i, if it is that long.
Reads(t, i, x) == i \in 1 .. Len(t) => t[i] = x

\* Text t has these parameters, from the position behind base on.
ParamsAt(params, t, base) ==
  \A k \in 1 .. Len(params) :
    /\ Reads(t, base + 4 * k - 3, Mark(k)) /\ Reads(t, base + 4 * k - 2, params[k][1])
    /\ Reads(t, base + 4 * k - 1, "=") /\ Reads(t, base + 4 * k, params[k][2])

\* Four symbols per parameter.
LEMMA ParamsRendered ==
  ASSUME NEW params \in Seq(Word \X Word)
  PROVE  /\ RenderParams(params) \in Seq(Symbol)
         /\ Len(RenderParams(params)) = 4 * Len(params)
         /\ ParamsAt(params, RenderParams(params), 0)
<1> DEFINE n == Len(params)
           piece(k) == <<Mark(k), params[k][1], "=", params[k][2]>>
           s == [i \in DOMAIN params |->
                  (IF i = 1 THEN <<"?">> ELSE <<"&">>) \o <<params[i][1], "=", params[i][2]>>]
           q == FlattenSeq(s)
<1>1. n \in Nat /\ DOMAIN params = 1 .. n /\ \A k \in 1 .. n : params[k] \in Word \X Word
  OBVIOUS
<1>2. ASSUME NEW k \in 1 .. n
      PROVE  /\ params[k][1] \in Symbol /\ params[k][2] \in Symbol /\ Mark(k) \in Symbol
             /\ "=" \in Symbol
  <2>1. params[k][1] \in Word /\ params[k][2] \in Word
    BY <1>1
  <2>2. Mark(k) \in Symbol
    BY FixedSolid, Zenon DEF Mark
  <2> QED
    BY <2>1, <2>2, WordSolid, FixedSolid, Zenon
<1>3. ASSUME NEW k \in 1 .. n PROVE s[k] = piece(k)
  <2>1. ASSUME NEW a \in Symbol, NEW b \in Symbol, NEW c \in Symbol, NEW d \in Symbol
        PROVE  <<a>> \o <<b, c, d>> = <<a, b, c, d>>
    <3> DEFINE v == <<a>> \o <<b, c, d>>
               w == <<a, b, c, d>>
    <3>1. /\ v \in Seq(Symbol) /\ Len(v) = 4 /\ w \in Seq(Symbol) /\ Len(w) = 4
          /\ v[1] = w[1] /\ v[2] = w[2] /\ v[3] = w[3] /\ v[4] = w[4]
      OBVIOUS
    <3> HIDE DEF v, w
    <3>2. \A i \in 1 .. Len(v) : v[i] = w[i]
      BY <3>1
    <3>3. v = w
      BY <3>1, <3>2, SameElements
    <3> QED
      BY <3>3 DEF v, w
  <2>2. s[k] = (IF k = 1 THEN <<"?">> ELSE <<"&">>) \o <<params[k][1], "=", params[k][2]>>
    BY <1>1
  <2>3. (IF k = 1 THEN <<"?">> ELSE <<"&">>) = <<Mark(k)>>
    BY Zenon DEF Mark
  <2>4. <<Mark(k)>> \o <<params[k][1], "=", params[k][2]>> = piece(k)
    BY <1>2, <2>1, Zenon
  <2> QED
    BY <2>2, <2>3, <2>4, Zenon
<1>4. ASSUME NEW k \in 1 .. n
      PROVE  /\ piece(k) \in Seq(Symbol) /\ Len(piece(k)) = 4
             /\ piece(k)[1] = Mark(k) /\ piece(k)[2] = params[k][1]
             /\ piece(k)[3] = "=" /\ piece(k)[4] = params[k][2]
  <2>1. \A a, b, c, d \in Symbol : <<a, b, c, d>> \in Seq(Symbol)
    OBVIOUS
  <2>2. piece(k) \in Seq(Symbol)
    BY <1>2, <2>1, Zenon
  <2> QED
    BY <2>2
<1>5. s \in Seq(Seq(Symbol)) /\ Len(s) = n
  <2>1. \A k \in 1 .. n : s[k] \in Seq(Symbol)
    BY <1>3, <1>4, Zenon
  <2>2. s = [k \in 1 .. n |-> s[k]]
    BY <1>1
  <2> HIDE DEF s
  <2> QED
    BY <1>1, <2>1, <2>2
<1>6. q = RenderParams(params)
  BY DEF RenderParams
<1> HIDE DEF n, piece, s
<1>7. \A k \in 1 .. Len(s) : Len(s[k]) = 4
  BY <1>3, <1>4, <1>5
<1>8. q \in Seq(Symbol) /\ Len(q) = 4 * n
  BY <1>5, <1>7, FlattenType, FlattenFours
<1>9. ASSUME NEW k \in 1 .. n, NEW j \in 1 .. 4 PROVE q[4 * k - 4 + j] = s[k][j]
  <2> DEFINE p == [i \in 1 .. k - 1 |-> s[i]]
             w == FlattenSeq(p)
             v == w \o s[k]
  <2>1. /\ p \in Seq(Seq(Symbol)) /\ Len(p) = k - 1 /\ \A i \in 1 .. k - 1 : p[i] = s[i]
        /\ k \in 1 .. Len(s) /\ k - 1 \in Nat /\ \A i \in 1 .. k - 1 : i \in 1 .. n
    <3>1. \A i \in 1 .. k - 1 : i \in 1 .. n
      BY <1>1
    <3>2. \A i \in 1 .. n : s[i] \in Seq(Symbol)
      BY <1>5
    <3> QED
      BY <1>1, <1>5, <3>1, <3>2
  <2> HIDE DEF p, w, v
  <2>2. Before(Symbol, s, p, k)
    BY <1>5, <2>1 DEF Before
  <2>3. Begins(v, q)
    BY <2>2, FlattenBegins DEF v, w
  <2>4. w \in Seq(Symbol) /\ Len(w) = 4 * (k - 1)
    <3>1. \A i \in 1 .. Len(p) : Len(p[i]) = 4
      BY <1>5, <1>7, <2>1
    <3> QED
      BY <2>1, <3>1, FlattenType, FlattenFours DEF w
  <2>5. s[k] \in Seq(Symbol) /\ Len(s[k]) = 4
    BY <1>5, <1>7, <2>1
  <2>6. v \in Seq(Symbol) /\ Len(v) = Len(w) + 4 /\ v[Len(w) + j] = s[k][j]
    <3>1. Joins(Symbol)
      BY Joined
    <3>2. Len(v) = Len(w) + Len(s[k]) /\ v \in Seq(Symbol)
          /\ \A i \in 1 .. Len(s[k]) : v[Len(w) + i] = s[k][i]
      BY <2>4, <2>5, <3>1, Zenon DEF Joins, v
    <3> QED
      BY <2>5, <3>2
  <2>7. Len(w) + j = 4 * k - 4 + j /\ Len(w) + j \in 1 .. Len(v)
    <3> DEFINE a == Len(w)
               b == Len(v)
    <3>1. k \in Nat \ {0} /\ j \in 1 .. 4
      BY <2>1
    <3>2. a = 4 * (k - 1) /\ b = a + 4
      BY <2>4, <2>6, Zenon
    <3> HIDE DEF a, b
    <3>3. a + j = 4 * k - 4 + j /\ a + j \in 1 .. b
      BY <3>1, <3>2
    <3> QED
      BY <3>3, Zenon DEF a, b
  <2>8. q[Len(w) + j] = v[Len(w) + j]
    BY <2>3, <2>7, Zenon DEF Begins
  <2> QED
    BY <2>6, <2>7, <2>8
<1>10. ASSUME NEW k \in 1 .. n
       PROVE  /\ q[0 + 4 * k - 3] = Mark(k) /\ q[0 + 4 * k - 2] = params[k][1]
              /\ q[0 + 4 * k - 1] = "=" /\ q[0 + 4 * k] = params[k][2]
  <2>1. k \in Nat
    OBVIOUS
  <2>2. /\ 4 * k - 4 + 1 = 0 + 4 * k - 3 /\ 4 * k - 4 + 2 = 0 + 4 * k - 2
        /\ 4 * k - 4 + 3 = 0 + 4 * k - 1 /\ 4 * k - 4 + 4 = 0 + 4 * k
    BY <2>1
  <2>3. /\ q[4 * k - 4 + 1] = s[k][1] /\ q[4 * k - 4 + 2] = s[k][2]
        /\ q[4 * k - 4 + 3] = s[k][3] /\ q[4 * k - 4 + 4] = s[k][4]
    <3>1. 1 \in 1 .. 4 /\ 2 \in 1 .. 4 /\ 3 \in 1 .. 4 /\ 4 \in 1 .. 4
      OBVIOUS
    <3> QED
      BY <1>9, <3>1, Zenon
  <2>4. /\ s[k][1] = Mark(k) /\ s[k][2] = params[k][1] /\ s[k][3] = "=" /\ s[k][4] = params[k][2]
    BY <1>3, <1>4, Zenon
  <2> QED
    BY <2>2, <2>3, <2>4
<1> HIDE DEF q
<1>11. ParamsAt(params, q, 0)
  BY <1>10, Zenon DEF ParamsAt, Reads, n
<1> QED
  BY <1>6, <1>8, <1>11 DEF n

\* The positions of the end of the request line, of the empty line, and of the
\* end of the request.
Eol(r) == 6 + 4 * Len(r.params)
Blank(r) == Eol(r) + (IF r.body = <<>> THEN 5 ELSE 10)
Size(r) == Blank(r) + Len(r.body)

\* The text t is what r is rendered as, as far as it goes.
Spelled(r, t) ==
  /\ Reads(t, 1, r.method) /\ Reads(t, 2, SP) /\ Reads(t, 3, r.path)
  /\ ParamsAt(r.params, t, 3)
  /\ Reads(t, Eol(r) - 2, SP) /\ Reads(t, Eol(r) - 1, "HTTP/1.1") /\ Reads(t, Eol(r), CRLF)
  /\ Reads(t, Eol(r) + 1, "Host") /\ Reads(t, Eol(r) + 2, ":")
  /\ Reads(t, Eol(r) + 3, "h") /\ Reads(t, Eol(r) + 4, CRLF)
  /\ r.body # <<>> =>
       /\ Reads(t, Eol(r) + 5, "Content-Length") /\ Reads(t, Eol(r) + 6, ":")
       /\ Reads(t, Eol(r) + 7, SP) /\ Reads(t, Eol(r) + 8, Digits[Len(r.body) + 1])
       /\ Reads(t, Eol(r) + 9, CRLF)
  /\ Reads(t, Blank(r), CRLF)
  /\ \A j \in 1 .. Len(r.body) : Reads(t, Blank(r) + j, r.body[j])

\* The text w stands in t from the position behind base on.
Stands(w, t, base) ==
  base + Len(w) <= Len(t) /\ \A i \in 1 .. Len(w) : t[base + i] = w[i]

\* What stands in a text stands in every longer one, what is put behind it too.
LEMMA StandsIn ==
  ASSUME NEW S, NEW v \in Seq(S), NEW w \in Seq(S)
  PROVE  /\ v \o w \in Seq(S) /\ Len(v \o w) = Len(v) + Len(w)
         /\ Stands(v, v \o w, 0) /\ Stands(w, v \o w, Len(v))
         /\ \A u \in Seq(S), base \in Nat : Stands(u, v, base) => Stands(u, v \o w, base)
<1> DEFINE t == v \o w
           m == Len(v)
           n == Len(w)
<1>1. /\ t \in Seq(S) /\ Len(t) = m + n /\ m \in Nat /\ n \in Nat
      /\ (\A i \in 1 .. m : t[i] = v[i]) /\ \A i \in 1 .. n : t[m + i] = w[i]
  <2>1. Joins(S)
    BY Joined
  <2> QED
    BY <2>1, Zenon DEF Joins
<1> HIDE DEF t
<1>2. ASSUME NEW u \in Seq(S), NEW base \in Nat, Stands(u, v, base) PROVE Stands(u, t, base)
  <2>1. Len(u) \in Nat /\ base + Len(u) <= m /\ \A i \in 1 .. Len(u) : v[base + i] = u[i]
    <3>1. Len(u) \in Nat
      OBVIOUS
    <3> QED
      BY <1>2, <3>1, Zenon DEF Stands
  <2> DEFINE l == Len(u)
  <2> HIDE DEF m, n, l
  <2>0. l \in Nat /\ base + l <= m
    BY <2>1, Zenon DEF l
  <2>2. base + l <= m + n /\ \A i \in 1 .. l : base + i \in 1 .. m
    <3>1. m \in Nat /\ n \in Nat
      BY <1>1
    <3> QED
      BY <2>0, <3>1
  <2>3. \A i \in 1 .. l : t[base + i] = u[i]
    BY <1>1, <2>1, <2>2, Zenon DEF l
  <2> QED
    BY <1>1, <2>2, <2>3 DEF Stands, l
<1>3. Stands(v, t, 0)
  <2>1. \A i \in 1 .. m : 0 + i = i
    OBVIOUS
  <2>2. 0 + m <= m + n
    BY <1>1
  <2> HIDE DEF m, n
  <2>3. \A i \in 1 .. m : t[0 + i] = v[i]
    BY <1>1, <2>1
  <2> QED
    BY <1>1, <2>2, <2>3 DEF Stands, m
<1>4. Stands(w, t, m)
  <2>1. m + n <= m + n
    BY <1>1
  <2> HIDE DEF m
  <2> QED
    BY <1>1, <2>1, Zenon DEF Stands
<1> QED
  BY <1>1, <1>2, <1>3, <1>4 DEF t

\* The header of a body.
Declared(r) ==
  IF r.body = <<>> THEN <<>>
  ELSE <<"Content-Length", ":", SP, Digits[Len(r.body) + 1], CRLF>>

\* The parts a request is rendered as are texts.
LEMMA PartTypes ==
  ASSUME NEW r \in Request
  PROVE  /\ <<r.method, SP, r.path>> \in Seq(Symbol) /\ <<SP, "HTTP/1.1", CRLF>> \in Seq(Symbol)
         /\ <<"Host", ":", "h", CRLF>> \in Seq(Symbol) /\ <<CRLF>> \in Seq(Symbol)
         /\ Declared(r) \in Seq(Symbol) /\ Len(Declared(r)) = IF r.body = <<>> THEN 0 ELSE 5
<1>1. /\ r.method \in Symbol /\ r.path \in Symbol /\ CRLF \in Symbol /\ SP \in Symbol /\ ":" \in Symbol
      /\ "HTTP/1.1" \in Symbol /\ "Host" \in Symbol /\ "h" \in Symbol /\ "Content-Length" \in Symbol
  <2>1. r.method \in Methods /\ r.path \in Word
    BY RequestFields
  <2>2. {"HTTP/1.1", "Host", "h", "Content-Length"} \subseteq Symbol
    BY FixedSolid, Zenon
  <2>3. CRLF \in Symbol /\ SP \in Symbol /\ ":" \in Symbol
    BY FixedSolid, Zenon
  <2>4. r.method \in Symbol /\ r.path \in Symbol
    BY <2>1, MethodSolid, WordSolid, Zenon
  <2> QED
    BY <2>2, <2>3, <2>4, Zenon
<1>2. Digits[Len(r.body) + 1] \in Symbol
  <2>1. Len(r.body) \in 0 .. 9
    BY RequestFields, Zenon
  <2>2. \A n \in 0 .. 9 : n + 1 \in 1 .. 10
    OBVIOUS
  <2> QED
    BY <2>1, <2>2, DigitFacts, Zenon
<1>3. /\ \A a \in Symbol : <<a>> \in Seq(Symbol)
      /\ \A a, b, c \in Symbol : <<a, b, c>> \in Seq(Symbol)
      /\ \A a, b, c, d \in Symbol : <<a, b, c, d>> \in Seq(Symbol)
      /\ \A a, b, c, d, e \in Symbol : <<a, b, c, d, e>> \in Seq(Symbol)
  OBVIOUS
<1>4. \A a, b, c, d, e \in Symbol : Len(<<a, b, c, d, e>>) = 5
  OBVIOUS
<1>5. <<>> \in Seq(Symbol) /\ Len(<<>>) = 0
  OBVIOUS
<1>6. /\ <<r.method, SP, r.path>> \in Seq(Symbol) /\ <<SP, "HTTP/1.1", CRLF>> \in Seq(Symbol)
      /\ <<"Host", ":", "h", CRLF>> \in Seq(Symbol) /\ <<CRLF>> \in Seq(Symbol)
  BY <1>1, <1>3
<1>7. CASE r.body = <<>>
  <2>1. Declared(r) = <<>>
    BY <1>7, Zenon DEF Declared
  <2>2. Declared(r) \in Seq(Symbol) /\ Len(Declared(r)) = 0
    BY <1>5, <2>1
  <2>3. Len(Declared(r)) = IF r.body = <<>> THEN 0 ELSE 5
    BY <1>7, <2>2, Zenon
  <2> QED
    BY <1>6, <2>2, <2>3, Zenon
<1>8. CASE r.body # <<>>
  <2>1. Declared(r) = <<"Content-Length", ":", SP, Digits[Len(r.body) + 1], CRLF>>
    BY <1>8, Zenon DEF Declared
  <2>2. Declared(r) \in Seq(Symbol) /\ Len(Declared(r)) = 5
    BY <1>1, <1>2, <1>3, <1>4, <2>1
  <2>3. Len(Declared(r)) = IF r.body = <<>> THEN 0 ELSE 5
    BY <1>8, <2>2
  <2> QED
    BY <1>6, <2>2, <2>3, Zenon
<1> QED
  BY <1>7, <1>8

\* Where the parts stand.
LEMMA RenderParts ==
  ASSUME NEW r \in Request
  PROVE  /\ Render(r) \in Seq(Symbol) /\ Len(Render(r)) = Size(r)
         /\ Stands(<<r.method, SP, r.path>>, Render(r), 0)
         /\ Stands(RenderParams(r.params), Render(r), 3)
         /\ Stands(<<SP, "HTTP/1.1", CRLF>>, Render(r), Eol(r) - 3)
         /\ Stands(<<"Host", ":", "h", CRLF>>, Render(r), Eol(r))
         /\ Stands(Declared(r), Render(r), Eol(r) + 4)
         /\ Stands(<<CRLF>>, Render(r), Blank(r) - 1)
         /\ Stands(r.body, Render(r), Blank(r))
<1> DEFINE a == <<r.method, SP, r.path>>
           b == RenderParams(r.params)
           c == <<SP, "HTTP/1.1", CRLF>>
           d == <<"Host", ":", "h", CRLF>>
           e == Declared(r)
           f == <<CRLF>>
           g == r.body
           u == 4 * Len(r.params)
           v == IF r.body = <<>> THEN 0 ELSE 5
           ab == a \o b
           ac == ab \o c
           ad == ac \o d
           ae == ad \o e
           af == ae \o f
           ag == af \o g
<1>1. /\ a \in Seq(Symbol) /\ c \in Seq(Symbol) /\ d \in Seq(Symbol) /\ e \in Seq(Symbol)
      /\ f \in Seq(Symbol) /\ Len(e) = v
  BY PartTypes, Zenon
<1>2. g \in Seq(Symbol) /\ r.params \in Seq(Word \X Word) /\ Len(r.params) \in Nat
  BY RequestFields, Zenon
<1>3. b \in Seq(Symbol) /\ Len(b) = u
  BY <1>2, ParamsRendered, Zenon
<1>4. Len(a) = 3 /\ Len(c) = 3 /\ Len(d) = 4 /\ Len(f) = 1
  OBVIOUS
<1>5. u \in Nat /\ v \in Nat /\ Len(g) \in Nat
  BY <1>2
<1>6. Render(r) = ag
  BY Zenon DEF Render, Declared
<1>7. /\ Eol(r) = 6 + u /\ Blank(r) = 6 + u + 4 + v + 1 /\ Size(r) = 6 + u + 4 + v + 1 + Len(g)
  <2>1. Eol(r) = 6 + u
    BY Zenon DEF Eol
  <2>2. Blank(r) = 6 + u + 4 + v + 1
    <3>1. Blank(r) = Eol(r) + IF r.body = <<>> THEN 5 ELSE 10
      BY Zenon DEF Blank
    <3>2. (IF r.body = <<>> THEN 5 ELSE 10) = 5 + v
      <4>1. CASE r.body = <<>>
        <5>1. (IF r.body = <<>> THEN 5 ELSE 10) = 5 /\ v = 0
          BY <4>1, Zenon
        <5> QED
          BY <5>1
      <4>2. CASE r.body # <<>>
        <5>1. (IF r.body = <<>> THEN 5 ELSE 10) = 10 /\ v = 5
          BY <4>2, Zenon
        <5> QED
          BY <5>1
      <4> QED
        BY <4>1, <4>2
    <3> HIDE DEF u, v
    <3> QED
      BY <1>5, <2>1, <3>1, <3>2
  <2> QED
    BY <2>1, <2>2, Zenon DEF Size
<1> HIDE DEF a, b, c, d, e, f, g, u, v
<1>n. \A w \in Seq(Symbol) : Len(w) \in Nat
  OBVIOUS
<1>8. /\ ab \in Seq(Symbol) /\ Len(ab) = Len(a) + Len(b)
      /\ Stands(a, ab, 0) /\ Stands(b, ab, Len(a))
  BY <1>1, <1>3, StandsIn
<1> HIDE DEF ab
<1>9. /\ ac \in Seq(Symbol) /\ Len(ac) = Len(ab) + Len(c) /\ Stands(c, ac, Len(ab))
      /\ \A w \in Seq(Symbol), base \in Nat : Stands(w, ab, base) => Stands(w, ac, base)
  BY <1>1, <1>8, StandsIn
<1> HIDE DEF ac
<1>10. /\ ad \in Seq(Symbol) /\ Len(ad) = Len(ac) + Len(d) /\ Stands(d, ad, Len(ac))
       /\ \A w \in Seq(Symbol), base \in Nat : Stands(w, ac, base) => Stands(w, ad, base)
  BY <1>1, <1>9, StandsIn
<1> HIDE DEF ad
<1>11. /\ ae \in Seq(Symbol) /\ Len(ae) = Len(ad) + Len(e) /\ Stands(e, ae, Len(ad))
       /\ \A w \in Seq(Symbol), base \in Nat : Stands(w, ad, base) => Stands(w, ae, base)
  BY <1>1, <1>10, StandsIn
<1> HIDE DEF ae
<1>12. /\ af \in Seq(Symbol) /\ Len(af) = Len(ae) + Len(f) /\ Stands(f, af, Len(ae))
       /\ \A w \in Seq(Symbol), base \in Nat : Stands(w, ae, base) => Stands(w, af, base)
  BY <1>1, <1>11, StandsIn
<1> HIDE DEF af
<1>13. /\ ag \in Seq(Symbol) /\ Len(ag) = Len(af) + Len(g) /\ Stands(g, ag, Len(af))
       /\ \A w \in Seq(Symbol), base \in Nat : Stands(w, af, base) => Stands(w, ag, base)
  BY <1>2, <1>12, StandsIn
<1> HIDE DEF ag
<1>14. /\ Len(ab) = 3 + u /\ Len(ac) = 6 + u /\ Len(ad) = 6 + u + 4 /\ Len(ae) = 6 + u + 4 + v
       /\ Len(af) = 6 + u + 4 + v + 1 /\ Len(ag) = 6 + u + 4 + v + 1 + Len(g)
  BY <1>1, <1>3, <1>4, <1>5, <1>8, <1>9, <1>10, <1>11, <1>12, <1>13
<1>15. /\ 0 \in Nat /\ 3 \in Nat /\ 3 + u \in Nat /\ 6 + u \in Nat /\ 6 + u + 4 \in Nat
       /\ 6 + u + 4 + v \in Nat
  BY <1>5
<1>16. Stands(a, ag, 0)
  BY <1>1, <1>8, <1>9, <1>10, <1>11, <1>12, <1>13, <1>15, Zenon
<1>17. Stands(b, ag, 3)
  <2>1. Stands(b, ab, 3)
    BY <1>4, <1>8
  <2> QED
    BY <1>3, <2>1, <1>9, <1>10, <1>11, <1>12, <1>13, <1>15, Zenon
<1>18. Stands(c, ag, 3 + u)
  BY <1>1, <1>9, <1>10, <1>11, <1>12, <1>13, <1>14, <1>15, Zenon
<1>19. Stands(d, ag, 6 + u)
  BY <1>1, <1>10, <1>11, <1>12, <1>13, <1>14, <1>15, Zenon
<1>20. Stands(e, ag, 6 + u + 4)
  BY <1>1, <1>11, <1>12, <1>13, <1>14, <1>15, Zenon
<1>21. Stands(f, ag, 6 + u + 4 + v)
  BY <1>1, <1>12, <1>13, <1>14, <1>15, Zenon
<1>22. Stands(g, ag, 6 + u + 4 + v + 1)
  BY <1>13, <1>14, Zenon
<1>23. Eol(r) - 3 = 3 + u /\ Blank(r) - 1 = 6 + u + 4 + v
  BY <1>5, <1>7
<1>24. /\ ag \in Seq(Symbol) /\ Len(ag) = Size(r)
       /\ Stands(a, ag, 0) /\ Stands(b, ag, 3) /\ Stands(c, ag, Eol(r) - 3)
       /\ Stands(d, ag, Eol(r)) /\ Stands(e, ag, Eol(r) + 4)
       /\ Stands(f, ag, Blank(r) - 1) /\ Stands(g, ag, Blank(r))
  BY <1>7, <1>13, <1>14, <1>16, <1>17, <1>18, <1>19, <1>20, <1>21, <1>22, <1>23, Zenon
<1> QED
  BY <1>6, <1>24, Zenon DEF a, b, c, d, e, f, g

\* The positions are numbers.
LEMMA PositionTypes ==
  ASSUME NEW r \in Request
  PROVE  /\ Eol(r) \in Nat /\ Blank(r) \in Nat /\ Size(r) \in Nat /\ Len(r.params) \in Nat
         /\ Len(r.body) \in 0 .. 9 /\ Eol(r) = 6 + 4 * Len(r.params)
         /\ Blank(r) = Eol(r) + (IF r.body = <<>> THEN 5 ELSE 10)
         /\ Size(r) = Blank(r) + Len(r.body)
<1>1. Len(r.params) \in Nat /\ Len(r.body) \in 0 .. 9
  BY RequestFields, Zenon
<1>2. Eol(r) = 6 + 4 * Len(r.params)
  BY Zenon DEF Eol
<1>3. Blank(r) = Eol(r) + (IF r.body = <<>> THEN 5 ELSE 10)
  BY Zenon DEF Blank
<1>4. Size(r) = Blank(r) + Len(r.body)
  BY Zenon DEF Size
<1>5. Eol(r) \in Nat
  BY <1>1, <1>2
<1>6. Blank(r) \in Nat
  <2>1. Blank(r) = Eol(r) + 5 \/ Blank(r) = Eol(r) + 10
    BY <1>3, Zenon
  <2> QED
    BY <1>5, <2>1
<1>7. Size(r) \in Nat
  <2>1. \A m \in Nat, n \in 0 .. 9 : m + n \in Nat
    OBVIOUS
  <2> QED
    BY <1>1, <1>4, <1>6, <2>1, Zenon
<1> QED
  BY <1>1, <1>2, <1>3, <1>4, <1>5, <1>6, <1>7, Zenon

\* A text that agrees with what r is rendered as is spelled like r.
LEMMA Spells ==
  ASSUME NEW r \in Request, NEW t \in Seq(Symbol),
         \A i \in 1 .. Len(t) : i <= Size(r) => t[i] = Render(r)[i]
  PROVE  Spelled(r, t)
<1> DEFINE R == Render(r)
           E == Eol(r)
           B == Blank(r)
           m == Len(r.params)
<1>1. /\ R \in Seq(Symbol) /\ Len(R) = Size(r)
      /\ Stands(<<r.method, SP, r.path>>, R, 0)
      /\ Stands(RenderParams(r.params), R, 3)
      /\ Stands(<<SP, "HTTP/1.1", CRLF>>, R, E - 3)
      /\ Stands(<<"Host", ":", "h", CRLF>>, R, E)
      /\ Stands(Declared(r), R, E + 4)
      /\ Stands(<<CRLF>>, R, B - 1)
      /\ Stands(r.body, R, B)
  BY RenderParts, Zenon
<1>2. /\ E \in Nat /\ B \in Nat /\ Size(r) \in Nat /\ m \in Nat /\ E = 6 + 4 * m
      /\ (B = E + 5 \/ B = E + 10)
  BY PositionTypes
<1>3. /\ <<r.method, SP, r.path>> \in Seq(Symbol) /\ <<SP, "HTTP/1.1", CRLF>> \in Seq(Symbol)
      /\ <<"Host", ":", "h", CRLF>> \in Seq(Symbol) /\ <<CRLF>> \in Seq(Symbol)
      /\ Declared(r) \in Seq(Symbol) /\ Len(Declared(r)) = IF r.body = <<>> THEN 0 ELSE 5
  BY PartTypes, Zenon
<1>4. r.body \in Seq(Symbol) /\ r.params \in Seq(Word \X Word)
  BY RequestFields, Zenon
<1>5. /\ RenderParams(r.params) \in Seq(Symbol) /\ Len(RenderParams(r.params)) = 4 * m
      /\ ParamsAt(r.params, RenderParams(r.params), 0)
  BY <1>4, ParamsRendered, Zenon
<1> HIDE DEF R, E, B, m
<1>6. ASSUME NEW w \in Seq(Symbol), NEW base \in Nat, NEW n, n = Len(w), NEW i \in 1 .. n, Stands(w, R, base)
      PROVE  Reads(t, base + i, w[i])
  <2>1. n \in Nat
    BY <1>6
  <2>2. base + n <= Size(r) /\ R[base + i] = w[i]
    BY <1>1, <1>6, Zenon DEF Stands
  <2>3. base + i <= Size(r)
    BY <1>2, <2>1, <2>2
  <2> QED
    BY <2>2, <2>3, Zenon DEF Reads, R
<1>7. Reads(t, 1, r.method) /\ Reads(t, 2, SP) /\ Reads(t, 3, r.path)
  <2> DEFINE w == <<r.method, SP, r.path>>
  <2>1. Len(w) = 3 /\ w[1] = r.method /\ w[2] = SP /\ w[3] = r.path
    OBVIOUS
  <2> HIDE DEF w
  <2>2. Reads(t, 0 + 1, w[1]) /\ Reads(t, 0 + 2, w[2]) /\ Reads(t, 0 + 3, w[3])
    <3>1. 0 \in Nat /\ 1 \in 1 .. 3 /\ 2 \in 1 .. 3 /\ 3 \in 1 .. 3
      OBVIOUS
    <3> QED
      BY <1>1, <1>3, <1>6, <2>1, <3>1, Zenon DEF w
  <2>3. 0 + 1 = 1 /\ 0 + 2 = 2 /\ 0 + 3 = 3
    OBVIOUS
  <2> QED
    BY <2>1, <2>2, <2>3
<1>8. Reads(t, E - 2, SP) /\ Reads(t, E - 1, "HTTP/1.1") /\ Reads(t, E, CRLF)
  <2> DEFINE w == <<SP, "HTTP/1.1", CRLF>>
             base == E - 3
  <2>1. Len(w) = 3 /\ w[1] = SP /\ w[2] = "HTTP/1.1" /\ w[3] = CRLF
    OBVIOUS
  <2>2. base \in Nat /\ base + 1 = E - 2 /\ base + 2 = E - 1 /\ base + 3 = E
    BY <1>2
  <2> HIDE DEF w, base
  <2>3. Reads(t, base + 1, w[1]) /\ Reads(t, base + 2, w[2]) /\ Reads(t, base + 3, w[3])
    <3>1. 1 \in 1 .. 3 /\ 2 \in 1 .. 3 /\ 3 \in 1 .. 3
      OBVIOUS
    <3> QED
      BY <1>1, <1>3, <1>6, <2>1, <2>2, <3>1, Zenon DEF w, base
  <2> QED
    BY <2>1, <2>2, <2>3
<1>9. /\ Reads(t, E + 1, "Host") /\ Reads(t, E + 2, ":") /\ Reads(t, E + 3, "h")
      /\ Reads(t, E + 4, CRLF)
  <2> DEFINE w == <<"Host", ":", "h", CRLF>>
  <2>1. Len(w) = 4 /\ w[1] = "Host" /\ w[2] = ":" /\ w[3] = "h" /\ w[4] = CRLF
    OBVIOUS
  <2> HIDE DEF w
  <2>2. /\ Reads(t, E + 1, w[1]) /\ Reads(t, E + 2, w[2]) /\ Reads(t, E + 3, w[3])
        /\ Reads(t, E + 4, w[4])
    <3>1. 1 \in 1 .. 4 /\ 2 \in 1 .. 4 /\ 3 \in 1 .. 4 /\ 4 \in 1 .. 4
      OBVIOUS
    <3> QED
      BY <1>1, <1>2, <1>3, <1>6, <2>1, <3>1, Zenon DEF w
  <2> QED
    BY <2>1, <2>2
<1>10. ASSUME r.body # <<>>
       PROVE  /\ Reads(t, E + 5, "Content-Length") /\ Reads(t, E + 6, ":") /\ Reads(t, E + 7, SP)
              /\ Reads(t, E + 8, Digits[Len(r.body) + 1]) /\ Reads(t, E + 9, CRLF)
  <2> DEFINE w == <<"Content-Length", ":", SP, Digits[Len(r.body) + 1], CRLF>>
             base == E + 4
  <2>1. /\ Len(w) = 5 /\ w[1] = "Content-Length" /\ w[2] = ":" /\ w[3] = SP
        /\ w[4] = Digits[Len(r.body) + 1] /\ w[5] = CRLF
    OBVIOUS
  <2>2. /\ base \in Nat /\ base + 1 = E + 5 /\ base + 2 = E + 6 /\ base + 3 = E + 7
        /\ base + 4 = E + 8 /\ base + 5 = E + 9
    BY <1>2
  <2>3. Declared(r) = w
    BY <1>10, Zenon DEF Declared
  <2> HIDE DEF w, base
  <2>4. /\ Reads(t, base + 1, w[1]) /\ Reads(t, base + 2, w[2]) /\ Reads(t, base + 3, w[3])
        /\ Reads(t, base + 4, w[4]) /\ Reads(t, base + 5, w[5])
    <3>1. 1 \in 1 .. 5 /\ 2 \in 1 .. 5 /\ 3 \in 1 .. 5 /\ 4 \in 1 .. 5 /\ 5 \in 1 .. 5
      OBVIOUS
    <3>2. w \in Seq(Symbol) /\ Stands(w, R, base)
      BY <1>1, <1>3, <2>3, Zenon DEF base
    <3> QED
      BY <1>6, <2>1, <2>2, <3>1, <3>2, Zenon
  <2> QED
    BY <2>1, <2>2, <2>4
<1>11. Reads(t, B, CRLF)
  <2>1. B - 1 \in Nat /\ (B - 1) + 1 = B
    BY <1>2
  <2>2. Len(<<CRLF>>) = 1 /\ <<CRLF>>[1] = CRLF /\ 1 \in 1 .. 1
    OBVIOUS
  <2>3. Reads(t, (B - 1) + 1, <<CRLF>>[1])
    BY <1>1, <1>3, <1>6, <2>1, <2>2, Zenon
  <2> QED
    BY <2>1, <2>2, <2>3
<1>12. \A j \in 1 .. Len(r.body) : Reads(t, B + j, r.body[j])
  BY <1>1, <1>2, <1>4, <1>6, Zenon
<1>13. ParamsAt(r.params, t, 3)
  <2> DEFINE q == RenderParams(r.params)
  <2>1. q \in Seq(Symbol) /\ Len(q) = 4 * m /\ ParamsAt(r.params, q, 0) /\ Stands(q, R, 3)
    BY <1>1, <1>5, Zenon
  <2> HIDE DEF q
  <2> SUFFICES ASSUME NEW k \in 1 .. m
               PROVE  /\ Reads(t, 3 + 4 * k - 3, Mark(k)) /\ Reads(t, 3 + 4 * k - 2, r.params[k][1])
                      /\ Reads(t, 3 + 4 * k - 1, "=") /\ Reads(t, 3 + 4 * k, r.params[k][2])
    BY Zenon DEF ParamsAt, m
  <2>2. /\ 0 + 4 * k - 3 \in 1 .. Len(q) /\ 0 + 4 * k - 2 \in 1 .. Len(q)
        /\ 0 + 4 * k - 1 \in 1 .. Len(q) /\ 0 + 4 * k \in 1 .. Len(q)
        /\ 3 + (0 + 4 * k - 3) = 3 + 4 * k - 3 /\ 3 + (0 + 4 * k - 2) = 3 + 4 * k - 2
        /\ 3 + (0 + 4 * k - 1) = 3 + 4 * k - 1 /\ 3 + (0 + 4 * k) = 3 + 4 * k
    BY <1>2, <2>1
  <2>3. /\ q[0 + 4 * k - 3] = Mark(k) /\ q[0 + 4 * k - 2] = r.params[k][1]
        /\ q[0 + 4 * k - 1] = "=" /\ q[0 + 4 * k] = r.params[k][2]
    BY <2>1, <2>2, Zenon DEF ParamsAt, Reads, m
  <2>4. ASSUME NEW i \in 1 .. Len(q) PROVE Reads(t, 3 + i, q[i])
    <3>1. 3 \in Nat
      OBVIOUS
    <3> QED
      BY <1>6, <2>1, <3>1, Zenon
  <2>5. /\ Reads(t, 3 + (0 + 4 * k - 3), Mark(k)) /\ Reads(t, 3 + (0 + 4 * k - 2), r.params[k][1])
        /\ Reads(t, 3 + (0 + 4 * k - 1), "=") /\ Reads(t, 3 + (0 + 4 * k), r.params[k][2])
    BY <2>2, <2>3, <2>4, Zenon
  <2> QED
    BY <2>2, <2>5
<1> QED
  BY <1>7, <1>8, <1>9, <1>10, <1>11, <1>12, <1>13, Zenon DEF Spelled, E, B

-----------------------------------------------------------------------------
(* The request line.                                                        *)

\* The least and the greatest number of a set.
LEMMA MinIs ==
  ASSUME NEW S, S \subseteq Nat, NEW m \in S, \A y \in S : m <= y
  PROVE  Min(S) = m
<1>1. ASSUME NEW x \in S, \A y \in S : x <= y PROVE x = m
  <2>1. x <= m /\ m <= x /\ x \in Nat /\ m \in Nat
    BY <1>1
  <2> QED
    BY <2>1
<1> QED
  BY <1>1, Zenon DEF Min

\* This is how the greatest is found.
LEMMA MaxIs ==
  ASSUME NEW S, S \subseteq Nat, NEW m \in S, \A y \in S : m >= y
  PROVE  Max(S) = m
<1>1. ASSUME NEW x \in S, \A y \in S : x >= y PROVE x = m
  <2>1. x >= m /\ m >= x /\ x \in Nat /\ m \in Nat
    BY <1>1
  <2> QED
    BY <2>1
<1> QED
  BY <1>1, Zenon DEF Max

\* Find returns the first position.
LEMMA FindIs ==
  ASSUME NEW t, Len(t) \in Nat, NEW x, NEW from \in Nat, NEW p \in from .. Len(t), t[p] = x,
         \A i \in from .. p - 1 : t[i] # x
  PROVE  Find(t, x, from) = p
<1> DEFINE hits == {i \in from .. Len(t) : t[i] = x}
<1>1. p \in hits /\ hits # {} /\ hits \subseteq Nat
  OBVIOUS
<1>2. \A i \in hits : p <= i
  <2> SUFFICES ASSUME NEW i \in from .. Len(t), t[i] = x, ~(p <= i) PROVE FALSE
    OBVIOUS
  <2>1. i \in from .. p - 1
    OBVIOUS
  <2> QED
    BY <2>1
<1> HIDE DEF hits
<1>3. Min(hits) = p
  BY <1>1, <1>2, MinIs
<1> QED
  BY <1>1, <1>3, Zenon DEF Find, hits

\* Or 0 if there is none.
LEMMA FindNone ==
  ASSUME NEW t, NEW x, NEW from, \A i \in from .. Len(t) : t[i] # x
  PROVE  Find(t, x, from) = 0
<1>1. {i \in from .. Len(t) : t[i] = x} = {}
  BY Zenon
<1> QED
  BY <1>1, Zenon DEF Find

\* A part of a text.
LEMMA Cut ==
  ASSUME NEW S, NEW t \in Seq(S), NEW a \in Nat \ {0}, NEW b \in Nat, a <= b + 1, b <= Len(t)
  PROVE  /\ SubSeq(t, a, b) \in Seq(S) /\ Len(SubSeq(t, a, b)) = b + 1 - a
         /\ \A i \in 1 .. b + 1 - a : SubSeq(t, a, b)[i] = t[a + i - 1]
OBVIOUS

\* A part of one symbol.
LEMMA CutOne ==
  ASSUME NEW S, NEW t \in Seq(S), NEW i \in 1 .. Len(t)
  PROVE  SubSeq(t, i, i) = <<t[i]>>
<1> DEFINE v == SubSeq(t, i, i)
           w == <<t[i]>>
<1>1. i \in Nat \ {0} /\ i \in Nat /\ i <= i + 1 /\ i <= Len(t) /\ i + 1 - i = 1 /\ i + 1 - 1 = i
      /\ t[i] \in S
  OBVIOUS
<1>2. v \in Seq(S) /\ Len(v) = i + 1 - i /\ \A j \in 1 .. i + 1 - i : v[j] = t[i + j - 1]
  BY <1>1, Cut
<1>3. w \in Seq(S) /\ Len(w) = 1 /\ w[1] = t[i]
  BY <1>1
<1> HIDE DEF v, w
<1>4. Len(v) = 1 /\ v[1] = t[i]
  BY <1>1, <1>2
<1>5. \A j \in 1 .. Len(v) : v[j] = w[j]
  BY <1>3, <1>4
<1>6. v = w
  BY <1>2, <1>3, <1>4, <1>5, SameElements
<1> QED
  BY <1>6 DEF v, w

\* A part of two symbols.
LEMMA CutTwo ==
  ASSUME NEW S, NEW t \in Seq(S), NEW i \in 1 .. Len(t), i + 1 <= Len(t)
  PROVE  SubSeq(t, i, i + 1) = <<t[i], t[i + 1]>>
<1> DEFINE n == i + 1
           v == SubSeq(t, i, n)
           w == <<t[i], t[n]>>
<1>1. /\ i \in Nat \ {0} /\ n \in Nat /\ i <= n + 1 /\ n <= Len(t) /\ n + 1 - i = 2
      /\ i + 1 - 1 = i /\ i + 2 - 1 = n /\ t[i] \in S /\ t[n] \in S
  OBVIOUS
<1> HIDE DEF n
<1>2. v \in Seq(S) /\ Len(v) = n + 1 - i /\ \A j \in 1 .. n + 1 - i : v[j] = t[i + j - 1]
  BY <1>1, Cut
<1>3. w \in Seq(S) /\ Len(w) = 2 /\ w[1] = t[i] /\ w[2] = t[n]
  BY <1>1
<1> HIDE DEF v, w
<1>4. Len(v) = 2 /\ v[1] = t[i] /\ v[2] = t[n]
  BY <1>1, <1>2
<1>5. \A j \in 1 .. Len(v) : v[j] = w[j]
  BY <1>3, <1>4
<1>6. v = w
  BY <1>2, <1>3, <1>4, <1>5, SameElements
<1> QED
  BY <1>6 DEF v, w, n

\* Every position among the parameters belongs to one of them.
LEMMA Quarter ==
  ASSUME NEW m \in Nat, NEW i \in 1 .. 4 * m
  PROVE  \E k \in 1 .. m : i \in {4 * k - 3, 4 * k - 2, 4 * k - 1, 4 * k}
<1> DEFINE T == {n \in Nat : \E k \in Nat : n \in {4 * k, 4 * k + 1, 4 * k + 2, 4 * k + 3}}
<1>1. 0 \in T
  <2>1. 0 \in {4 * 0, 4 * 0 + 1, 4 * 0 + 2, 4 * 0 + 3} /\ 0 \in Nat
    OBVIOUS
  <2> QED
    BY <2>1
<1>2. ASSUME NEW n \in Nat, n \in T PROVE n + 1 \in T
  <2>1. PICK k \in Nat : n \in {4 * k, 4 * k + 1, 4 * k + 2, 4 * k + 3}
    BY <1>2
  <2>2. \/ n + 1 \in {4 * k, 4 * k + 1, 4 * k + 2, 4 * k + 3}
        \/ n + 1 \in {4 * (k + 1), 4 * (k + 1) + 1, 4 * (k + 1) + 2, 4 * (k + 1) + 3}
    BY <2>1
  <2>3. k + 1 \in Nat /\ n + 1 \in Nat
    OBVIOUS
  <2> QED
    BY <2>2, <2>3, Zenon
<1> HIDE DEF T
<1>3. Nat \subseteq T
  BY <1>1, <1>2, SetInduction
<1>4. i - 1 \in T
  BY <1>3
<1>5. PICK k \in Nat : i - 1 \in {4 * k, 4 * k + 1, 4 * k + 2, 4 * k + 3}
  BY <1>4 DEF T
<1>6. /\ k + 1 \in 1 .. m
      /\ i \in {4 * (k + 1) - 3, 4 * (k + 1) - 2, 4 * (k + 1) - 1, 4 * (k + 1)}
  BY <1>5
<1> QED
  BY <1>6

\* A text that starts as r is spelled.
Text(r, t) == r \in Request /\ t \in Seq(Symbol) /\ Spelled(r, t)

\* What is used of the positions most.
LEMMA TextPositions ==
  ASSUME NEW r, NEW t, Text(r, t)
  PROVE  /\ Eol(r) \in Nat /\ Eol(r) >= 6 /\ Eol(r) = 6 + 4 * Len(r.params)
         /\ Len(r.params) \in Nat /\ Len(t) \in Nat
<1>1. r \in Request /\ t \in Seq(Symbol)
  BY Zenon DEF Text
<1>2. Len(r.params) \in Nat /\ Eol(r) = 6 + 4 * Len(r.params)
  BY <1>1, PositionTypes, Zenon
<1>3. \A m \in Nat : 6 + 4 * m \in Nat /\ 6 + 4 * m >= 6
  OBVIOUS
<1>4. Len(t) \in Nat
  BY <1>1
<1> QED
  BY <1>2, <1>3, <1>4, Zenon

\* The URL has no space in it, and no line ends in it.
LEMMA UrlSymbols ==
  ASSUME NEW r, NEW t, Text(r, t), NEW i \in 3 .. Eol(r) - 3, i <= Len(t)
  PROVE  t[i] # SP /\ t[i] # CRLF
<1> DEFINE m == Len(r.params)
           n == Len(t)
<1>1. r \in Request /\ t \in Seq(Symbol) /\ Spelled(r, t)
  BY DEF Text
<1>2. m \in Nat /\ Eol(r) = 6 + 4 * m /\ n \in Nat
  BY TextPositions, Zenon
<1>3. /\ r.path \in Word /\ \A k \in 1 .. m : r.params[k][1] \in Word /\ r.params[k][2] \in Word
  BY <1>1, RequestFields, Zenon
<1>4. \A w \in Word : w # SP /\ w # CRLF
  BY WordSolid, Zenon DEF Separators
<1>5. Reads(t, 3, r.path) /\ ParamsAt(r.params, t, 3)
  BY <1>1, Zenon DEF Spelled
<1> HIDE DEF m, n
<1>6. i \in Nat /\ i \in 1 .. n
  BY <1>2 DEF n
<1>7. CASE i = 3
  <2>1. t[i] = r.path
    BY <1>5, <1>6, <1>7, Zenon DEF Reads, n
  <2> QED
    BY <1>3, <1>4, <2>1, Zenon
<1>8. CASE i # 3
  <2>1. i - 3 \in 1 .. 4 * m
    BY <1>2, <1>6, <1>8
  <2>2. PICK k \in 1 .. m : i - 3 \in {4 * k - 3, 4 * k - 2, 4 * k - 1, 4 * k}
    BY <1>2, <2>1, Quarter
  <2>3. i = 3 + 4 * k - 3 \/ i = 3 + 4 * k - 2 \/ i = 3 + 4 * k - 1 \/ i = 3 + 4 * k
    BY <1>6, <2>2
  <2>4. t[i] \in {Mark(k), r.params[k][1], "=", r.params[k][2]}
    BY <1>5, <1>6, <2>3, Zenon DEF ParamsAt, Reads, m, n
  <2>5. Mark(k) # SP /\ Mark(k) # CRLF
    BY Separate, Zenon DEF Mark
  <2> QED
    BY <1>3, <1>4, <2>4, <2>5, Separate, Zenon
<1> QED
  BY <1>7, <1>8

\* The request line is one line.
LEMMA LineSymbols ==
  ASSUME NEW r, NEW t, Text(r, t), NEW i \in 1 .. Eol(r) - 1, i <= Len(t)
  PROVE  t[i] # CRLF
<1>1. r \in Request /\ t \in Seq(Symbol) /\ Spelled(r, t)
  BY DEF Text
<1>2. Eol(r) \in Nat /\ Eol(r) >= 6 /\ Len(t) \in Nat
  BY TextPositions, Zenon
<1>3. i \in 1 .. Len(t)
  BY <1>2
<1>4. /\ Reads(t, 1, r.method) /\ Reads(t, 2, SP) /\ Reads(t, Eol(r) - 2, SP)
      /\ Reads(t, Eol(r) - 1, "HTTP/1.1")
  BY <1>1, Zenon DEF Spelled
<1>5. r.method # CRLF /\ SP # CRLF /\ "HTTP/1.1" # CRLF
  BY <1>1, RequestFields, MethodSolid, FixedSolid, Separate, Zenon DEF Separators
<1>6. i = 1 \/ i = 2 \/ i \in 3 .. Eol(r) - 3 \/ i = Eol(r) - 2 \/ i = Eol(r) - 1
  BY <1>2
<1> QED
  BY <1>3, <1>4, <1>5, <1>6, UrlSymbols, Zenon DEF Reads

\* A request line that has not arrived in full is refused.
LEMMA RequestLineCut ==
  ASSUME NEW r, NEW t, Text(r, t), Len(t) < Eol(r)
  PROVE  ~ParseRequestLine(t).ok
<1>1. r \in Request /\ t \in Seq(Symbol)
  BY DEF Text
<1>2. Eol(r) \in Nat /\ Len(t) \in Nat
  BY TextPositions, Zenon
<1>3. \A i \in 1 .. Len(t) : i \in 1 .. Eol(r) - 1 /\ i <= Len(t)
  BY <1>2
<1>4. \A i \in 1 .. Len(t) : t[i] # CRLF
  BY <1>3, LineSymbols, Zenon
<1>5. Find(t, CRLF, 1) = 0
  BY <1>4, FindNone, Zenon
<1>6. ParseRequestLine(t) = Err
  BY <1>5, Zenon DEF ParseRequestLine
<1> QED
  BY <1>6 DEF Err

\* The URL of a request.
Url(r, t) == SubSeq(t, 3, Eol(r) - 3)

\* A request line that has arrived is read as it was written.
LEMMA RequestLineParsed ==
  ASSUME NEW r, NEW t, Text(r, t), Eol(r) <= Len(t)
  PROVE  /\ ParseRequestLine(t).ok
         /\ ParseRequestLine(t).method = r.method /\ ParseRequestLine(t).url = Url(r, t)
         /\ ParseRequestLine(t).next = Eol(r) + 1
<1> DEFINE E == Eol(r)
           line == SubSeq(t, 1, E - 1)
<1>1. r \in Request /\ t \in Seq(Symbol) /\ Spelled(r, t)
  BY DEF Text
<1>2. E \in Nat /\ E >= 6 /\ Len(t) \in Nat /\ E <= Len(t)
  BY TextPositions, Zenon
<1>3. /\ Reads(t, 1, r.method) /\ Reads(t, 2, SP) /\ Reads(t, 3, r.path)
      /\ Reads(t, E - 2, SP) /\ Reads(t, E - 1, "HTTP/1.1") /\ Reads(t, E, CRLF)
  BY <1>1, Zenon DEF Spelled
<1>4. r.method # SP /\ r.method \in Methods
  BY <1>1, RequestFields, MethodSolid, Zenon DEF Separators
<1>5. \A i \in 3 .. E - 3 : t[i] # SP
  <2>1. \A i \in 3 .. E - 3 : i <= Len(t)
    BY <1>2
  <2> QED
    BY <2>1, UrlSymbols, Zenon
<1>6. \A i \in 1 .. E - 1 : t[i] # CRLF
  <2>1. \A i \in 1 .. E - 1 : i <= Len(t)
    BY <1>2
  <2> QED
    BY <2>1, LineSymbols, Zenon
<1> HIDE DEF E
<1>7. t[1] = r.method /\ t[2] = SP /\ t[3] = r.path /\ t[E - 2] = SP /\ t[E] = CRLF
  <2>1. /\ 1 \in 1 .. Len(t) /\ 2 \in 1 .. Len(t) /\ 3 \in 1 .. Len(t) /\ E - 2 \in 1 .. Len(t)
        /\ E \in 1 .. Len(t)
    BY <1>2
  <2> QED
    BY <1>3, <2>1, Zenon DEF Reads
<1>8. Find(t, CRLF, 1) = E
  <2>1. 1 \in Nat /\ E \in 1 .. Len(t)
    BY <1>2
  <2> QED
    BY <1>2, <1>6, <1>7, <2>1, FindIs
<1>9. /\ line \in Seq(Symbol) /\ Len(line) = E - 1 /\ Len(line) \in Nat
      /\ \A i \in 1 .. E - 1 : line[i] = t[i]
  <2>1. E - 1 \in Nat /\ 1 \in Nat \ {0} /\ 1 <= (E - 1) + 1 /\ E - 1 <= Len(t) /\ (E - 1) + 1 - 1 = E - 1
        /\ \A i \in 1 .. E - 1 : 1 + i - 1 = i
    BY <1>2
  <2>2. /\ line \in Seq(Symbol) /\ Len(line) = (E - 1) + 1 - 1
        /\ \A i \in 1 .. (E - 1) + 1 - 1 : line[i] = t[1 + i - 1]
    BY <1>1, <2>1, Cut
  <2> HIDE DEF line
  <2> QED
    BY <2>1, <2>2
<1> HIDE DEF line
<1>10. Find(line, SP, 1) = 2
  <2>1. 1 \in Nat /\ 2 \in 1 .. Len(line) /\ 1 \in 1 .. E - 1 /\ 2 \in 1 .. E - 1
    BY <1>2, <1>9
  <2>2. line[2] = SP /\ line[1] # SP
    BY <1>4, <1>7, <1>9, <2>1, Zenon
  <2>3. \A i \in 1 .. 2 - 1 : line[i] # SP
    BY <2>2
  <2> QED
    BY <1>9, <2>1, <2>2, <2>3, FindIs
<1>11. Find(line, SP, 3) = E - 2
  <2>1. 3 \in Nat /\ E - 2 \in 3 .. Len(line) /\ E - 2 \in 1 .. E - 1
        /\ \A i \in 3 .. (E - 2) - 1 : i \in 3 .. E - 3 /\ i \in 1 .. E - 1
    BY <1>2, <1>9
  <2>2. line[E - 2] = SP /\ \A i \in 3 .. (E - 2) - 1 : line[i] # SP
    BY <1>5, <1>7, <1>9, <2>1, Zenon
  <2> QED
    BY <1>9, <2>1, <2>2, FindIs
<1>12. SubSeq(line, 1, 1) = <<r.method>>
  <2>1. 1 \in 1 .. E - 1 /\ 1 <= Len(line)
    BY <1>2, <1>9
  <2>2. line[1] = r.method
    BY <1>7, <1>9, <2>1
  <2> QED
    BY <1>9, <2>1, <2>2, CutOne
<1>13. SubSeq(line, 3, E - 3) = Url(r, t)
  <2> DEFINE v == SubSeq(line, 3, E - 3)
             w == SubSeq(t, 3, E - 3)
  <2>1. 3 \in Nat \ {0} /\ E - 3 \in Nat /\ 3 <= (E - 3) + 1 /\ E - 3 <= Len(line) /\ E - 3 <= Len(t)
        /\ \A i \in 1 .. (E - 3) + 1 - 3 : 3 + i - 1 \in 1 .. E - 1
    BY <1>2, <1>9
  <2>2. /\ v \in Seq(Symbol) /\ Len(v) = (E - 3) + 1 - 3
        /\ \A i \in 1 .. (E - 3) + 1 - 3 : v[i] = line[3 + i - 1]
    BY <1>9, <2>1, Cut
  <2>3. /\ w \in Seq(Symbol) /\ Len(w) = (E - 3) + 1 - 3
        /\ \A i \in 1 .. (E - 3) + 1 - 3 : w[i] = t[3 + i - 1]
    BY <1>1, <2>1, Cut
  <2> HIDE DEF v, w
  <2>4. \A i \in 1 .. Len(v) : v[i] = w[i]
    BY <1>9, <2>1, <2>2, <2>3, Zenon
  <2>5. v = w
    BY <2>2, <2>3, <2>4, SameElements
  <2> QED
    BY <2>5, Zenon DEF v, w, Url, E
<1>14. /\ 0 \notin {E, 2, E - 2} /\ 2 + 1 = 3 /\ 2 - 1 = 1 /\ (E - 2) - 1 = E - 3
  BY <1>2
<1>15. ParseRequestLine(t) =
         [ok      |-> TRUE,
          method  |-> r.method,
          url     |-> Url(r, t),
          version |-> SubSeq(line, (E - 2) + 1, Len(line)),
          next    |-> E + 1]
  <2>1. \E m \in Methods : <<r.method>> = <<m>>
    BY <1>4, Zenon
  <2>2. Head(<<r.method>>) = r.method
    OBVIOUS
  <2> DEFINE lin == SubSeq(t, 1, Find(t, CRLF, 1) - 1)
             fst == Find(lin, SP, 1)
             snd == Find(lin, SP, fst + 1)
             word == SubSeq(lin, 1, fst - 1)
  <2>3. lin = line
    BY <1>8, Zenon DEF line
  <2>4. fst = 2
    BY <1>10, <2>3, Zenon
  <2>5. snd = E - 2 /\ word = <<r.method>>
    BY <1>11, <1>12, <1>14, <2>3, <2>4, Zenon
  <2>6. ParseRequestLine(t) =
          IF 0 \in {Find(t, CRLF, 1), fst, snd} THEN Err
          ELSE [ok      |-> TRUE,
                method  |-> IF \E m \in Methods : word = <<m>> THEN Head(word) ELSE "UNKNOWN",
                url     |-> SubSeq(lin, fst + 1, snd - 1),
                version |-> SubSeq(lin, snd + 1, Len(lin)),
                next    |-> Find(t, CRLF, 1) + 1]
    BY Zenon DEF ParseRequestLine
  <2> HIDE DEF lin, fst, snd, word
  <2>7. (IF \E m \in Methods : word = <<m>> THEN Head(word) ELSE "UNKNOWN") = r.method
    BY <2>1, <2>2, <2>5, Zenon
  <2>8. SubSeq(lin, fst + 1, snd - 1) = Url(r, t)
    BY <1>13, <1>14, <2>3, <2>4, <2>5
  <2> QED
    BY <1>8, <1>14, <2>3, <2>4, <2>5, <2>6, <2>7, <2>8, Zenon
<1> QED
  BY <1>15 DEF E

-----------------------------------------------------------------------------
(* The headers.                                                             *)

\* The symbols of the headers of r, in a text that has them.
LEMMA HeaderSymbols ==
  ASSUME NEW r, NEW t, Text(r, t), NEW i \in Eol(r) + 1 .. Blank(r), i <= Len(t)
  PROVE  /\ i \in 1 .. Len(t)
         /\ i = Eol(r) + 1 => t[i] = "Host"
         /\ i = Eol(r) + 2 => t[i] = ":"
         /\ i = Eol(r) + 3 => t[i] = "h"
         /\ i = Eol(r) + 4 => t[i] = CRLF
         /\ r.body # <<>> =>
              /\ i = Eol(r) + 5 => t[i] = "Content-Length"
              /\ i = Eol(r) + 6 => t[i] = ":"
              /\ i = Eol(r) + 7 => t[i] = SP
              /\ i = Eol(r) + 8 => t[i] = Digits[Len(r.body) + 1]
              /\ i = Eol(r) + 9 => t[i] = CRLF
         /\ i = Blank(r) => t[i] = CRLF
<1>1. Eol(r) \in Nat /\ Len(t) \in Nat
  BY TextPositions, Zenon
<1>2. Blank(r) \in Nat
  BY PositionTypes, Zenon DEF Text
<1>3. i \in 1 .. Len(t)
  BY <1>1, <1>2
<1> QED
  BY <1>3, Zenon DEF Text, Spelled, Reads

\* Where the headers end, and where the digit of a body is.
LEMMA HeaderPositions ==
  ASSUME NEW r, NEW t, Text(r, t)
  PROVE  /\ Blank(r) \in Nat
         /\ r.body = <<>> => Blank(r) = Eol(r) + 5
         /\ r.body # <<>> => Blank(r) = Eol(r) + 10
         /\ Len(r.body) \in 0 .. 9 /\ Len(r.body) + 1 \in 1 .. 10
         /\ Digits[Len(r.body) + 1] \notin Separators
<1>1. /\ Blank(r) \in Nat /\ Blank(r) = Eol(r) + (IF r.body = <<>> THEN 5 ELSE 10)
      /\ Len(r.body) \in 0 .. 9
  BY PositionTypes, Zenon DEF Text
<1>2. \A n \in 0 .. 9 : n + 1 \in 1 .. 10
  OBVIOUS
<1> QED
  BY <1>1, <1>2, DigitFacts, Zenon

\* Where the lines of the headers begin.
LineBegins(t, from, i) == i = from \/ t[i - 1] = CRLF
Blanks(t, from) == {i \in from .. Len(t) : t[i] = CRLF /\ LineBegins(t, from, i)}

\* There is no empty line before the one that ends the headers.
LEMMA NoEarlierBlank ==
  ASSUME NEW r, NEW t, Text(r, t), NEW i \in Eol(r) + 1 .. Blank(r) - 1, i <= Len(t)
  PROVE  ~(t[i] = CRLF /\ LineBegins(t, Eol(r) + 1, i))
<1> DEFINE E == Eol(r)
           B == Blank(r)
<1>1. E \in Nat /\ Len(t) \in Nat
  BY TextPositions, Zenon
<1>2. B \in Nat /\ (r.body = <<>> => B = E + 5) /\ (r.body # <<>> => B = E + 10)
  BY HeaderPositions, Zenon
<1>3. /\ "Host" # CRLF /\ ":" # CRLF /\ "h" # CRLF /\ "Content-Length" # CRLF /\ SP # CRLF
      /\ Digits[Len(r.body) + 1] # CRLF
  BY HeaderPositions, FixedSolid, Separate, Zenon DEF Separators
<1>4. ASSUME NEW j \in E + 1 .. B, j <= Len(t)
      PROVE  /\ j = E + 1 => t[j] = "Host"
             /\ j = E + 2 => t[j] = ":"
             /\ j = E + 3 => t[j] = "h"
             /\ r.body # <<>> =>
                  /\ j = E + 5 => t[j] = "Content-Length"
                  /\ j = E + 6 => t[j] = ":"
                  /\ j = E + 7 => t[j] = SP
                  /\ j = E + 8 => t[j] = Digits[Len(r.body) + 1]
  BY <1>4, HeaderSymbols
<1> HIDE DEF E, B
<1> SUFFICES ASSUME t[i] = CRLF, LineBegins(t, E + 1, i) PROVE FALSE
  BY Zenon DEF E
<1>5. i \in E + 1 .. B /\ i \in Nat /\ i < B
  BY <1>1, <1>2 DEF E, B
<1>6. i - 1 \in E + 1 .. B \/ i = E + 1
  BY <1>1, <1>2, <1>5
<1>7. i # E + 1
  BY <1>3, <1>4, <1>5, Zenon
<1>8. t[i - 1] = CRLF /\ i - 1 \in E + 1 .. B /\ i - 1 <= Len(t)
  <2>1. i - 1 <= Len(t)
    BY <1>1, <1>5
  <2> QED
    BY <1>6, <1>7, <2>1, Zenon DEF LineBegins
<1>9. CASE r.body = <<>>
  <2>1. i = E + 1 \/ i = E + 2 \/ i = E + 3 \/ (i = E + 4 /\ i - 1 = E + 3)
    BY <1>1, <1>2, <1>5, <1>9
  <2> QED
    BY <1>3, <1>4, <1>5, <1>8, <2>1, Zenon
<1>10. CASE r.body # <<>>
  <2>1. \/ i = E + 1 \/ i = E + 2 \/ i = E + 3 \/ (i = E + 4 /\ i - 1 = E + 3)
        \/ i = E + 5 \/ i = E + 6 \/ i = E + 7 \/ i = E + 8 \/ (i = E + 9 /\ i - 1 = E + 8)
    BY <1>1, <1>2, <1>5, <1>10
  <2> QED
    BY <1>3, <1>4, <1>5, <1>8, <1>10, <2>1, Zenon
<1> QED
  BY <1>9, <1>10

\* Headers that have not arrived in full are refused.
LEMMA HeadersCut ==
  ASSUME NEW r, NEW t, Text(r, t), Len(t) < Blank(r)
  PROVE  ~ParseHeaders(t, Eol(r) + 1).ok
<1>1. Eol(r) \in Nat /\ Len(t) \in Nat /\ Blank(r) \in Nat
  BY TextPositions, HeaderPositions, Zenon
<1>2. \A i \in Eol(r) + 1 .. Len(t) : i \in Eol(r) + 1 .. Blank(r) - 1 /\ i <= Len(t)
  BY <1>1
<1>3. Blanks(t, Eol(r) + 1) = {}
  BY <1>2, NoEarlierBlank, Zenon DEF Blanks
<1>4. ParseHeaders(t, Eol(r) + 1) = Err
  BY <1>3, Zenon DEF ParseHeaders, Blanks, LineBegins
<1> QED
  BY <1>4 DEF Err

\* The line that begins at a position, its colon, and what is around the colon.
LineAt(t, i) == SubSeq(t, i, Find(t, CRLF, i) - 1)
ColonAt(t, i) == Find(LineAt(t, i), ":", 1)
KeyAt(t, i) == SubSeq(LineAt(t, i), 1, ColonAt(t, i) - 1)
ValueAt(t, i) == Trim(SubSeq(LineAt(t, i), ColonAt(t, i) + 1, Len(LineAt(t, i))))
Lines(t, from) == {i \in from .. Min(Blanks(t, from)) - 1 : LineBegins(t, from, i)}

\* A line from its first symbol i to the end of line e, with a colon as its
\* second symbol.
LEMMA LineRead ==
  ASSUME NEW t \in Seq(Symbol), NEW i \in Nat \ {0}, NEW e \in Nat, i + 2 <= e, e <= Len(t),
         t[e] = CRLF, \A j \in i .. e - 1 : t[j] # CRLF, t[i] # ":", t[i + 1] = ":"
  PROVE  /\ LineAt(t, i) \in Seq(Symbol) /\ Len(LineAt(t, i)) = e - i
         /\ \A j \in 1 .. e - i : LineAt(t, i)[j] = t[i + j - 1]
         /\ ColonAt(t, i) = 2 /\ KeyAt(t, i) = <<t[i]>>
<1> DEFINE v == LineAt(t, i)
<1>1. Find(t, CRLF, i) = e
  <2>1. Len(t) \in Nat /\ e \in i .. Len(t) /\ i \in Nat
    OBVIOUS
  <2> QED
    BY <2>1, FindIs
<1>2. v \in Seq(Symbol) /\ Len(v) = e - i /\ \A j \in 1 .. e - i : v[j] = t[i + j - 1]
  <2>1. e - 1 \in Nat /\ i <= (e - 1) + 1 /\ e - 1 <= Len(t) /\ (e - 1) + 1 - i = e - i
    OBVIOUS
  <2> DEFINE w == SubSeq(t, i, e - 1)
  <2>2. w \in Seq(Symbol) /\ Len(w) = (e - 1) + 1 - i /\ \A j \in 1 .. (e - 1) + 1 - i : w[j] = t[i + j - 1]
    BY <2>1, Cut
  <2>3. v = w
    BY <1>1, Zenon DEF LineAt
  <2> HIDE DEF v, w
  <2> QED
    BY <2>1, <2>2, <2>3
<1> HIDE DEF v
<1>3. /\ Len(v) \in Nat /\ 1 \in 1 .. Len(v) /\ 2 \in 1 .. Len(v) /\ 1 \in 1 .. e - i /\ 2 \in 1 .. e - i
      /\ i + 1 - 1 = i /\ i + 2 - 1 = i + 1
  BY <1>2
<1>4. v[1] = t[i] /\ v[2] = ":"
  BY <1>2, <1>3
<1>5. Find(v, ":", 1) = 2
  <2>1. \A j \in 1 .. 2 - 1 : v[j] # ":"
    BY <1>4
  <2>2. 1 \in Nat
    OBVIOUS
  <2> QED
    BY <1>3, <1>4, <2>1, <2>2, FindIs
<1>6. SubSeq(v, 1, 1) = <<t[i]>>
  BY <1>2, <1>3, <1>4, CutOne
<1>7. ColonAt(t, i) = 2
  BY <1>5, Zenon DEF ColonAt, v
<1>8. KeyAt(t, i) = <<t[i]>>
  <2>1. 2 - 1 = 1
    OBVIOUS
  <2> QED
    BY <1>6, <1>7, <2>1 DEF KeyAt, v
<1> QED
  BY <1>2, <1>7, <1>8 DEF v

\* White space is taken off the front of a symbol.
LEMMA TrimOne ==
  ASSUME NEW d \in Symbol, d # SP
  PROVE  Trim(<<SP, d>>) = <<d>>
<1> DEFINE v == <<SP, d>>
           solid == {i \in DOMAIN v : v[i] # SP}
<1>1. v \in Seq(Symbol) /\ Len(v) = 2 /\ DOMAIN v = 1 .. 2 /\ v[1] = SP /\ v[2] = d
  <2>1. SP \in Symbol
    BY FixedSolid, Zenon
  <2> QED
    BY <2>1
<1> HIDE DEF v
<1>2. solid = {2}
  <2>1. \A i \in 1 .. 2 : i = 1 \/ i = 2
    OBVIOUS
  <2>2. 2 \in 1 .. 2
    OBVIOUS
  <2> QED
    BY <1>1, <2>1, <2>2, Zenon
<1> HIDE DEF solid
<1>3. Min(solid) = 2 /\ Max(solid) = 2
  <2>1. solid \subseteq Nat /\ 2 \in solid /\ (\A y \in solid : 2 <= y) /\ (\A y \in solid : 2 >= y)
    BY <1>2
  <2> QED
    BY <2>1, MinIs, MaxIs
<1>4. SubSeq(v, 2, 2) = <<d>>
  <2>1. 2 \in 1 .. Len(v)
    BY <1>1
  <2> QED
    BY <1>1, <2>1, CutOne
<1>5. solid # {}
  BY <1>2
<1>6. Trim(v) = SubSeq(v, 2, 2)
  BY <1>3, <1>5, Zenon DEF Trim, solid
<1> QED
  BY <1>4, <1>6 DEF v

\* The first line is the host.
LEMMA HostLine ==
  ASSUME NEW r, NEW t, Text(r, t), Blank(r) <= Len(t)
  PROVE  ColonAt(t, Eol(r) + 1) = 2 /\ KeyAt(t, Eol(r) + 1) = <<"Host">>
<1> DEFINE E == Eol(r)
           B == Blank(r)
<1>1. E \in Nat /\ Len(t) \in Nat /\ B \in Nat /\ (B = E + 5 \/ B = E + 10) /\ B <= Len(t)
      /\ t \in Seq(Symbol)
  BY TextPositions, HeaderPositions, Zenon DEF Text
<1>2. "Host" # CRLF /\ ":" # CRLF /\ "h" # CRLF /\ "Host" # ":"
  BY FixedSolid, Separate, Zenon DEF Separators
<1> HIDE DEF E, B
<1>3. /\ E + 1 \in 1 .. Len(t) /\ E + 2 \in 1 .. Len(t) /\ E + 3 \in 1 .. Len(t)
      /\ E + 4 \in 1 .. Len(t) /\ E + 4 <= Len(t)
  BY <1>1
<1>4. t[E + 1] = "Host" /\ t[E + 2] = ":" /\ t[E + 3] = "h" /\ t[E + 4] = CRLF
  BY <1>3, Zenon DEF Text, Spelled, Reads, E
<1>5. /\ E + 1 \in Nat \ {0} /\ E + 4 \in Nat /\ (E + 1) + 2 <= E + 4 /\ (E + 1) + 1 = E + 2
      /\ \A j \in E + 1 .. (E + 4) - 1 : j = E + 1 \/ j = E + 2 \/ j = E + 3
  BY <1>1
<1>6. \A j \in E + 1 .. (E + 4) - 1 : t[j] # CRLF
  BY <1>2, <1>4, <1>5, Zenon
<1>7. t[(E + 1) + 1] = ":"
  BY <1>4, <1>5
<1>8. ColonAt(t, E + 1) = 2 /\ KeyAt(t, E + 1) = <<t[E + 1]>>
  BY <1>1, <1>2, <1>3, <1>4, <1>5, <1>6, <1>7, LineRead
<1> QED
  BY <1>4, <1>8 DEF E

\* The second, if there is one, declares the length of the body.
LEMMA LengthLine ==
  ASSUME NEW r, NEW t, Text(r, t), Blank(r) <= Len(t), r.body # <<>>
  PROVE  /\ ColonAt(t, Eol(r) + 5) = 2 /\ KeyAt(t, Eol(r) + 5) = <<"Content-Length">>
         /\ ValueAt(t, Eol(r) + 5) = <<Digits[Len(r.body) + 1]>>
<1> DEFINE E == Eol(r)
           B == Blank(r)
           d == Digits[Len(r.body) + 1]
           v == LineAt(t, E + 5)
<1>1. E \in Nat /\ Len(t) \in Nat /\ B = E + 10 /\ B <= Len(t) /\ t \in Seq(Symbol)
  BY TextPositions, HeaderPositions, Zenon DEF Text
<1>2. /\ "Content-Length" # CRLF /\ ":" # CRLF /\ SP # CRLF /\ "Content-Length" # ":"
      /\ d # CRLF /\ d # SP /\ d \in Symbol
  BY HeaderPositions, FixedSolid, DigitFacts, Separate, Zenon DEF Separators
<1> HIDE DEF E, B, d
<1>3. /\ E + 5 \in 1 .. Len(t) /\ E + 6 \in 1 .. Len(t) /\ E + 7 \in 1 .. Len(t)
      /\ E + 8 \in 1 .. Len(t) /\ E + 9 \in 1 .. Len(t) /\ E + 9 <= Len(t)
  BY <1>1
<1>4. /\ t[E + 5] = "Content-Length" /\ t[E + 6] = ":" /\ t[E + 7] = SP /\ t[E + 8] = d
      /\ t[E + 9] = CRLF
  BY <1>3, Zenon DEF Text, Spelled, Reads, E, d
<1>5. /\ E + 5 \in Nat \ {0} /\ E + 9 \in Nat /\ (E + 5) + 2 <= E + 9 /\ (E + 5) + 1 = E + 6
      /\ (E + 9) - (E + 5) = 4 /\ (E + 5) + 3 - 1 = E + 7 /\ (E + 5) + 4 - 1 = E + 8
      /\ 3 \in 1 .. 4 /\ 4 \in 1 .. 4
      /\ \A j \in E + 5 .. (E + 9) - 1 : j = E + 5 \/ j = E + 6 \/ j = E + 7 \/ j = E + 8
  BY <1>1
<1>6. \A j \in E + 5 .. (E + 9) - 1 : t[j] # CRLF
  BY <1>2, <1>4, <1>5, Zenon
<1>7. t[(E + 5) + 1] = ":"
  BY <1>4, <1>5
<1> HIDE DEF v
<1>8. /\ v \in Seq(Symbol) /\ Len(v) = (E + 9) - (E + 5)
      /\ \A j \in 1 .. (E + 9) - (E + 5) : v[j] = t[(E + 5) + j - 1]
      /\ ColonAt(t, E + 5) = 2 /\ KeyAt(t, E + 5) = <<t[E + 5]>>
  BY <1>1, <1>2, <1>3, <1>4, <1>5, <1>6, <1>7, LineRead DEF v
<1>9. v \in Seq(Symbol) /\ Len(v) = 4 /\ v[3] = SP /\ v[4] = d
  BY <1>4, <1>5, <1>8
<1>10. SubSeq(v, 3, 4) = <<SP, d>>
  <2>1. 3 \in 1 .. Len(v) /\ 3 + 1 <= Len(v) /\ 3 + 1 = 4
    BY <1>9
  <2>2. SubSeq(v, 3, 3 + 1) = <<v[3], v[3 + 1]>>
    BY <1>9, <2>1, CutTwo
  <2> QED
    BY <1>9, <2>1, <2>2
<1>11. ValueAt(t, E + 5) = <<d>>
  <2>1. Trim(<<SP, d>>) = <<d>>
    BY <1>2, TrimOne
  <2>2. 2 + 1 = 3
    OBVIOUS
  <2>3. ValueAt(t, E + 5) = Trim(SubSeq(v, ColonAt(t, E + 5) + 1, Len(v)))
    BY Zenon DEF ValueAt, v
  <2> QED
    BY <1>8, <1>9, <1>10, <2>1, <2>2, <2>3, Zenon
<1> QED
  BY <1>4, <1>8, <1>11 DEF E, d

\* Which the lines of the headers are.
LEMMA HeaderLines ==
  ASSUME NEW r, NEW t, Text(r, t), Blank(r) <= Len(t)
  PROVE  /\ Blanks(t, Eol(r) + 1) # {} /\ Min(Blanks(t, Eol(r) + 1)) = Blank(r)
         /\ Lines(t, Eol(r) + 1)
              = IF r.body = <<>> THEN {Eol(r) + 1} ELSE {Eol(r) + 1, Eol(r) + 5}
<1> DEFINE E == Eol(r)
           B == Blank(r)
           from == E + 1
           blanks == Blanks(t, from)
<1>1. E \in Nat /\ Len(t) \in Nat /\ B \in Nat /\ B <= Len(t)
  BY TextPositions, HeaderPositions, Zenon
<1>2. (r.body = <<>> => B = E + 5) /\ (r.body # <<>> => B = E + 10)
  BY HeaderPositions, Zenon
<1>3. /\ "Host" # CRLF /\ ":" # CRLF /\ "h" # CRLF /\ "Content-Length" # CRLF /\ SP # CRLF
      /\ Digits[Len(r.body) + 1] # CRLF
  BY HeaderPositions, FixedSolid, Separate, Zenon DEF Separators
<1> HIDE DEF E, B
<1>4. /\ from \in 1 .. Len(t) /\ E + 2 \in 1 .. Len(t) /\ E + 3 \in 1 .. Len(t)
      /\ E + 4 \in 1 .. Len(t) /\ B \in 1 .. Len(t)
  BY <1>1, <1>2
<1>5. t[from] = "Host" /\ t[E + 2] = ":" /\ t[E + 3] = "h" /\ t[E + 4] = CRLF /\ t[B] = CRLF
  BY <1>4, Zenon DEF Text, Spelled, Reads, E, B
<1>6. ASSUME r.body # <<>>
      PROVE  /\ t[E + 5] = "Content-Length" /\ t[E + 6] = ":" /\ t[E + 7] = SP
             /\ t[E + 8] = Digits[Len(r.body) + 1] /\ t[E + 9] = CRLF
  <2>1. /\ E + 5 \in 1 .. Len(t) /\ E + 6 \in 1 .. Len(t) /\ E + 7 \in 1 .. Len(t)
        /\ E + 8 \in 1 .. Len(t) /\ E + 9 \in 1 .. Len(t)
    BY <1>1, <1>2, <1>6
  <2> QED
    BY <1>6, <2>1, Zenon DEF Text, Spelled, Reads, E
<1>7. t[B - 1] = CRLF
  <2>1. CASE r.body = <<>>
    <3>1. B - 1 = E + 4
      BY <1>1, <1>2, <2>1
    <3> QED
      BY <1>5, <3>1
  <2>2. CASE r.body # <<>>
    <3>1. B - 1 = E + 9
      BY <1>1, <1>2, <2>2
    <3> QED
      BY <1>6, <2>2, <3>1
  <2> QED
    BY <2>1, <2>2
<1>8. B \in blanks
  <2>1. B \in from .. Len(t)
    BY <1>1, <1>2
  <2> QED
    BY <1>5, <1>7, <2>1, Zenon DEF Blanks, LineBegins
<1>9. \A i \in blanks : i \in Nat /\ B <= i
  <2> SUFFICES ASSUME NEW i \in from .. Len(t), t[i] = CRLF /\ LineBegins(t, from, i)
               PROVE  i \in Nat /\ B <= i
    BY Zenon DEF Blanks
  <2>1. i \in Nat /\ i <= Len(t)
    BY <1>1
  <2>2. ~(i \in from .. B - 1)
    BY <2>1, NoEarlierBlank, Zenon DEF E, B, from
  <2> QED
    BY <1>1, <2>1, <2>2
<1>10. blanks # {} /\ Min(blanks) = B
  <2>1. blanks \subseteq Nat /\ \A i \in blanks : B <= i
    BY <1>9, Zenon
  <2> HIDE DEF blanks
  <2> QED
    BY <1>8, <2>1, MinIs
<1>11. Lines(t, from) = {i \in from .. B - 1 : LineBegins(t, from, i)}
  BY <1>10, Zenon DEF Lines
<1>12. Lines(t, from) = IF r.body = <<>> THEN {from} ELSE {from, E + 5}
  <2>1. CASE r.body = <<>>
    <3>1. from \in from .. B - 1 /\ LineBegins(t, from, from)
      BY <1>1, <1>2, <2>1 DEF LineBegins
    <3>2. \A i \in from .. B - 1 : i = from \/ i - 1 = from \/ i - 1 = E + 2 \/ i - 1 = E + 3
      BY <1>1, <1>2, <2>1
    <3>3. \A i \in from .. B - 1 : LineBegins(t, from, i) => i = from
      BY <1>3, <1>5, <3>2, Zenon DEF LineBegins
    <3>4. Lines(t, from) = {from}
      BY <1>11, <3>1, <3>3, Zenon
    <3> QED
      BY <2>1, <3>4, Zenon
  <2>2. CASE r.body # <<>>
    <3>1. /\ from \in from .. B - 1 /\ LineBegins(t, from, from)
          /\ E + 5 \in from .. B - 1 /\ LineBegins(t, from, E + 5)
      <4>1. (E + 5) - 1 = E + 4
        BY <1>1
      <4> QED
        BY <1>1, <1>2, <1>5, <2>2, <4>1 DEF LineBegins
    <3>2. \A i \in from .. B - 1 :
            \/ i = from \/ i = E + 5
            \/ i - 1 = from \/ i - 1 = E + 2 \/ i - 1 = E + 3
            \/ i - 1 = E + 5 \/ i - 1 = E + 6 \/ i - 1 = E + 7 \/ i - 1 = E + 8
      BY <1>1, <1>2, <2>2
    <3>3. \A i \in from .. B - 1 : LineBegins(t, from, i) => i = from \/ i = E + 5
      BY <1>3, <1>5, <1>6, <2>2, <3>2, Zenon DEF LineBegins
    <3>4. Lines(t, from) = {from, E + 5}
      BY <1>11, <3>1, <3>3, Zenon
    <3> QED
      BY <2>2, <3>4, Zenon
  <2> QED
    BY <2>1, <2>2
<1> QED
  BY <1>10, <1>12, Zenon DEF E, B, blanks, from

\* The headers are read as they were written.
LEMMA HeadersParsed ==
  ASSUME NEW r, NEW t, Text(r, t), Blank(r) <= Len(t)
  PROVE  /\ ParseHeaders(t, Eol(r) + 1).ok
         /\ ParseHeaders(t, Eol(r) + 1).next = Blank(r) + 1
         /\ Header(ParseHeaders(t, Eol(r) + 1).headers, <<"Content-Length">>)
              = IF r.body = <<>> THEN <<>> ELSE <<Digits[Len(r.body) + 1]>>
<1> DEFINE E == Eol(r)
           from == E + 1
           lines == Lines(t, from)
           key == <<"Content-Length">>
           headers == [k \in {KeyAt(t, i) : i \in lines} |->
                        ValueAt(t, Max({i \in lines : KeyAt(t, i) = k}))]
           q == ParseHeaders(t, from)
<1>1. /\ Blanks(t, from) # {} /\ Min(Blanks(t, from)) = Blank(r)
      /\ lines = IF r.body = <<>> THEN {from} ELSE {from, E + 5}
  BY HeaderLines, Zenon
<1>2. ColonAt(t, from) = 2 /\ KeyAt(t, from) = <<"Host">>
  BY HostLine, Zenon
<1>3. ASSUME r.body # <<>>
      PROVE  /\ ColonAt(t, E + 5) = 2 /\ KeyAt(t, E + 5) = key
             /\ ValueAt(t, E + 5) = <<Digits[Len(r.body) + 1]>>
  BY <1>3, LengthLine, Zenon
<1>4. E \in Nat
  BY TextPositions, Zenon
<1>5. key # <<"Host">>
  <2>1. <<"Content-Length">>[1] # <<"Host">>[1]
    OBVIOUS
  <2> QED
    BY <2>1, Zenon
<1>6. q = IF Blanks(t, from) = {} \/ \E i \in lines : ColonAt(t, i) = 0 THEN Err
          ELSE [ok |-> TRUE, headers |-> headers, next |-> Min(Blanks(t, from)) + 1]
  BY Zenon DEF ParseHeaders, Blanks, LineBegins, Lines, LineAt, ColonAt, KeyAt, ValueAt
<1> HIDE DEF E, lines, headers, q
<1>7. q = [ok |-> TRUE, headers |-> headers, next |-> Blank(r) + 1]
  <2>1. 2 # 0
    OBVIOUS
  <2>2. ~ \E i \in lines : ColonAt(t, i) = 0
    <3>1. CASE r.body = <<>>
      <4>1. lines = {from}
        BY <1>1, <3>1, Zenon
      <4> QED
        BY <1>2, <2>1, <4>1, Zenon
    <3>2. CASE r.body # <<>>
      <4>1. lines = {from, E + 5}
        BY <1>1, <3>2, Zenon
      <4> QED
        BY <1>2, <1>3, <2>1, <3>2, <4>1, Zenon
    <3> QED
      BY <3>1, <3>2
  <2> QED
    BY <1>1, <1>6, <2>2, Zenon
<1>8. DOMAIN headers = {KeyAt(t, i) : i \in lines}
  BY DEF headers
<1>9. Header(headers, key) = IF r.body = <<>> THEN <<>> ELSE <<Digits[Len(r.body) + 1]>>
  <2>1. CASE r.body = <<>>
    <3>1. lines = {from}
      BY <1>1, <2>1, Zenon
    <3>2. key \notin DOMAIN headers
      BY <1>2, <1>5, <1>8, <3>1, Zenon
    <3> QED
      BY <2>1, <3>2, Zenon DEF Header
  <2>2. CASE r.body # <<>>
    <3>1. lines = {from, E + 5}
      BY <1>1, <2>2, Zenon
    <3>2. key \in DOMAIN headers
      BY <1>3, <1>8, <2>2, <3>1, Zenon
    <3>3. {i \in lines : KeyAt(t, i) = key} = {E + 5}
      BY <1>2, <1>3, <1>5, <2>2, <3>1, Zenon
    <3>4. Max({E + 5}) = E + 5
      <4> DEFINE S == {E + 5}
      <4>1. S \subseteq Nat /\ E + 5 \in S /\ \A y \in S : E + 5 >= y
        BY <1>4
      <4> HIDE DEF S
      <4>2. Max(S) = E + 5
        BY <4>1, MaxIs
      <4> QED
        BY <4>2 DEF S
    <3>5. headers[key] = ValueAt(t, Max({i \in lines : KeyAt(t, i) = key}))
      BY <1>8, <3>2, Zenon DEF headers
    <3>6. headers[key] = <<Digits[Len(r.body) + 1]>>
      BY <1>3, <2>2, <3>3, <3>4, <3>5, Zenon
    <3> QED
      BY <2>2, <3>2, <3>6, Zenon DEF Header
  <2> QED
    BY <2>1, <2>2
<1>10. q.ok /\ q.headers = headers /\ q.next = Blank(r) + 1
  BY <1>7
<1> QED
  BY <1>9, <1>10, Zenon DEF q, from, E, key

-----------------------------------------------------------------------------
(* The body.                                                                *)

\* The recursion of Number on a single digit with value d.
Valued(d, value) ==
  value = [i \in 0 .. 1 |-> IF i = 0 THEN 0 ELSE (value[i - 1] * 10 + d) % SizeT]

\* One digit is a number, and read as one.
LEMMA OneDigit ==
  ASSUME NEW n \in 0 .. 9
  PROVE  IsNumber(<<Digits[n + 1]>>) /\ Number(<<Digits[n + 1]>>) = n
<1> DEFINE w == <<Digits[n + 1]>>
           digit(i) == (CHOOSE d \in DOMAIN Digits : Digits[d] = w[i]) - 1
<1>1. DOMAIN w = 1 .. 1 /\ Len(w) = 1 /\ w[1] = Digits[n + 1] /\ n + 1 \in 1 .. 10 /\ (n + 1) - 1 = n
  OBVIOUS
<1>2. DOMAIN Digits = 1 .. 10 /\ \A i, j \in 1 .. 10 : Digits[i] = Digits[j] => i = j
  BY DigitFacts, Zenon
<1> HIDE DEF w
<1>3. IsNumber(w)
  <2>1. \A i \in DOMAIN w : w[i] = Digits[n + 1]
    BY <1>1
  <2> QED
    BY <1>1, <1>2, <2>1, Zenon DEF IsNumber
<1>4. digit(1) = n
  <2>1. (CHOOSE d \in DOMAIN Digits : Digits[d] = w[1]) = n + 1
    BY <1>1, <1>2, Zenon
  <2> QED
    BY <1>1, <2>1
<1>5. SizeT \in Nat /\ SizeT > 9
  BY HttpParserAssumption
<1>6. n % SizeT = n /\ (0 * 10 + n) % SizeT = n
  <2>1. \A m \in Nat, k \in Nat : m < k => m % k = m
    OBVIOUS
  <2>2. n \in Nat /\ n < SizeT /\ 0 * 10 + n = n
    BY <1>5
  <2> QED
    BY <1>5, <2>1, <2>2
<1> DEFINE f == CHOOSE value :
                  value = [i \in 0 .. Len(w) |->
                            IF i = 0 THEN 0 ELSE (value[i - 1] * 10 + digit(i)) % SizeT]
<1>7. Number(w) = f[Len(w)]
  BY Zenon DEF Number
<1> HIDE DEF digit
<1>8. ASSUME NEW value
      PROVE  (value = [i \in 0 .. Len(w) |-> IF i = 0 THEN 0 ELSE (value[i - 1] * 10 + digit(i)) % SizeT])
               <=> Valued(n, value)
  <2>1. \A i \in 0 .. 1 : i = 0 \/ i = 1
    OBVIOUS
  <2>2. [i \in 0 .. Len(w) |-> IF i = 0 THEN 0 ELSE (value[i - 1] * 10 + digit(i)) % SizeT]
          = [i \in 0 .. 1 |-> IF i = 0 THEN 0 ELSE (value[i - 1] * 10 + n) % SizeT]
    BY <1>1, <1>4, <2>1, Zenon
  <2> QED
    BY <2>2, Zenon DEF Valued
<1>9. f = CHOOSE value : Valued(n, value)
  BY <1>8, Zenon
<1> HIDE DEF f
<1>10. \E value : Valued(n, value)
  <2> DEFINE g == [i \in 0 .. 1 |-> IF i = 0 THEN 0 ELSE n]
  <2>1. g[0] = 0 /\ g[1] = n /\ 1 - 1 = 0 /\ \A i \in 0 .. 1 : i = 0 \/ i = 1
    OBVIOUS
  <2>2. ASSUME NEW i \in 0 .. 1 PROVE g[i] = IF i = 0 THEN 0 ELSE (g[i - 1] * 10 + n) % SizeT
    <3>1. CASE i = 0
      BY <2>1, <3>1
    <3>2. CASE i = 1
      <4>1. g[i - 1] = 0
        BY <2>1, <3>2
      <4>2. (g[i - 1] * 10 + n) % SizeT = n
        BY <1>6, <4>1
      <4> HIDE DEF g
      <4> QED
        BY <2>1, <3>2, <4>2
    <3> QED
      BY <2>1, <3>1, <3>2
  <2>3. g = [i \in 0 .. 1 |-> g[i]]
    OBVIOUS
  <2> HIDE DEF g
  <2>4. Valued(n, g)
    BY <2>2, <2>3, Zenon DEF Valued
  <2> QED
    BY <2>4
<1>11. Valued(n, f)
  BY <1>9, <1>10, Zenon
<1>12. f[1] = n
  <2>1. 0 \in 0 .. 1 /\ 1 \in 0 .. 1 /\ 1 # 0 /\ 1 - 1 = 0
    OBVIOUS
  <2>2. \A i \in 0 .. 1 : f[i] = IF i = 0 THEN 0 ELSE (f[i - 1] * 10 + n) % SizeT
    BY <1>11, Zenon DEF Valued
  <2>3. f[0] = 0 /\ f[1] = (f[1 - 1] * 10 + n) % SizeT
    BY <2>1, <2>2, Zenon
  <2>4. f[1] = (0 * 10 + n) % SizeT
    BY <2>1, <2>3
  <2> QED
    BY <1>6, <2>4
<1> QED
  BY <1>1, <1>3, <1>7, <1>12 DEF w

\* The body is read if all of it is there, and refused if not.
LEMMA BodyRead ==
  ASSUME NEW r, NEW t, Text(r, t), Blank(r) <= Len(t)
  PROVE  LET q == ParseBody(t, Blank(r) + 1, <<Digits[Len(r.body) + 1]>>)
         IN  /\ Len(t) < Size(r) => ~q.ok
             /\ Len(t) >= Size(r) => q.ok /\ q.body = r.body /\ q.next = Size(r) + 1
<1> DEFINE B == Blank(r)
           n == Len(r.body)
           w == <<Digits[n + 1]>>
           q == ParseBody(t, B + 1, w)
           b == SubSeq(t, B + 1, (B + 1) - 1 + n)
<1>1. r \in Request /\ t \in Seq(Symbol) /\ Spelled(r, t)
  BY Zenon DEF Text
<1>2. Len(t) \in Nat
  BY <1>1
<1>3. B \in Nat /\ n \in 0 .. 9 /\ Size(r) = B + n /\ r.body \in Seq(Symbol)
  BY <1>1, PositionTypes, RequestFields, Zenon
<1>4. IsNumber(w) /\ Number(w) = n
  BY <1>3, OneDigit, Zenon
<1>5. \A j \in 1 .. n : Reads(t, B + j, r.body[j])
  BY <1>1, Zenon DEF Spelled
<1> HIDE DEF B, w, q, b
<1>6. q = IF Len(t) - ((B + 1) - 1) < n THEN Err
          ELSE [ok |-> TRUE, body |-> b, next |-> (B + 1) + n]
  BY <1>4, Zenon DEF ParseBody, q, b
<1>7. ASSUME Len(t) < Size(r) PROVE ~q.ok
  <2> HIDE DEF n
  <2>1. n \in Nat
    BY <1>3
  <2>2. Len(t) - ((B + 1) - 1) < n
    BY <1>2, <1>3, <1>7, <2>1
  <2>3. q = Err
    BY <1>6, <2>2, Zenon
  <2> QED
    BY <2>3 DEF Err
<1>8. ASSUME Len(t) >= Size(r) PROVE q.ok /\ q.body = r.body /\ q.next = Size(r) + 1
  <2> DEFINE len == Len(r.body)
  <2> HIDE DEF n
  <2>0. n = len
    BY DEF n
  <2> HIDE DEF len
  <2>1. /\ n \in Nat /\ ~(Len(t) - ((B + 1) - 1) < n) /\ B + n <= Len(t)
        /\ B + 1 \in Nat \ {0} /\ (B + 1) - 1 + n \in Nat /\ B + 1 <= ((B + 1) - 1 + n) + 1
        /\ (B + 1) - 1 + n <= Len(t) /\ ((B + 1) - 1 + n) + 1 - (B + 1) = n
        /\ (\A j \in 1 .. n : (B + 1) + j - 1 = B + j /\ B + j \in 1 .. Len(t))
        /\ (B + 1) + n = Size(r) + 1
    BY <1>2, <1>3, <1>8
  <2>2. q = [ok |-> TRUE, body |-> b, next |-> (B + 1) + n]
    BY <1>6, <2>1, Zenon
  <2>3. /\ b \in Seq(Symbol) /\ Len(b) = ((B + 1) - 1 + n) + 1 - (B + 1)
        /\ \A j \in 1 .. ((B + 1) - 1 + n) + 1 - (B + 1) : b[j] = t[(B + 1) + j - 1]
    <3> DEFINE a == B + 1
               e == (B + 1) - 1 + n
    <3>1. a \in Nat \ {0} /\ e \in Nat /\ a <= e + 1 /\ e <= Len(t) /\ b = SubSeq(t, a, e)
      BY <2>1, Zenon DEF b
    <3> HIDE DEF a, e
    <3>2. /\ b \in Seq(Symbol) /\ Len(b) = e + 1 - a
          /\ \A j \in 1 .. e + 1 - a : b[j] = t[a + j - 1]
      BY <1>1, <3>1, Cut
    <3> QED
      BY <3>2, Zenon DEF a, e
  <2>4. Len(b) = n /\ \A j \in 1 .. n : b[j] = t[(B + 1) + j - 1]
    BY <2>1, <2>3, Zenon
  <2>5. \A j \in 1 .. n : b[j] = r.body[j]
    <3>1. \A j \in 1 .. n : t[B + j] = r.body[j]
      BY <1>5, <2>1, Zenon DEF Reads
    <3> QED
      BY <2>1, <2>4, <3>1, Zenon
  <2>6. b = r.body
    <3> DEFINE c == r.body
    <3>1. c \in Seq(Symbol) /\ Len(b) = Len(c) /\ \A j \in 1 .. Len(b) : b[j] = c[j]
      BY <1>3, <2>0, <2>4, <2>5, Zenon DEF len
    <3> HIDE DEF c
    <3>2. b = c
      BY <2>3, <3>1, SameElements
    <3> QED
      BY <3>2 DEF c
  <2> QED
    BY <2>1, <2>2, <2>6
<1> QED
  BY <1>7, <1>8, Zenon DEF q, w, n, B

\* Parser with its parts named.
LEMMA ParserSteps ==
  ASSUME NEW t,
         NEW request, request = ParseRequestLine(t),
         NEW head, head = ParseHeaders(t, request.next),
         NEW declared, declared = Header(head.headers, <<"Content-Length">>),
         NEW rest, rest = IF declared = <<>> THEN [ok |-> TRUE, body |-> <<>>, next |-> head.next]
                          ELSE ParseBody(t, head.next, declared)
  PROVE  /\ ~request.ok => Parser(t) = Err
         /\ ~head.ok => Parser(t) = Err
         /\ ~rest.ok => Parser(t) = Err
         /\ request.ok /\ head.ok /\ rest.ok =>
              Parser(t) = [ok       |-> TRUE,
                           method   |-> request.method,
                           url      |-> request.url,
                           version  |-> request.version,
                           headers  |-> head.headers,
                           body     |-> rest.body,
                           consumed |-> rest.next - 1]
<1>1. Parser(t) =
        IF ~request.ok THEN Err
        ELSE IF ~head.ok THEN Err
        ELSE IF ~rest.ok THEN Err
        ELSE [ok       |-> TRUE,
              method   |-> request.method,
              url      |-> request.url,
              version  |-> request.version,
              headers  |-> head.headers,
              body     |-> rest.body,
              consumed |-> rest.next - 1]
  BY Zenon DEF Parser
<1> QED
  BY <1>1, Zenon

\* What has arrived in part is refused.
LEMMA ParserPart ==
  ASSUME NEW r, NEW t, Text(r, t), Len(t) < Size(r)
  PROVE  ~Parser(t).ok
<1> DEFINE request == ParseRequestLine(t)
           head == ParseHeaders(t, request.next)
           declared == Header(head.headers, <<"Content-Length">>)
           rest == IF declared = <<>> THEN [ok |-> TRUE, body |-> <<>>, next |-> head.next]
                   ELSE ParseBody(t, head.next, declared)
<1>1. (~request.ok \/ ~head.ok \/ ~rest.ok) => Parser(t) = Err
  <2> HIDE DEF request, head, declared, rest
  <2>1. /\ request = ParseRequestLine(t) /\ head = ParseHeaders(t, request.next)
        /\ declared = Header(head.headers, <<"Content-Length">>)
        /\ rest = IF declared = <<>> THEN [ok |-> TRUE, body |-> <<>>, next |-> head.next]
                  ELSE ParseBody(t, head.next, declared)
    BY Zenon DEF request, head, declared, rest
  <2>2. /\ ~request.ok => Parser(t) = Err
        /\ ~head.ok => Parser(t) = Err
        /\ ~rest.ok => Parser(t) = Err
    BY <2>1, ParserSteps
  <2> QED
    BY <2>2
<1>2. Eol(r) \in Nat /\ Len(t) \in Nat
  BY TextPositions, Zenon
<1>3. Blank(r) \in Nat /\ Len(r.body) \in 0 .. 9 /\ Size(r) = Blank(r) + Len(r.body)
  BY PositionTypes, Zenon DEF Text
<1> HIDE DEF request
<1>4. CASE Len(t) < Eol(r)
  <2>1. ~request.ok
    BY <1>4, RequestLineCut, Zenon DEF request
  <2> QED
    BY <1>1, <2>1 DEF Err
<1>5. CASE Eol(r) <= Len(t) /\ Len(t) < Blank(r)
  <2>1. request.next = Eol(r) + 1
    BY <1>5, RequestLineParsed, Zenon DEF request
  <2>2. ~head.ok
    BY <1>5, <2>1, HeadersCut, Zenon
  <2> HIDE DEF head
  <2> QED
    BY <1>1, <2>2 DEF Err
<1>6. CASE Blank(r) <= Len(t)
  <2>1. Eol(r) <= Len(t)
    <3>1. Blank(r) = Eol(r) + 5 \/ Blank(r) = Eol(r) + 10
      BY HeaderPositions, Zenon
    <3> QED
      BY <1>2, <1>6, <3>1
  <2>2. request.next = Eol(r) + 1
    BY <2>1, RequestLineParsed, Zenon DEF request
  <2>3. r.body # <<>>
    <3> SUFFICES ASSUME r.body = <<>> PROVE FALSE
      OBVIOUS
    <3>1. Len(r.body) = 0
      <4>1. Len(<<>>) = 0
        OBVIOUS
      <4> QED
        BY <4>1, Zenon
    <3>2. Size(r) = Blank(r) + 0
      BY <1>3, <3>1, Zenon
    <3> QED
      BY <1>2, <1>3, <1>6, <3>2
  <2>4. head.next = Blank(r) + 1 /\ declared = <<Digits[Len(r.body) + 1]>>
    BY <1>6, <2>2, <2>3, HeadersParsed, Zenon
  <2>5. declared # <<>>
    <3>1. \A x : <<x>> # <<>>
      OBVIOUS
    <3> QED
      BY <2>4, <3>1, Zenon
  <2>6. ~rest.ok
    <3>1. rest = ParseBody(t, Blank(r) + 1, <<Digits[Len(r.body) + 1]>>)
      BY <2>4, <2>5, Zenon
    <3>2. ~ParseBody(t, Blank(r) + 1, <<Digits[Len(r.body) + 1]>>).ok
      BY <1>6, BodyRead, Zenon
    <3> QED
      BY <3>1, <3>2, Zenon
  <2> HIDE DEF head, declared, rest
  <2> QED
    BY <1>1, <2>6 DEF Err
<1> QED
  BY <1>2, <1>3, <1>4, <1>5, <1>6

\* What has arrived in full is read as it was written, whatever is behind it.
LEMMA ParserWhole ==
  ASSUME NEW r, NEW t, Text(r, t), Len(t) >= Size(r)
  PROVE  /\ Parser(t).ok /\ Parser(t).method = r.method /\ Parser(t).url = Url(r, t)
         /\ Parser(t).body = r.body /\ Parser(t).consumed = Size(r)
<1> DEFINE request == ParseRequestLine(t)
           head == ParseHeaders(t, request.next)
           declared == Header(head.headers, <<"Content-Length">>)
           rest == IF declared = <<>> THEN [ok |-> TRUE, body |-> <<>>, next |-> head.next]
                   ELSE ParseBody(t, head.next, declared)
<1>1. request.ok /\ head.ok /\ rest.ok =>
        Parser(t) = [ok       |-> TRUE,
                     method   |-> request.method,
                     url      |-> request.url,
                     version  |-> request.version,
                     headers  |-> head.headers,
                     body     |-> rest.body,
                     consumed |-> rest.next - 1]
  BY ParserSteps, Zenon
<1>2. Eol(r) \in Nat /\ Len(t) \in Nat
  BY TextPositions, Zenon
<1>3. Blank(r) \in Nat /\ Len(r.body) \in 0 .. 9 /\ Size(r) = Blank(r) + Len(r.body)
  BY PositionTypes, Zenon DEF Text
<1>4. Blank(r) <= Len(t) /\ Eol(r) <= Len(t) /\ (Size(r) + 1) - 1 = Size(r)
  <2>1. Blank(r) = Eol(r) + 5 \/ Blank(r) = Eol(r) + 10
    BY HeaderPositions, Zenon
  <2> DEFINE l == Len(t)
             e == Eol(r)
             b == Blank(r)
             n == Len(r.body)
             size == Size(r)
  <2>2. /\ l \in Nat /\ e \in Nat /\ b \in Nat /\ n \in 0 .. 9 /\ size = b + n /\ l >= size
        /\ (b = e + 5 \/ b = e + 10)
    BY <1>2, <1>3, <2>1, Zenon
  <2> HIDE DEF l, e, b, n, size
  <2>3. b <= l /\ e <= l /\ (size + 1) - 1 = size
    BY <2>2
  <2> QED
    BY <2>3 DEF l, e, b, size
<1> HIDE DEF request
<1>5. /\ request.ok /\ request.method = r.method /\ request.url = Url(r, t)
      /\ request.next = Eol(r) + 1
  BY <1>4, RequestLineParsed, Zenon DEF request
<1>6. /\ head.ok /\ head.next = Blank(r) + 1
      /\ declared = IF r.body = <<>> THEN <<>> ELSE <<Digits[Len(r.body) + 1]>>
  BY <1>4, <1>5, HeadersParsed, Zenon
<1> HIDE DEF head, declared
<1>7. rest.ok /\ rest.body = r.body /\ rest.next = Size(r) + 1
  <2>1. CASE r.body = <<>>
    <3>1. declared = <<>>
      BY <1>6, <2>1, Zenon
    <3>2. Size(r) = Blank(r)
      <4>1. Len(<<>>) = 0
        OBVIOUS
      <4>2. Size(r) = Blank(r) + 0
        BY <1>3, <2>1, <4>1, Zenon
      <4> QED
        BY <1>3, <4>2
    <3>3. rest = [ok |-> TRUE, body |-> <<>>, next |-> head.next]
      BY <3>1, Zenon
    <3> HIDE DEF rest
    <3> QED
      BY <1>6, <2>1, <3>2, <3>3
  <2>2. CASE r.body # <<>>
    <3>1. declared = <<Digits[Len(r.body) + 1]>>
      BY <1>6, <2>2, Zenon
    <3>2. declared # <<>>
      <4>1. \A x : <<x>> # <<>>
        OBVIOUS
      <4> QED
        BY <3>1, <4>1, Zenon
    <3>3. rest = ParseBody(t, Blank(r) + 1, <<Digits[Len(r.body) + 1]>>)
      BY <1>6, <3>1, <3>2, Zenon
    <3> HIDE DEF rest
    <3> QED
      BY <1>4, <3>3, BodyRead, Zenon
  <2> QED
    BY <2>1, <2>2
<1> HIDE DEF rest
<1>8. Parser(t) = [ok       |-> TRUE,
                   method   |-> request.method,
                   url      |-> request.url,
                   version  |-> request.version,
                   headers  |-> head.headers,
                   body     |-> rest.body,
                   consumed |-> rest.next - 1]
  BY <1>1, <1>5, <1>6, <1>7, Zenon DEF rest, declared, head
<1> QED
  BY <1>4, <1>5, <1>7, <1>8

-----------------------------------------------------------------------------
(* The URL.                                                                 *)

\* u is the URL of r.
IsUrl(r, u) ==
  /\ r \in Request /\ u \in Seq(Symbol) /\ Len(u) = 4 * Len(r.params) + 1 /\ u[1] = r.path
  /\ \A k \in 1 .. Len(r.params) :
       /\ u[4 * k - 2] = Mark(k) /\ u[4 * k - 1] = r.params[k][1]
       /\ u[4 * k] = "=" /\ u[4 * k + 1] = r.params[k][2]

\* The URL of the request is.
LEMMA UrlRead ==
  ASSUME NEW r, NEW t, Text(r, t), Eol(r) <= Len(t)
  PROVE  IsUrl(r, Url(r, t))
<1> DEFINE m == Len(r.params)
           E == Eol(r)
           e == E - 3
           u == Url(r, t)
<1>1. r \in Request /\ t \in Seq(Symbol) /\ Reads(t, 3, r.path) /\ ParamsAt(r.params, t, 3)
  BY Zenon DEF Text, Spelled
<1>2. m \in Nat /\ E = 6 + 4 * m /\ Len(t) \in Nat /\ E <= Len(t)
  BY TextPositions, Zenon
<1> HIDE DEF m, E
<1>3. /\ 3 \in Nat \ {0} /\ e \in Nat /\ 3 <= e + 1 /\ e <= Len(t) /\ e + 1 - 3 = 4 * m + 1
      /\ 1 \in 1 .. 4 * m + 1 /\ 3 + 1 - 1 = 3 /\ 3 \in 1 .. Len(t)
  BY <1>2
<1>4. u = SubSeq(t, 3, e)
  BY Zenon DEF Url, E
<1> HIDE DEF e
<1>5. u \in Seq(Symbol) /\ Len(u) = 4 * m + 1 /\ \A i \in 1 .. 4 * m + 1 : u[i] = t[3 + i - 1]
  <2> DEFINE w == SubSeq(t, 3, e)
  <2>1. w \in Seq(Symbol) /\ Len(w) = e + 1 - 3 /\ \A i \in 1 .. e + 1 - 3 : w[i] = t[3 + i - 1]
    BY <1>1, <1>3, Cut
  <2> HIDE DEF w, u
  <2>2. w \in Seq(Symbol) /\ Len(w) = 4 * m + 1 /\ \A i \in 1 .. 4 * m + 1 : w[i] = t[3 + i - 1]
    BY <1>3, <2>1, Zenon
  <2> QED
    BY <1>4, <2>2, Zenon DEF w
<1> HIDE DEF u
<1>6. u[1] = r.path
  BY <1>1, <1>3, <1>5, Zenon DEF Reads
<1>7. ASSUME NEW k \in 1 .. m
      PROVE  /\ u[4 * k - 2] = Mark(k) /\ u[4 * k - 1] = r.params[k][1]
             /\ u[4 * k] = "=" /\ u[4 * k + 1] = r.params[k][2]
  <2>1. k \in Nat /\ 1 <= k /\ k <= m
    BY <1>2
  <2>2. /\ 4 * k - 2 \in 1 .. 4 * m + 1 /\ 4 * k - 1 \in 1 .. 4 * m + 1
        /\ 4 * k \in 1 .. 4 * m + 1 /\ 4 * k + 1 \in 1 .. 4 * m + 1
        /\ 3 + (4 * k - 2) - 1 = 3 + 4 * k - 3 /\ 3 + (4 * k - 1) - 1 = 3 + 4 * k - 2
        /\ 3 + (4 * k) - 1 = 3 + 4 * k - 1 /\ 3 + (4 * k + 1) - 1 = 3 + 4 * k
        /\ 3 + 4 * k - 3 \in 1 .. Len(t) /\ 3 + 4 * k - 2 \in 1 .. Len(t)
        /\ 3 + 4 * k - 1 \in 1 .. Len(t) /\ 3 + 4 * k \in 1 .. Len(t)
    BY <1>2, <2>1
  <2>3. /\ t[3 + 4 * k - 3] = Mark(k) /\ t[3 + 4 * k - 2] = r.params[k][1]
        /\ t[3 + 4 * k - 1] = "=" /\ t[3 + 4 * k] = r.params[k][2]
    BY <1>1, <2>2, Zenon DEF ParamsAt, Reads, m
  <2>4. /\ u[4 * k - 2] = t[3 + (4 * k - 2) - 1] /\ u[4 * k - 1] = t[3 + (4 * k - 1) - 1]
        /\ u[4 * k] = t[3 + (4 * k) - 1] /\ u[4 * k + 1] = t[3 + (4 * k + 1) - 1]
    BY <1>5, <2>2, Zenon
  <2> QED
    BY <2>2, <2>3, <2>4
<1> QED
  BY <1>1, <1>5, <1>6, <1>7, Zenon DEF IsUrl, u, m

\* What is used of a URL most.
LEMMA UrlFacts ==
  ASSUME NEW r, NEW u, IsUrl(r, u)
  PROVE  /\ u \in Seq(Symbol) /\ Len(u) = 4 * Len(r.params) + 1 /\ u[1] = r.path
         /\ Len(r.params) \in Nat
         /\ r.path # "?" /\ r.path \in Word
         /\ \A k \in 1 .. Len(r.params) :
              /\ r.params[k][1] \in Word /\ r.params[k][1] # "&" /\ r.params[k][1] # "="
              /\ r.params[k][2] \in Word /\ r.params[k][2] # "&"
<1>1. r \in Request /\ u \in Seq(Symbol) /\ Len(u) = 4 * Len(r.params) + 1 /\ u[1] = r.path
  BY Zenon DEF IsUrl
<1>2. /\ r.path \in Word /\ Len(r.params) \in Nat
      /\ \A k \in 1 .. Len(r.params) : r.params[k][1] \in Word /\ r.params[k][2] \in Word
  BY <1>1, RequestFields, Zenon
<1>3. \A w \in Word : w # "?" /\ w # "&" /\ w # "="
  BY WordSolid, Zenon DEF Separators
<1> QED
  BY <1>1, <1>2, <1>3, Zenon

\* The path is what is before the question mark.
LEMMA PathIs ==
  ASSUME NEW r, NEW u, IsUrl(r, u)
  PROVE  Path(u) = <<r.path>>
<1> DEFINE m == Len(r.params)
<1>1. u \in Seq(Symbol) /\ Len(u) = 4 * m + 1 /\ u[1] = r.path /\ m \in Nat /\ r.path # "?"
  BY UrlFacts, Zenon
<1>2. m # 0 => u[2] = "?"
  <2> SUFFICES ASSUME m # 0 PROVE u[2] = "?"
    OBVIOUS
  <2> HIDE DEF m
  <2>1. 1 \in 1 .. m /\ 4 * 1 - 2 = 2
    BY <1>1
  <2>2. u[4 * 1 - 2] = Mark(1)
    BY <2>1, Zenon DEF IsUrl, m
  <2> QED
    BY <2>1, <2>2 DEF Mark
<1> HIDE DEF m
<1>3. Len(u) \in Nat /\ 1 \in 1 .. Len(u)
  BY <1>1
<1>4. SubSeq(u, 1, 1) = <<r.path>>
  BY <1>1, <1>3, CutOne
<1>5. CASE m = 0
  <2>1. Len(u) = 1 /\ \A i \in 1 .. Len(u) : i = 1
    BY <1>1, <1>5
  <2>2. \A i \in 1 .. Len(u) : u[i] # "?"
    BY <1>1, <2>1, Zenon
  <2>3. Find(u, "?", 1) = 0
    BY <2>2, FindNone, Zenon
  <2>4. u = SubSeq(u, 1, 1)
    <3>1. \A v \in Seq(Symbol) : SubSeq(v, 1, Len(v)) = v
      OBVIOUS
    <3> QED
      BY <1>1, <2>1, <3>1, Zenon
  <2> QED
    BY <1>4, <2>3, <2>4, Zenon DEF Path
<1>6. CASE m # 0
  <2>1. 2 \in 1 .. Len(u) /\ \A i \in 1 .. 2 - 1 : i = 1
    BY <1>1, <1>6
  <2>2. Find(u, "?", 1) = 2
    <3>1. 1 \in Nat /\ \A i \in 1 .. 2 - 1 : u[i] # "?"
      BY <1>1, <2>1, Zenon
    <3>2. u[2] = "?"
      BY <1>2, <1>6
    <3> QED
      BY <1>3, <2>1, <3>1, <3>2, FindIs
  <2>3. 2 # 0 /\ 2 - 1 = 1
    OBVIOUS
  <2> QED
    BY <1>4, <2>2, <2>3, Zenon DEF Path
<1> QED
  BY <1>5, <1>6

\* q is the query of r.
IsQuery(r, q) ==
  /\ r \in Request /\ q \in Seq(Symbol)
  /\ Len(q) = IF Len(r.params) = 0 THEN 0 ELSE 4 * Len(r.params) - 1
  /\ \A k \in 1 .. Len(r.params) :
       /\ q[4 * k - 3] = r.params[k][1] /\ q[4 * k - 2] = "=" /\ q[4 * k - 1] = r.params[k][2]
       /\ k < Len(r.params) => q[4 * k] = "&"

\* What is behind the question mark is.
LEMMA QueryRead ==
  ASSUME NEW r, NEW u, IsUrl(r, u)
  PROVE  IsQuery(r, Query(u))
<1> DEFINE m == Len(r.params)
           n == Len(u)
           q == Query(u)
<1>1. /\ u \in Seq(Symbol) /\ n = 4 * m + 1 /\ m \in Nat /\ u[1] = r.path /\ r.path # "?"
  BY UrlFacts, Zenon
<1>r. r \in Request
  BY Zenon DEF IsUrl
<1>2. \A k \in 1 .. m :
        /\ u[4 * k - 2] = Mark(k) /\ u[4 * k - 1] = r.params[k][1]
        /\ u[4 * k] = "=" /\ u[4 * k + 1] = r.params[k][2]
  BY Zenon DEF IsUrl
<1> HIDE DEF m, n
<1>3. CASE m = 0
  <2>1. \A i \in 1 .. n : i = 1
    BY <1>1, <1>3
  <2>2. \A i \in 1 .. Len(u) : u[i] # "?"
    BY <1>1, <2>1, Zenon DEF n
  <2>3. Find(u, "?", 1) = 0
    BY <2>2, FindNone, Zenon
  <2>4. q = <<>>
    BY <2>3, Zenon DEF Query
  <2>5. <<>> \in Seq(Symbol) /\ Len(<<>>) = 0 /\ \A k \in 1 .. m : FALSE
    BY <1>3
  <2> HIDE DEF q
  <2>6. IsQuery(r, q)
    BY <1>3, <1>r, <2>4, <2>5, Zenon DEF IsQuery, m
  <2> QED
    BY <2>6 DEF q
<1>4. CASE m # 0
  <2>1. 1 \in 1 .. m /\ 4 * 1 - 2 = 2 /\ 2 \in 1 .. n /\ n \in Nat /\ 1 \in Nat
        /\ \A i \in 1 .. 2 - 1 : i = 1
    BY <1>1, <1>4
  <2>2. u[2] = "?"
    <3>1. u[4 * 1 - 2] = Mark(1)
      BY <1>2, <2>1, Zenon
    <3> QED
      BY <2>1, <3>1 DEF Mark
  <2>3. \A i \in 1 .. 2 - 1 : u[i] # "?"
    BY <1>1, <2>1, Zenon
  <2>4. Find(u, "?", 1) = 2
    <3>1. Len(u) \in Nat /\ 2 \in 1 .. Len(u)
      BY <2>1 DEF n
    <3> QED
      BY <2>1, <2>2, <2>3, <3>1, FindIs
  <2>5. q = SubSeq(u, 3, n)
    <3>1. 2 # 0 /\ 2 + 1 = 3
      OBVIOUS
    <3> QED
      BY <2>4, <3>1, Zenon DEF Query, n
  <2>6. /\ 3 \in Nat \ {0} /\ n \in Nat /\ 3 <= n + 1 /\ n <= Len(u) /\ n + 1 - 3 = 4 * m - 1
    BY <1>1, <1>4 DEF n
  <2>7. q \in Seq(Symbol) /\ Len(q) = 4 * m - 1 /\ \A i \in 1 .. 4 * m - 1 : q[i] = u[3 + i - 1]
    <3> DEFINE a == 3
               w == SubSeq(u, a, n)
    <3>0. a \in Nat \ {0} /\ n \in Nat /\ a <= n + 1 /\ n <= Len(u)
      BY <2>6
    <3> HIDE DEF a
    <3>1. w \in Seq(Symbol) /\ Len(w) = n + 1 - a /\ \A i \in 1 .. n + 1 - a : w[i] = u[a + i - 1]
      BY <1>1, <3>0, Cut
    <3> HIDE DEF w, q
    <3>2. w \in Seq(Symbol) /\ Len(w) = 4 * m - 1 /\ \A i \in 1 .. 4 * m - 1 : w[i] = u[3 + i - 1]
      BY <2>6, <3>1, Zenon DEF a
    <3> QED
      BY <2>5, <3>2, Zenon DEF w, a
  <2> HIDE DEF q
  <2>8. ASSUME NEW k \in 1 .. m
        PROVE  /\ q[4 * k - 3] = r.params[k][1] /\ q[4 * k - 2] = "=" /\ q[4 * k - 1] = r.params[k][2]
               /\ k < m => q[4 * k] = "&"
    <3>1. k \in Nat /\ 1 <= k /\ k <= m
      BY <1>1
    <3>2. /\ 4 * k - 3 \in 1 .. 4 * m - 1 /\ 4 * k - 2 \in 1 .. 4 * m - 1 /\ 4 * k - 1 \in 1 .. 4 * m - 1
          /\ 3 + (4 * k - 3) - 1 = 4 * k - 1 /\ 3 + (4 * k - 2) - 1 = 4 * k
          /\ 3 + (4 * k - 1) - 1 = 4 * k + 1
      BY <1>1, <3>1
    <3>3. /\ q[4 * k - 3] = u[3 + (4 * k - 3) - 1] /\ q[4 * k - 2] = u[3 + (4 * k - 2) - 1]
          /\ q[4 * k - 1] = u[3 + (4 * k - 1) - 1]
      BY <2>7, <3>2, Zenon
    <3>4. /\ u[4 * k - 1] = r.params[k][1] /\ u[4 * k] = "=" /\ u[4 * k + 1] = r.params[k][2]
      BY <1>2, Zenon
    <3>5. q[4 * k - 3] = r.params[k][1] /\ q[4 * k - 2] = "=" /\ q[4 * k - 1] = r.params[k][2]
      BY <3>2, <3>3, <3>4
    <3>6. ASSUME k < m PROVE q[4 * k] = "&"
      <4>1. /\ 4 * k \in 1 .. 4 * m - 1 /\ 3 + (4 * k) - 1 = 4 * (k + 1) - 2 /\ k + 1 \in 1 .. m
            /\ k + 1 # 1
        BY <1>1, <3>1, <3>6
      <4>2. q[4 * k] = u[3 + (4 * k) - 1]
        BY <2>7, <4>1, Zenon
      <4>3. u[4 * (k + 1) - 2] = Mark(k + 1)
        BY <1>2, <4>1, Zenon
      <4>4. Mark(k + 1) = "&"
        BY <4>1, Zenon DEF Mark
      <4> QED
        BY <4>1, <4>2, <4>3, <4>4
    <3> QED
      BY <3>5, <3>6
  <2>9. IsQuery(r, q)
    BY <1>4, <1>r, <2>7, <2>8, Zenon DEF IsQuery, m
  <2> QED
    BY <2>9 DEF q
<1> QED
  BY <1>3, <1>4

\* Where a parameter begins and ends, and what is around its "=".
ParamBegins(q, i) == i = 1 \/ q[i - 1] = "&"
Stop(q, i) == LET amp == Find(q, "&", i) IN IF amp = 0 THEN Len(q) + 1 ELSE amp
ParamAt(q, i) == SubSeq(q, i, Stop(q, i) - 1)
EqAt(q, i) == Find(ParamAt(q, i), "=", 1)
NameAt(q, i) == SubSeq(ParamAt(q, i), 1, EqAt(q, i) - 1)
GivenAt(q, i) == SubSeq(ParamAt(q, i), EqAt(q, i) + 1, Len(ParamAt(q, i)))
Params(q) == {i \in DOMAIN q : ParamBegins(q, i) /\ EqAt(q, i) # 0}

\* Every parameter is read as it was written.
LEMMA ParamRead ==
  ASSUME NEW r, NEW q, IsQuery(r, q), NEW k \in 1 .. Len(r.params)
  PROVE  /\ 4 * k - 3 \in DOMAIN q /\ ParamBegins(q, 4 * k - 3) /\ EqAt(q, 4 * k - 3) = 2
         /\ NameAt(q, 4 * k - 3) = <<r.params[k][1]>>
         /\ GivenAt(q, 4 * k - 3) = <<r.params[k][2]>>
<1> DEFINE m == Len(r.params)
           i == 4 * k - 3
           v == ParamAt(q, i)
           name == r.params[k][1]
           value == r.params[k][2]
<1>1. r \in Request /\ q \in Seq(Symbol) /\ Len(q) = IF m = 0 THEN 0 ELSE 4 * m - 1
  BY Zenon DEF IsQuery
<1>2. \A j \in 1 .. m :
        /\ q[4 * j - 3] = r.params[j][1] /\ q[4 * j - 2] = "=" /\ q[4 * j - 1] = r.params[j][2]
        /\ j < m => q[4 * j] = "&"
  BY Zenon DEF IsQuery
<1>3. m \in Nat /\ name \in Word /\ value \in Word
  BY <1>1, RequestFields, Zenon
<1>4. name # "&" /\ name # "=" /\ value # "&" /\ "=" # "&"
  BY <1>3, WordSolid, Separate, Zenon DEF Separators
<1>5. k \in Nat /\ 1 <= k /\ k <= m /\ m # 0
  BY <1>3
<1>6. q[i] = name /\ q[4 * k - 2] = "=" /\ q[4 * k - 1] = value /\ (k < m => q[4 * k] = "&")
  BY <1>2, Zenon
<1> HIDE DEF m, name, value
<1>7. Len(q) = 4 * m - 1
  BY <1>1, <1>5, Zenon
<1>8. /\ Len(q) \in Nat /\ DOMAIN q = 1 .. Len(q) /\ i \in 1 .. Len(q) /\ i \in Nat \ {0}
      /\ i + 1 = 4 * k - 2 /\ i + 2 = 4 * k - 1 /\ i + 3 = 4 * k /\ i + 2 <= Len(q)
      /\ \A j \in i .. i + 2 : j = i \/ j = i + 1 \/ j = i + 2
  BY <1>1, <1>3, <1>5, <1>7
<1> HIDE DEF i
<1>9. \A j \in i .. i + 2 : q[j] # "&"
  BY <1>4, <1>6, <1>8, Zenon
<1>10. Stop(q, i) = i + 3
  <2>1. CASE k < m
    <3>1. i \in Nat /\ i + 3 \in i .. Len(q) /\ i + 3 # 0 /\ \A j \in i .. (i + 3) - 1 : j \in i .. i + 2
      BY <1>3, <1>5, <1>7, <1>8, <2>1
    <3>2. q[i + 3] = "&"
      BY <1>6, <1>8, <2>1
    <3>3. Find(q, "&", i) = i + 3
      BY <1>8, <1>9, <3>1, <3>2, FindIs
    <3> QED
      BY <3>1, <3>3, Zenon DEF Stop
  <2>2. CASE ~(k < m)
    <3>1. Len(q) = i + 2 /\ Len(q) + 1 = i + 3
      BY <1>3, <1>5, <1>7, <1>8, <2>2
    <3>2. Find(q, "&", i) = 0
      BY <1>9, <3>1, FindNone, Zenon
    <3> QED
      BY <3>1, <3>2, Zenon DEF Stop
  <2> QED
    BY <2>1, <2>2
<1> DEFINE e == i + 2
<1>11. v = SubSeq(q, i, e)
  <2>1. (i + 3) - 1 = e
    BY <1>8
  <2> QED
    BY <1>10, <2>1, Zenon DEF ParamAt
<1>12. /\ v \in Seq(Symbol) /\ Len(v) = 3 /\ v[1] = name /\ v[2] = "=" /\ v[3] = value
  <2>1. /\ e \in Nat /\ i <= e + 1 /\ e <= Len(q) /\ e + 1 - i = 3
        /\ i + 1 - 1 = i /\ i + 2 - 1 = i + 1 /\ i + 3 - 1 = i + 2
        /\ 1 \in 1 .. 3 /\ 2 \in 1 .. 3 /\ 3 \in 1 .. 3
    BY <1>8
  <2> HIDE DEF e
  <2> DEFINE w == SubSeq(q, i, e)
  <2>2. w \in Seq(Symbol) /\ Len(w) = e + 1 - i /\ \A j \in 1 .. e + 1 - i : w[j] = q[i + j - 1]
    BY <1>1, <1>8, <2>1, Cut
  <2> HIDE DEF w, v
  <2>3. w \in Seq(Symbol) /\ Len(w) = 3 /\ \A j \in 1 .. 3 : w[j] = q[i + j - 1]
    BY <2>1, <2>2, Zenon
  <2>4. w[1] = q[i + 1 - 1] /\ w[2] = q[i + 2 - 1] /\ w[3] = q[i + 3 - 1]
    BY <2>1, <2>3, Zenon
  <2>5. w[1] = q[i] /\ w[2] = q[i + 1] /\ w[3] = q[i + 2]
    BY <2>1, <2>4
  <2>6. q[i] = name /\ q[i + 1] = "=" /\ q[i + 2] = value
    BY <1>6, <1>8
  <2> QED
    BY <1>11, <2>3, <2>5, <2>6, Zenon DEF w
<1> HIDE DEF v
<1>13. EqAt(q, i) = 2
  <2>1. 1 \in Nat /\ Len(v) \in Nat /\ 2 \in 1 .. Len(v) /\ v[2] = "=" /\ \A j \in 1 .. 2 - 1 : v[j] # "="
    BY <1>4, <1>12
  <2>2. Find(v, "=", 1) = 2
    BY <2>1, FindIs
  <2> QED
    BY <2>2 DEF EqAt, v
<1>14. SubSeq(v, 1, 1) = <<name>> /\ SubSeq(v, 3, 3) = <<value>>
  <2>1. 1 \in 1 .. Len(v) /\ 3 \in 1 .. Len(v)
    BY <1>12
  <2>2. SubSeq(v, 1, 1) = <<v[1]>> /\ SubSeq(v, 3, 3) = <<v[3]>>
    BY <1>12, <2>1, CutOne
  <2> QED
    BY <1>12, <2>2
<1>15. NameAt(q, i) = <<name>> /\ GivenAt(q, i) = <<value>>
  <2>1. 2 - 1 = 1 /\ 2 + 1 = 3
    OBVIOUS
  <2> QED
    BY <1>12, <1>13, <1>14, <2>1, Zenon DEF NameAt, GivenAt, v
<1>16. ParamBegins(q, i)
  <2>1. CASE k = 1
    <3>1. i = 1
      BY <2>1 DEF i
    <3> QED
      BY <3>1 DEF ParamBegins
  <2>2. CASE k # 1
    <3>1. k - 1 \in 1 .. m /\ k - 1 < m /\ i - 1 = 4 * (k - 1)
      BY <1>3, <1>5, <2>2 DEF i
    <3>2. q[4 * (k - 1)] = "&"
      BY <1>2, <3>1, Zenon
    <3> QED
      BY <3>1, <3>2 DEF ParamBegins
  <2> QED
    BY <2>1, <2>2
<1> QED
  BY <1>8, <1>13, <1>15, <1>16, Zenon DEF i, name, value

\* There are no other parameters.
LEMMA ParamsAre ==
  ASSUME NEW r, NEW q, IsQuery(r, q)
  PROVE  Params(q) = {4 * k - 3 : k \in 1 .. Len(r.params)}
<1> DEFINE m == Len(r.params)
<1>1. r \in Request /\ q \in Seq(Symbol) /\ Len(q) = IF m = 0 THEN 0 ELSE 4 * m - 1
  BY Zenon DEF IsQuery
<1>2. \A j \in 1 .. m :
        /\ q[4 * j - 3] = r.params[j][1] /\ q[4 * j - 2] = "=" /\ q[4 * j - 1] = r.params[j][2]
        /\ j < m => q[4 * j] = "&"
  BY Zenon DEF IsQuery
<1>3. m \in Nat /\ \A j \in 1 .. m : r.params[j][1] \in Word /\ r.params[j][2] \in Word
  BY <1>1, RequestFields, Zenon
<1>4. "=" # "&" /\ \A w \in Word : w # "&"
  BY WordSolid, Separate, Zenon DEF Separators
<1> HIDE DEF m
<1>5. ASSUME NEW k \in 1 .. m PROVE 4 * k - 3 \in Params(q)
  <2>1. 2 # 0
    OBVIOUS
  <2>2. 4 * k - 3 \in DOMAIN q /\ ParamBegins(q, 4 * k - 3) /\ EqAt(q, 4 * k - 3) = 2
    BY ParamRead, Zenon DEF m
  <2> QED
    BY <2>1, <2>2, Zenon DEF Params
<1>6. ASSUME NEW i \in Params(q) PROVE \E k \in 1 .. m : i = 4 * k - 3
  <2>1. i \in DOMAIN q /\ ParamBegins(q, i)
    BY Zenon DEF Params
  <2>2. m # 0
    <3> SUFFICES ASSUME m = 0 PROVE FALSE
      OBVIOUS
    <3>1. Len(q) = 0
      BY <1>1, Zenon
    <3> QED
      BY <1>1, <2>1, <3>1
  <2>3. Len(q) = 4 * m - 1
    BY <1>1, <2>2, Zenon
  <2>4. i \in 1 .. 4 * m - 1
    BY <1>1, <1>3, <2>1, <2>3
  <2>5. CASE i = 1
    <3>1. 1 \in 1 .. m /\ i = 4 * 1 - 3
      BY <1>3, <2>2, <2>5
    <3> QED
      BY <3>1
  <2>6. CASE i # 1
    <3>1. q[i - 1] = "&"
      BY <2>1, <2>6, Zenon DEF ParamBegins
    <3>2. i - 1 \in 1 .. 4 * m
      BY <1>3, <2>4, <2>6
    <3>3. PICK k \in 1 .. m : i - 1 \in {4 * k - 3, 4 * k - 2, 4 * k - 1, 4 * k}
      BY <1>3, <3>2, Quarter
    <3>4. i - 1 = 4 * k
      BY <1>2, <1>3, <1>4, <3>1, <3>3, Zenon
    <3>5. k + 1 \in 1 .. m /\ i = 4 * (k + 1) - 3
      BY <1>3, <2>4, <3>4
    <3> QED
      BY <3>5
  <2> QED
    BY <2>5, <2>6
<1>7. Params(q) = {4 * k - 3 : k \in 1 .. m}
  BY <1>5, <1>6, Zenon
<1> QED
  BY <1>7 DEF m

\* A set of numbers up to n that has any has a greatest.
LEMMA Greatest ==
  ASSUME NEW n \in Nat, NEW D, D \subseteq 1 .. n, D # {}
  PROVE  \E x \in D : \A y \in D : x >= y
<1> DEFINE Below == {p \in Nat \X Nat : p[1] < p[2]}
           F == {d \in Nat : n - d \in D}
<1>1. F # {} /\ F \subseteq Nat
  <2>1. PICK x \in D : TRUE
    OBVIOUS
  <2>2. n - x \in Nat /\ n - (n - x) = x
    BY <2>1
  <2> QED
    BY <2>1, <2>2
<1>2. \E d \in F : \A c \in F : ~(<<c, d>> \in Below)
  <2> HIDE DEF F, Below
  <2> QED
    BY <1>1, Descent, WFMin DEF Below
<1>3. PICK d \in F : \A c \in F : ~(c < d)
  BY <1>2
<1>4. n - d \in D /\ d \in Nat
  BY <1>3
<1>5. ASSUME NEW y \in D PROVE n - d >= y
  <2>1. n - y \in F
    <3>1. n - y \in Nat /\ n - (n - y) = y
      OBVIOUS
    <3> QED
      BY <3>1
  <2>2. ~(n - y < d) /\ y \in Nat
    BY <1>3, <2>1
  <2> QED
    BY <1>4, <2>2
<1> QED
  BY <1>4, <1>5

\* Of a parameter the last value is read, and of one that is not there nothing.
LEMMA UrlParamIs ==
  ASSUME NEW r, NEW u, IsUrl(r, u), NEW key
  PROVE  /\ Given(r, key) => UrlParam(u, <<key>>) = <<Value(r, key)>>
         /\ ~Given(r, key) => UrlParam(u, <<key>>) = <<>>
         /\ Given(r, key) => Value(r, key) \in Word
<1> DEFINE m == Len(r.params)
           q == Query(u)
           params == Params(q)
           D == {i \in DOMAIN r.params : r.params[i][1] = key}
           f == [k \in {NameAt(q, i) : i \in params} |->
                  GivenAt(q, Max({i \in params : NameAt(q, i) = k}))]
<1>1. IsQuery(r, q)
  BY QueryRead
<1>2. r \in Request
  BY Zenon DEF IsUrl
<1>3. r.params \in Seq(Word \X Word) /\ m \in Nat /\ \A k \in 1 .. m : r.params[k][2] \in Word
  BY <1>2, RequestFields, Zenon
<1>4. DOMAIN r.params = 1 .. m
  BY <1>3
<1>5. ParseQuery(u) = f
  BY Zenon DEF ParseQuery, ParamBegins, Stop, ParamAt, EqAt, NameAt, GivenAt, Params
<1>6. params = {4 * k - 3 : k \in 1 .. m}
  BY <1>1, ParamsAre
<1>7. \A k \in 1 .. m : NameAt(q, 4 * k - 3) = <<r.params[k][1]>> /\ GivenAt(q, 4 * k - 3) = <<r.params[k][2]>>
  BY <1>1, ParamRead, Zenon
<1>8. \A a, b : <<a>> = <<b>> => a = b
  <2> SUFFICES ASSUME NEW a, NEW b, <<a>> = <<b>> PROVE a = b
    OBVIOUS
  <2>1. <<a>>[1] = a /\ <<b>>[1] = b
    OBVIOUS
  <2> QED
    BY <2>1
<1>9. DOMAIN f = {NameAt(q, i) : i \in params}
  OBVIOUS
<1>10. Given(r, key) <=> \E k \in 1 .. m : r.params[k][1] = key
  BY <1>4, Zenon DEF Given
<1> HIDE DEF m, q, params, f
<1>11. CASE ~Given(r, key)
  <2>1. <<key>> \notin DOMAIN f
    <3> SUFFICES ASSUME <<key>> \in DOMAIN f PROVE FALSE
      OBVIOUS
    <3>1. PICK i \in params : NameAt(q, i) = <<key>>
      BY <1>9, Zenon
    <3>2. PICK k \in 1 .. m : i = 4 * k - 3
      BY <1>6, Zenon
    <3>3. <<r.params[k][1]>> = <<key>>
      BY <1>7, <3>1, <3>2, Zenon
    <3>4. r.params[k][1] = key
      BY <1>8, <3>3, Zenon
    <3> QED
      BY <1>10, <1>11, <3>4, Zenon
  <2> QED
    BY <1>5, <1>11, <2>1, Zenon DEF UrlParam, Header
<1>12. CASE Given(r, key)
  <2>1. D # {} /\ D \subseteq 1 .. m
    BY <1>4, <1>10, <1>12, Zenon
  <2> HIDE DEF D
  <2>2. PICK x \in D : \A y \in D : x >= y
    BY <1>3, <2>1, Greatest
  <2>3. D \subseteq Nat
    <3>1. \A y \in 1 .. m : y \in Nat
      BY <1>3
    <3> QED
      BY <2>1, <3>1, Zenon
  <2>4. Max(D) = x
    BY <2>2, <2>3, MaxIs
  <2>5. x \in 1 .. m /\ r.params[x][1] = key
    BY <2>1, Zenon DEF D
  <2>6. Value(r, key) = r.params[x][2]
    BY <2>4, Zenon DEF Value, D
  <2>7. <<key>> \in DOMAIN f
    BY <1>6, <1>7, <1>9, <2>5, Zenon
  <2> DEFINE P == {i \in params : NameAt(q, i) = <<key>>}
             z == 4 * x - 3
  <2>8. z \in P
    BY <1>6, <1>7, <2>5, Zenon
  <2>9. P \subseteq Nat /\ \A i \in P : z >= i
    <3> SUFFICES ASSUME NEW i \in P PROVE i \in Nat /\ z >= i
      OBVIOUS
    <3>1. PICK k \in 1 .. m : i = 4 * k - 3
      BY <1>6, Zenon
    <3>2. r.params[k][1] = key
      <4>1. NameAt(q, i) = <<key>>
        BY Zenon
      <4> QED
        BY <1>7, <1>8, <3>1, <4>1, Zenon
    <3>3. k \in D
      BY <1>4, <3>2, Zenon DEF D
    <3>4. x >= k /\ x \in Nat
      BY <2>2, <2>3, <3>3
    <3> QED
      BY <1>3, <3>1, <3>4
  <2> HIDE DEF P, z
  <2>10. Max(P) = z
    BY <2>8, <2>9, MaxIs
  <2>11. f[<<key>>] = GivenAt(q, Max(P))
    BY <1>9, <2>7, Zenon DEF f, P
  <2>12. f[<<key>>] = <<r.params[x][2]>>
    BY <1>7, <2>5, <2>10, <2>11, Zenon DEF z
  <2>13. UrlParam(u, <<key>>) = <<Value(r, key)>>
    BY <1>5, <2>6, <2>7, <2>12, Zenon DEF UrlParam, Header
  <2>14. Value(r, key) \in Word
    BY <1>3, <2>5, <2>6, Zenon
  <2> QED
    BY <1>12, <2>13, <2>14
<1> QED
  BY <1>11, <1>12

-----------------------------------------------------------------------------
(* The handlers.                                                            *)

\* One symbol is told from another.
LEMMA OneSymbol ==
  /\ \A a : <<a>> # <<>> /\ Head(<<a>>) = a
  /\ \A a, b : <<a>> = <<b>> => a = b
<1>1. \A a : <<a>> # <<>> /\ Head(<<a>>) = a
  OBVIOUS
<1>2. ASSUME NEW a, NEW b, <<a>> = <<b>> PROVE a = b
  <2>1. <<a>>[1] = a /\ <<b>>[1] = b
    OBVIOUS
  <2> QED
    BY <1>2, <2>1
<1> QED
  BY <1>1, <1>2, Zenon

\* Four symbols, and each of them.
LEMMA FourSymbols ==
  \A a, b, c, d, w, x, y, z : <<a, b, c, d>> = <<w, x, y, z>> => a = w /\ b = x /\ c = y /\ d = z
<1> SUFFICES ASSUME NEW a, NEW b, NEW c, NEW d, NEW w, NEW x, NEW y, NEW z,
                    <<a, b, c, d>> = <<w, x, y, z>>
             PROVE  a = w /\ b = x /\ c = y /\ d = z
  OBVIOUS
<1> DEFINE p == <<a, b, c, d>>
           q == <<w, x, y, z>>
<1>1. p[1] = a /\ p[2] = b /\ p[3] = c /\ p[4] = d
  OBVIOUS
<1>2. q[1] = w /\ q[2] = x /\ q[3] = y /\ q[4] = z
  OBVIOUS
<1>3. p = q
  OBVIOUS
<1> HIDE DEF p, q
<1> QED
  BY <1>1, <1>2, <1>3

\* A text and one more symbol.
LEMMA OneMore ==
  ASSUME NEW S, NEW v \in Seq(S), NEW x \in S, NEW more, more = v \o <<x>>
  PROVE  /\ more \in Seq(S) /\ Len(more) = Len(v) + 1 /\ more[Len(v) + 1] = x
         /\ \A i \in 1 .. Len(v) : more[i] = v[i]
<1> DEFINE w == <<x>>
<1>1. w \in Seq(S) /\ Len(w) = 1 /\ w[1] = x /\ 1 \in 1 .. 1
  OBVIOUS
<1> HIDE DEF w
<1>2. Joins(S)
  BY Joined
<1>3. /\ v \o w \in Seq(S) /\ Len(v \o w) = Len(v) + Len(w) /\ (v \o w)[Len(v) + 1] = w[1]
      /\ \A i \in 1 .. Len(v) : (v \o w)[i] = v[i]
  <2>1. /\ v \o w \in Seq(S) /\ Len(v \o w) = Len(v) + Len(w)
        /\ \A i \in 1 .. Len(v) : (v \o w)[i] = v[i]
        /\ \A i \in 1 .. Len(w) : (v \o w)[Len(v) + i] = w[i]
    BY <1>1, <1>2, Zenon DEF Joins
  <2>2. 1 \in 1 .. Len(w)
    BY <1>1
  <2> QED
    BY <2>1, <2>2, Zenon
<1> QED
  BY <1>1, <1>3 DEF w

\* One symbol behind the other.
LEMMA PutTogether ==
  ASSUME NEW a, NEW b, NEW c, NEW d
  PROVE  /\ <<a>> \o <<b>> = <<a, b>>
         /\ <<a>> \o <<b>> \o <<c>> \o <<d>> = <<a, b, c, d>>
<1> DEFINE S == {a, b, c, d}
           two == <<a>> \o <<b>>
           three == two \o <<c>>
           four == three \o <<d>>
<1>1. <<a>> \in Seq(S) /\ <<b>> \in Seq(S) /\ c \in S /\ d \in S
  OBVIOUS
<1> HIDE DEF S
<1>2. two \in Seq(S) /\ Len(two) = 2 /\ two[1] = a /\ two[2] = b
  BY <1>1
<1>3. <<a, b>> \in Seq(S) /\ Len(<<a, b>>) = 2 /\ <<a, b>>[1] = a /\ <<a, b>>[2] = b
  BY DEF S
<1> HIDE DEF two
<1>4. three \in Seq(S) /\ Len(three) = 3 /\ three[1] = a /\ three[2] = b /\ three[3] = c
  <2>1. /\ three \in Seq(S) /\ Len(three) = Len(two) + 1 /\ three[Len(two) + 1] = c
        /\ \A i \in 1 .. Len(two) : three[i] = two[i]
    <3>1. three = two \o <<c>>
      OBVIOUS
    <3> HIDE DEF three
    <3> QED
      BY <1>1, <1>2, <3>1, OneMore
  <2> HIDE DEF three
  <2>2. 2 + 1 = 3 /\ 1 \in 1 .. 2 /\ 2 \in 1 .. 2
    OBVIOUS
  <2> QED
    BY <1>2, <2>1, <2>2
<1> HIDE DEF three
<1>5. /\ four \in Seq(S) /\ Len(four) = 4
      /\ four[1] = a /\ four[2] = b /\ four[3] = c /\ four[4] = d
  <2>1. /\ four \in Seq(S) /\ Len(four) = Len(three) + 1 /\ four[Len(three) + 1] = d
        /\ \A i \in 1 .. Len(three) : four[i] = three[i]
    <3>1. four = three \o <<d>>
      OBVIOUS
    <3> HIDE DEF four
    <3> QED
      <4>1. three \in Seq(S) /\ d \in S
        BY <1>1, <1>4
      <4> QED
        BY <3>1, <4>1, OneMore
  <2> HIDE DEF four
  <2>2. 3 + 1 = 4 /\ 1 \in 1 .. 3 /\ 2 \in 1 .. 3 /\ 3 \in 1 .. 3
    OBVIOUS
  <2> QED
    BY <1>4, <2>1, <2>2
<1> HIDE DEF four
<1> DEFINE w == <<a, b, c, d>>
           v == <<a, b>>
<1>6. w \in Seq(S) /\ Len(w) = 4 /\ w[1] = a /\ w[2] = b /\ w[3] = c /\ w[4] = d
  BY DEF S
<1>7. v \in Seq(S) /\ Len(v) = 2 /\ v[1] = a /\ v[2] = b
  BY <1>3
<1> HIDE DEF w, v
<1>8. two = v
  <2>1. \A i \in 1 .. Len(two) : two[i] = v[i]
    BY <1>2, <1>7
  <2> QED
    BY <1>2, <1>7, <2>1, SameElements
<1>9. four = w
  <2>1. \A i \in 1 .. Len(four) : four[i] = w[i]
    BY <1>5, <1>6
  <2> QED
    BY <1>5, <1>6, <2>1, SameElements
<1> QED
  BY <1>8, <1>9 DEF two, three, four, v, w

\* What the code answers to a login that is earned, and to one that is not.
LEMMA LoginAnswer ==
  ASSUME NEW r, NEW u, IsUrl(r, u), IsLogin(r), IsLookedUp(r), NEW db
  PROVE  /\ db # NoUser /\ IsGoodLogin(r) =>
              HandleLogin(u, db) = IF Value(r, "user") \in NotUtf8 \/ Value(r, "time") \in NotUtf8
                                     THEN NoResponse ELSE 200
         /\ ~(db # NoUser /\ IsGoodLogin(r)) => HandleLogin(u, db) \in {400, 403, 404, 500}
<1> DEFINE user == UrlParam(u, <<"user">>)
           time == UrlParam(u, <<"time">>)
           salt == UrlParam(u, <<"salt">>)
           sign == UrlParam(u, <<"sign">>)
           P == Selected(Head(user), db)
           U == Value(r, "user")
           T == Value(r, "time")
           S == Value(r, "salt")
           G == Value(r, "sign")
           all == \A key \in LoginKeys : Given(r, key)
           answer_ == HandleLogin(u, db)
<1>1. \A key : /\ Given(r, key) => UrlParam(u, <<key>>) = <<Value(r, key)>>
               /\ ~Given(r, key) => UrlParam(u, <<key>>) = <<>>
               /\ Given(r, key) => Value(r, key) \in Word
  BY UrlParamIs, Zenon
<1> DEFINE bad == <<>> \in {user, time, salt, sign}
           unknown == P = NoUser
           none == P = NoPassword
           signed == <<MD5(user \o time \o <<P>> \o salt)>> = sign
           known == ~bad /\ ~unknown /\ ~none
<1>2. /\ bad => answer_ = 400
      /\ ~bad /\ unknown => answer_ = 404
      /\ ~bad /\ ~unknown /\ none => answer_ = 500
      /\ known /\ ~signed => answer_ = 403
      /\ known /\ signed => answer_ = MakeResponse(200, user \o time)
  <2>1. answer_ = IF bad THEN 400
                  ELSE IF unknown THEN 404
                  ELSE IF none THEN 500
                  ELSE IF ~signed THEN 403
                  ELSE MakeResponse(200, user \o time)
    BY Zenon DEF HandleLogin
  <2> DEFINE response == MakeResponse(200, user \o time)
  <2> HIDE DEF answer_, bad, unknown, none, signed, response
  <2>2. answer_ = IF bad THEN 400
                  ELSE IF unknown THEN 404
                  ELSE IF none THEN 500
                  ELSE IF ~signed THEN 403
                  ELSE response
    BY <2>1, Zenon DEF response
  <2>3. /\ bad => answer_ = 400
        /\ ~bad /\ unknown => answer_ = 404
        /\ ~bad /\ ~unknown /\ none => answer_ = 500
        /\ known /\ ~signed => answer_ = 403
        /\ known /\ signed => answer_ = response
    BY <2>2
  <2> QED
    BY <2>3, Zenon DEF response
<1>3. all <=> Given(r, "user") /\ Given(r, "time") /\ Given(r, "salt") /\ Given(r, "sign")
  BY Zenon DEF LoginKeys
<1>4. IsGoodLogin(r) <=> /\ all /\ U \in Signers /\ U \in DOMAIN Users /\ Users[U] = "pw"
                         /\ S = "s" /\ G = "md5" /\ T \in {"t"} \cup NotUtf8
  BY Zenon DEF IsGoodLogin
<1> HIDE DEF user, time, salt, sign, P, U, T, S, G, all, answer_, unknown, none, signed
<1>5. CASE ~all
  <2>1. <<>> \in {user, time, salt, sign}
    BY <1>1, <1>3, <1>5, Zenon DEF user, time, salt, sign
  <2>2. answer_ = 400
    BY <1>2, <2>1
  <2> QED
    BY <1>4, <1>5, <2>2, Zenon DEF answer_
<1>6. CASE all
  <2>1. user = <<U>> /\ time = <<T>> /\ salt = <<S>> /\ sign = <<G>> /\ G \in Word
    BY <1>1, <1>3, <1>6, Zenon DEF user, time, salt, sign, U, T, S, G
  <2>2. <<>> \notin {user, time, salt, sign} /\ Head(user) = U
    BY <2>1, OneSymbol, Zenon
  <2>3. "pw" # NoUser /\ "pw" # NoPassword /\ "md5" # "other" /\ G # "other"
    <3>1. G # "other"
      BY <2>1, WordSolid, Zenon
    <3>2. "pw" # NoUser /\ "pw" # NoPassword
      BY DEF NoUser, NoPassword
    <3>3. "md5" # "other"
      OBVIOUS
    <3> QED
      BY <3>1, <3>2, <3>3
  <2> DEFINE match == U \in Signers /\ T \in {"t"} \cup NotUtf8 /\ P = "pw" /\ S = "s"
             hash == MD5(user \o time \o <<P>> \o salt)
             found == db # NoUser /\ U \in DOMAIN Users /\ Users[U] = "pw"
             right == <<hash>> = <<G>>
             good == db # NoUser /\ IsGoodLogin(r)
             late == U \in NotUtf8 \/ T \in NotUtf8
             joined == MakeResponse(200, user \o time)
  <2>4. P = "pw" <=> found
    <3>1. Escapes \/ U \notin Quoted
      BY <1>3, <1>6, Zenon DEF IsLookedUp, U
    <3> DEFINE meant == U \in DOMAIN Users
               password == Users[U]
               alone == U \in Quoted /\ ~Escapes
    <3>2. P = IF db = NoUser \/ alone THEN db ELSE IF meant THEN password ELSE NoUser
      BY <2>2, Zenon DEF P, Selected
    <3>3. ~alone
      BY <3>1, Zenon
    <3>4. found <=> db # NoUser /\ meant /\ password = "pw"
      BY Zenon
    <3> HIDE DEF meant, password, alone, found
    <3> QED
      BY <2>3, <3>2, <3>3, <3>4
  <2>5. user \o time \o <<P>> \o salt = <<U, T, P, S>> /\ user \o time = <<U, T>>
    BY <2>1, PutTogether, Zenon
  <2>6. hash = IF match THEN "md5" ELSE "other"
    <3>1. hash = IF \E nm \in Signers, tm \in {"t"} \cup NotUtf8 : <<U, T, P, S>> = <<nm, tm, "pw", "s">>
                   THEN "md5" ELSE "other"
      BY <2>5, Zenon DEF MD5
    <3>2. ASSUME match
          PROVE  \E nm \in Signers, tm \in {"t"} \cup NotUtf8 : <<U, T, P, S>> = <<nm, tm, "pw", "s">>
      BY <3>2, Zenon
    <3>3. ASSUME NEW nm \in Signers, NEW tm \in {"t"} \cup NotUtf8,
                 <<U, T, P, S>> = <<nm, tm, "pw", "s">>
          PROVE  match
      BY <3>3, FourSymbols, Zenon
    <3> HIDE DEF match
    <3> QED
      BY <3>1, <3>2, <3>3, Zenon
  <2>7. right <=> match /\ G = "md5"
    <3>1. right <=> hash = G
      BY OneSymbol, Zenon
    <3>2. hash = G <=> match /\ G = "md5"
      <4> HIDE DEF hash, match
      <4> QED
        BY <2>3, <2>6, Zenon
    <3> QED
      BY <3>1, <3>2, Zenon
  <2>8. good <=> right
    <3> HIDE DEF right
    <3> QED
      BY <1>4, <1>6, <2>4, <2>7, Zenon
  <2>9. right => ~unknown /\ ~none
    BY <2>3, <2>7, Zenon DEF unknown, none
  <2>10. joined = IF late THEN NoResponse ELSE 200
    <3> DEFINE w == <<U, T>>
               bytes == \E i \in DOMAIN w : w[i] \in NotUtf8
    <3>1. DOMAIN w = 1 .. 2 /\ w[1] = U /\ w[2] = T
          /\ 1 \in 1 .. 2 /\ 2 \in 1 .. 2 /\ \A i \in 1 .. 2 : i = 1 \/ i = 2
      OBVIOUS
    <3>2. joined = MakeResponse(200, w)
      BY <2>5, Zenon
    <3> HIDE DEF w, joined
    <3>3. bytes <=> late
      BY <3>1, Zenon
    <3>4. joined = IF bytes THEN NoResponse ELSE 200
      BY <3>2, Zenon DEF MakeResponse
    <3> HIDE DEF bytes, late
    <3> QED
      BY <3>3, <3>4
  <2>11. /\ ~right /\ unknown => answer_ = 404
         /\ ~right /\ ~unknown /\ none => answer_ = 500
         /\ ~right /\ ~unknown /\ ~none => answer_ = 403
         /\ right => answer_ = joined
    <3>1. signed <=> right
      BY <2>1, Zenon DEF signed
    <3>2. ~bad
      BY <2>2, Zenon
    <3> HIDE DEF bad, right, joined
    <3> QED
      BY <1>2, <2>9, <3>1, <3>2, Zenon DEF joined
  <2> HIDE DEF right, good, late, joined
  <2>12. /\ good => answer_ = IF late THEN NoResponse ELSE 200
         /\ ~good => answer_ \in {400, 403, 404, 500}
    BY <2>8, <2>10, <2>11
  <2> QED
    BY <2>12, Zenon DEF answer_, good, late, U, T
<1> QED
  BY <1>5, <1>6

\* What a request earns, and what silences the server.
Earned(r, db) == IsHealth(r) \/ (db # NoUser /\ IsGoodLogin(r))
Silent(r, db) ==
  \/ r.path \in NotUtf8
  \/ /\ ~IsHealth(r) /\ Earned(r, db)
     /\ Value(r, "user") \in NotUtf8 \/ Value(r, "time") \in NotUtf8

\* The answer to a URL is that to what its request asks for.
LEMMA Routed ==
  ASSUME NEW r, NEW u, IsUrl(r, u), IsLookedUp(r), NEW db
  PROVE  /\ Route(u, db) = 200 <=> Earned(r, db) /\ ~Silent(r, db)
         /\ Route(u, db) = NoResponse <=> Silent(r, db)
<1> DEFINE p == r.path
           status == Route(u, db)
           login == p \in {"/login", "/api/login"}
           register == p \in {"/register", "/api/register"}
           health == p \in {"/health", "/api/health"}
<1>1. Path(u) = <<p>>
  BY PathIs, Zenon
<1>2. \A a, b : Path(u) \in {<<a>>, <<b>>} <=> p \in {a, b}
  BY <1>1, OneSymbol, Zenon
<1>3. status = IF login THEN HandleLogin(u, db)
               ELSE IF register THEN HandleRegister(u)
               ELSE IF health THEN 200
               ELSE HandleNotFound(<<p>>)
  BY <1>1, <1>2, Zenon DEF Route
<1> DEFINE x == p
<1> HIDE DEF x
<1>4. (login => ~register /\ ~health) /\ (register => ~health)
  <2>1. /\ x \in {"/login", "/api/login"} => x \notin {"/register", "/api/register", "/health", "/api/health"}
        /\ x \in {"/register", "/api/register"} => x \notin {"/health", "/api/health"}
    OBVIOUS
  <2> QED
    BY <2>1, Zenon DEF x
<1>5. login \/ register \/ health => p \notin NotUtf8
  BY PlayerServiceAssumption, Zenon DEF Routes
<1>6. IsHealth(r) <=> health
  BY Zenon DEF IsHealth
<1>7. IsGoodLogin(r) => login
  BY Zenon DEF IsGoodLogin, IsLogin
<1>8. NoResponse = 0
  BY Zenon DEF NoResponse
<1>9. CASE login
  <2>1. ~health /\ ~register /\ p \notin NotUtf8
    BY <1>4, <1>5, <1>9, Zenon
  <2>2. status = HandleLogin(u, db)
    BY <1>3, <1>9, Zenon
  <2> DEFINE good == db # NoUser /\ IsGoodLogin(r)
             late == Value(r, "user") \in NotUtf8 \/ Value(r, "time") \in NotUtf8
             handled == HandleLogin(u, db)
  <2>3. /\ good => handled = IF late THEN NoResponse ELSE 200
        /\ ~good => handled \in {400, 403, 404, 500}
    <3>1. IsLogin(r)
      BY <1>9, Zenon DEF IsLogin
    <3> QED
      BY <3>1, LoginAnswer
  <2>4. (Earned(r, db) <=> good) /\ (Silent(r, db) <=> good /\ late)
    BY <1>6, <2>1, Zenon DEF Earned, Silent
  <2>5. status = handled
    BY <2>2, Zenon
  <2> HIDE DEF status, login, register, health, p, good, late, handled
  <2>6. (status = 200 <=> good /\ ~late) /\ (status = 0 <=> good /\ late)
    BY <1>8, <2>3, <2>5
  <2> QED
    BY <1>8, <2>4, <2>6, Zenon DEF status
<1>10. CASE register
  <2>1. ~login /\ ~health /\ p \notin NotUtf8
    BY <1>4, <1>5, <1>10, Zenon
  <2>2. status = HandleRegister(u)
    BY <1>3, <1>10, <2>1, Zenon
  <2>3. status = 400 \/ status = 501
    BY <2>2, Zenon DEF HandleRegister
  <2>4. ~Earned(r, db) /\ ~Silent(r, db)
    BY <1>6, <1>7, <2>1, Zenon DEF Earned, Silent
  <2> HIDE DEF status
  <2>5. status # 200 /\ status # 0
    BY <2>3
  <2> QED
    BY <1>8, <2>4, <2>5, Zenon DEF status
<1>11. CASE health
  <2>1. ~login /\ ~register /\ p \notin NotUtf8
    BY <1>4, <1>5, <1>11, Zenon
  <2>2. status = 200
    BY <1>3, <1>11, <2>1, Zenon
  <2>3. Earned(r, db) /\ ~Silent(r, db)
    BY <1>6, <1>11, <2>1, Zenon DEF Earned, Silent
  <2> HIDE DEF status
  <2>4. status = 200 /\ status # 0
    BY <2>2
  <2> QED
    BY <1>8, <2>3, <2>4, Zenon DEF status
<1>12. CASE ~login /\ ~register /\ ~health
  <2>1. status = HandleNotFound(<<p>>)
    BY <1>3, <1>12, Zenon
  <2>2. (\E i \in DOMAIN <<p>> : <<p>>[i] \in NotUtf8) <=> p \in NotUtf8
    <3> DEFINE w == <<p>>
    <3>1. DOMAIN w = {1} /\ w[1] = p
      OBVIOUS
    <3> HIDE DEF w
    <3>2. (\E i \in DOMAIN w : w[i] \in NotUtf8) <=> p \in NotUtf8
      BY <3>1, Zenon
    <3> QED
      BY <3>2 DEF w
  <2>3. status = IF p \in NotUtf8 THEN 0 ELSE 404
    BY <1>8, <2>1, <2>2, Zenon DEF HandleNotFound, MakeResponse
  <2>4. ~Earned(r, db) /\ (Silent(r, db) <=> p \in NotUtf8)
    BY <1>6, <1>7, <1>12, Zenon DEF Earned, Silent
  <2> HIDE DEF status, p
  <2>5. status # 200 /\ (status = 0 <=> p \in NotUtf8)
    BY <2>3
  <2> QED
    BY <1>8, <2>4, <2>5, Zenon DEF status
<1> QED
  BY <1>9, <1>10, <1>11, <1>12, Zenon

-----------------------------------------------------------------------------
(* The stream.                                                              *)

\* What requests are rendered as, and what is written of the first i.
Rendered(s) == [i \in DOMAIN s |-> Render(s[i])]
Ahead(s, i) == FlattenSeq([j \in 1 .. i |-> Render(s[j])])

\* They are texts.
LEMMA RenderedType ==
  ASSUME NEW s \in Seq(Request)
  PROVE  /\ Rendered(s) \in Seq(Seq(Symbol)) /\ Len(Rendered(s)) = Len(s) /\ Len(s) \in Nat
         /\ DOMAIN s = 1 .. Len(s)
         /\ \A i \in 1 .. Len(s) : s[i] \in Request /\ Rendered(s)[i] = Render(s[i])
         /\ FlattenSeq(Rendered(s)) \in Seq(Symbol)
<1> DEFINE n == Len(s)
<1>1. n \in Nat /\ DOMAIN s = 1 .. n /\ \A i \in 1 .. n : s[i] \in Request
  OBVIOUS
<1>2. \A i \in 1 .. n : Render(s[i]) \in Seq(Symbol)
  BY <1>1, RenderParts, Zenon
<1> DEFINE R == Rendered(s)
<1>3. R = [i \in 1 .. n |-> Render(s[i])]
  BY <1>1, Zenon DEF Rendered
<1> HIDE DEF R, n
<1>4. R \in [1 .. n -> Seq(Symbol)] /\ \A i \in 1 .. n : R[i] = Render(s[i])
  BY <1>2, <1>3, Zenon
<1> DEFINE T == Seq(Symbol)
<1> HIDE DEF T
<1>5. R \in Seq(T) /\ Len(R) = n
  <2>1. R \in [1 .. n -> T]
    BY <1>4, Zenon DEF T
  <2> QED
    BY <1>1, <2>1
<1>6. R \in Seq(Seq(Symbol))
  BY <1>5, Zenon DEF T
<1>7. FlattenSeq(R) \in Seq(Symbol)
  BY <1>6, FlattenType
<1> QED
  BY <1>1, <1>4, <1>5, <1>6, <1>7, Zenon DEF R, n

\* One more request is written behind the others.
LEMMA WrittenOn ==
  ASSUME NEW s \in Seq(Request), NEW t \in Seq(Request), Len(t) = Len(s) + 1,
         \A i \in 1 .. Len(s) : t[i] = s[i]
  PROVE  Begins(FlattenSeq(Rendered(s)), FlattenSeq(Rendered(t)))
<1> DEFINE n == Len(s)
           v == Rendered(s)
           w == Rendered(t)
           e == n + 1
<1>1. /\ v \in Seq(Seq(Symbol)) /\ Len(v) = n /\ n \in Nat
      /\ \A i \in 1 .. n : v[i] = Render(s[i])
      /\ FlattenSeq(v) \in Seq(Symbol)
  BY RenderedType, Zenon
<1>2. /\ w \in Seq(Seq(Symbol)) /\ Len(w) = e
      /\ \A i \in 1 .. e : w[i] = Render(t[i])
      /\ t[e] \in Request
  <2>1. e \in 1 .. Len(t) /\ Len(t) = e
    BY <1>1
  <2> HIDE DEF e
  <2> QED
    BY <2>1, RenderedType, Zenon
<1> HIDE DEF v, w, n
<1>3. e \in 1 .. Len(w) /\ Len(v) = e - 1 /\ \A i \in 1 .. Len(v) : i \in 1 .. e /\ i \in 1 .. n
  BY <1>1, <1>2
<1>4. \A i \in 1 .. Len(v) : v[i] = w[i]
  BY <1>1, <1>2, <1>3, Zenon DEF n
<1>5. Before(Symbol, w, v, e)
  BY <1>1, <1>2, <1>3, <1>4, Zenon DEF Before
<1>6. FlattenSeq(w) = FlattenSeq(v) \o w[e]
  BY <1>2, <1>5, FlattenAppend
<1> DEFINE f == FlattenSeq(v)
           g == w[e]
<1>7. f \in Seq(Symbol) /\ g \in Seq(Symbol)
  <2>1. e \in 1 .. e
    BY <1>1
  <2> HIDE DEF e
  <2>2. w[e] = Render(t[e])
    BY <1>2, <2>1, Zenon
  <2> QED
    BY <1>1, <1>2, <2>2, RenderParts, Zenon
<1> HIDE DEF f, g
<1>8. Begins(f, f \o g)
  <2>1. Joins(Symbol)
    BY Joined
  <2>2. /\ Len(f \o g) = Len(f) + Len(g) /\ Len(f) \in Nat /\ Len(g) \in Nat
        /\ \A i \in 1 .. Len(f) : (f \o g)[i] = f[i]
    BY <1>7, <2>1, Zenon DEF Joins
  <2>3. Len(f) <= Len(f \o g)
    <3> DEFINE a == Len(f)
               b == Len(g)
               c == Len(f \o g)
    <3>1. a \in Nat /\ b \in Nat /\ c = a + b
      BY <2>2, Zenon
    <3> HIDE DEF a, b, c
    <3>2. a <= c
      BY <3>1
    <3> QED
      BY <3>2, Zenon DEF a, c
  <2> QED
    BY <2>2, <2>3, Zenon DEF Begins
<1> QED
  BY <1>6, <1>8, Zenon DEF f, g, v, w

\* The i-th request stands behind the ones before it.
LEMMA Placed ==
  ASSUME NEW s \in Seq(Request), NEW i \in 1 .. Len(s)
  PROVE  /\ Ahead(s, i - 1) \in Seq(Symbol)
         /\ Stands(Render(s[i]), FlattenSeq(Rendered(s)), Len(Ahead(s, i - 1)))
<1> DEFINE n == i - 1
           p == [j \in 1 .. n |-> Render(s[j])]
           w == Rendered(s)
<1>1. /\ w \in Seq(Seq(Symbol)) /\ Len(w) = Len(s) /\ Len(s) \in Nat
      /\ \A j \in 1 .. Len(s) : s[j] \in Request /\ w[j] = Render(s[j])
  BY RenderedType, Zenon
<1> HIDE DEF w
<1>2. n \in Nat /\ i \in 1 .. Len(w) /\ \A j \in 1 .. n : j \in 1 .. Len(s)
  BY <1>1
<1>3. Len(p) = n /\ p \in Seq(Seq(Symbol)) /\ \A j \in 1 .. n : p[j] = w[j]
  <2> HIDE DEF n
  <2>1. \A j \in 1 .. n : Render(s[j]) \in Seq(Symbol) /\ w[j] = Render(s[j])
    BY <1>1, <1>2, RenderParts, Zenon
  <2>2. p \in [1 .. n -> Seq(Symbol)] /\ \A j \in 1 .. n : p[j] = w[j]
    BY <2>1, Zenon
  <2> HIDE DEF p
  <2> DEFINE T == Seq(Symbol)
  <2> HIDE DEF T
  <2>3. p \in Seq(T) /\ Len(p) = n
    <3>1. p \in [1 .. n -> T]
      BY <2>2, Zenon DEF T
    <3> QED
      BY <1>2, <3>1
  <2> QED
    BY <2>2, <2>3, Zenon DEF T
<1>4. FlattenSeq(p) = Ahead(s, i - 1)
  BY Zenon DEF Ahead
<1> HIDE DEF p
<1>5. Before(Symbol, w, p, i)
  BY <1>1, <1>2, <1>3, Zenon DEF Before
<1>6. Begins(FlattenSeq(p) \o w[i], FlattenSeq(w)) /\ FlattenSeq(p) \in Seq(Symbol) /\ w[i] \in Seq(Symbol)
  BY <1>5, FlattenBegins, FlatBefore
<1> DEFINE f == FlattenSeq(p)
           g == w[i]
           t == FlattenSeq(w)
           a == Len(f)
           b == Len(g)
           c == Len(t)
           h == f \o g
<1>7. f \in Seq(Symbol) /\ g \in Seq(Symbol) /\ t \in Seq(Symbol)
  <2>1. t \in Seq(Symbol)
    BY RenderedType, Zenon DEF w
  <2> QED
    BY <1>6, <2>1
<1> HIDE DEF f, g, t
<1>8. /\ Len(h) = a + b /\ a \in Nat /\ b \in Nat
      /\ \A j \in 1 .. b : h[a + j] = g[j]
  <2>1. Joins(Symbol)
    BY Joined
  <2> QED
    BY <1>7, <2>1, Zenon DEF Joins
<1>9. Len(h) <= c /\ \A j \in 1 .. Len(h) : t[j] = h[j]
  BY <1>6, Zenon DEF Begins, f, g, t
<1> HIDE DEF h, a, b, c
<1>10. a + b <= c /\ \A j \in 1 .. b : t[a + j] = g[j]
  <2>1. \A j \in 1 .. b : a + j \in 1 .. Len(h)
    BY <1>8
  <2>2. a + b <= c
    BY <1>8, <1>9, Zenon
  <2> QED
    BY <1>8, <1>9, <2>1, <2>2, Zenon
<1>11. Stands(g, t, a)
  BY <1>10, Zenon DEF Stands, a, b, c
<1>12. g = Render(s[i])
  BY <1>1, Zenon DEF g
<1> QED
  BY <1>4, <1>7, <1>11, <1>12, Zenon DEF a, f, t, w

\* Positions in a part, and in what it is a part of.
LEMMA Positions ==
  /\ \A base, to, size \in Nat : \A j \in 1 .. to + 1 - (1 + base) :
       j <= size => j \in 1 .. size /\ (1 + base) + j - 1 = base + j
  /\ \A a \in Nat \ {0}, b, l \in Nat : b <= l => \A i \in 1 .. b + 1 - a : a + i - 1 \in 1 .. l
OBVIOUS

\* A part of the stream that begins with a request is spelled like it, as far as
\* it goes.
LEMMA Arrived ==
  ASSUME NEW s \in Seq(Request), NEW i \in 1 .. Len(s), NEW from, NEW to \in Nat,
         from = 1 + Len(Ahead(s, i - 1)), from <= to, to <= Len(FlattenSeq(Rendered(s)))
  PROVE  LET part == SubSeq(FlattenSeq(Rendered(s)), from, to)
         IN  Text(s[i], part) /\ Len(part) = to + 1 - from
<1> DEFINE t == FlattenSeq(Rendered(s))
           base == Len(Ahead(s, i - 1))
           part == SubSeq(t, from, to)
           r == s[i]
           R == Render(r)
<1>1. t \in Seq(Symbol) /\ r \in Request
  BY RenderedType, Zenon
<1>2. Ahead(s, i - 1) \in Seq(Symbol) /\ Stands(R, t, base)
  BY Placed, Zenon
<1>3. base \in Nat
  BY <1>2
<1>4. base + Len(R) <= Len(t) /\ \A j \in 1 .. Len(R) : t[base + j] = R[j]
  BY <1>2, Zenon DEF Stands
<1>5. Len(R) = Size(r) /\ Size(r) \in Nat
  BY <1>1, RenderParts, PositionTypes, Zenon
<1>6. from = 1 + base
  OBVIOUS
<1> HIDE DEF t, base, r, R
<1>7. part \in Seq(Symbol) /\ Len(part) = to + 1 - from /\ \A j \in 1 .. to + 1 - from : part[j] = t[from + j - 1]
  <2>1. from \in Nat \ {0} /\ from <= to + 1
    BY <1>3, <1>6
  <2>2. to <= Len(t)
    BY Zenon DEF t
  <2> QED
    BY <1>1, <2>1, <2>2, Cut
<1> DEFINE size == Size(r)
           l == Len(part)
<1> HIDE DEF part
<1>8. \A j \in 1 .. l : j <= size => part[j] = R[j]
  <2> SUFFICES ASSUME NEW j \in 1 .. l, j <= size PROVE part[j] = R[j]
    BY Zenon
  <2>1. l = to + 1 - from
    BY <1>7, Zenon
  <2>2. size \in Nat /\ size = Len(R)
    BY <1>5, Zenon
  <2>3. j \in 1 .. to + 1 - from /\ j \in 1 .. size /\ from + j - 1 = base + j
    <3>1. j \in 1 .. to + 1 - (1 + base) /\ j <= size
      BY <1>6, <2>1, Zenon
    <3>2. j \in 1 .. size /\ (1 + base) + j - 1 = base + j
      <4> DEFINE d == size
      <4>1. d \in Nat /\ j <= d
        BY <2>2, <3>1, Zenon
      <4> HIDE DEF d
      <4>2. j \in 1 .. d /\ (1 + base) + j - 1 = base + j
        BY <1>3, <3>1, <4>1
      <4> QED
        BY <4>2, Zenon DEF d
    <3> QED
      BY <1>6, <3>1, <3>2, Zenon
  <2> HIDE DEF l, size
  <2>4. part[j] = t[base + j]
    BY <1>7, <2>3, Zenon
  <2> QED
    BY <1>4, <2>2, <2>3, <2>4, Zenon
<1>9. Spelled(r, part)
  BY <1>1, <1>7, <1>8, Spells, Zenon DEF R
<1> QED
  BY <1>1, <1>7, <1>9, Zenon DEF Text, r, t, part

\* A whole request has its whole URL.
LEMMA UrlArrived ==
  ASSUME NEW r, NEW t, Text(r, t), Len(t) >= Size(r)
  PROVE  IsUrl(r, Url(r, t))
<1> DEFINE e == Eol(r)
           l == Len(t)
           b == Blank(r)
           n == Len(r.body)
           size == Size(r)
<1>1. /\ e \in Nat /\ l \in Nat /\ b \in Nat /\ n \in Nat /\ size = b + n
      /\ (b = e + 5 \/ b = e + 10)
  <2>1. r \in Request /\ l \in Nat
    BY TextPositions, Zenon DEF Text
  <2>2. e \in Nat /\ b \in Nat /\ (b = e + 5 \/ b = e + 10) /\ size = b + n
    BY <2>1, PositionTypes, Zenon DEF Size
  <2>3. n \in Nat
    <3>1. r.body \in Seq(Symbol)
      BY <2>1, RequestFields, Zenon
    <3> QED
      BY <3>1
  <2> QED
    BY <2>1, <2>2, <2>3
<1>2. l >= size
  BY Zenon
<1> HIDE DEF e, l, b, n, size
<1>3. e <= l
  BY <1>1, <1>2
<1> QED
  BY <1>3, UrlRead, Zenon DEF e, l

-----------------------------------------------------------------------------
(* The service.                                                             *)

\* Requests are written and read, and the last answer is to what has been read
\* last: the stream changes only behind it.
Answered(a) ==
  \/ a = NoAnswer
  \/ /\ a.from \in Nat \ {0} /\ a.to \in Nat /\ a.from <= a.to /\ a.to <= Len(Stream)
     /\ a.status = Received(SubSeq(Stream, a.from, a.to), a.db)

IInv == sent \in Seq(Request) /\ received \in Nat /\ Answered(answer)

\* The service starts so.
LEMMA InitIInv == Init => IInv
<1>1. <<>> \in Seq(Request) /\ 0 \in Nat
  OBVIOUS
<1> QED
  BY <1>1, Zenon DEF Init, IInv, Answered

\* The stream is the text of what has been sent.
LEMMA StreamIs == Stream = FlattenSeq(Rendered(sent))
BY Zenon DEF Stream, Rendered

\* What follows leaves a part as it is.
LEMMA PartStays ==
  ASSUME NEW f \in Seq(Symbol), NEW g \in Seq(Symbol), Begins(f, g),
         NEW a \in Nat \ {0}, NEW b \in Nat, a <= b, b <= Len(f)
  PROVE  SubSeq(g, a, b) = SubSeq(f, a, b) /\ b <= Len(g)
<1> DEFINE v == SubSeq(f, a, b)
           w == SubSeq(g, a, b)
           l == Len(f)
<1>1. l \in Nat /\ Len(g) \in Nat /\ l <= Len(g) /\ \A j \in 1 .. l : g[j] = f[j]
  BY DEF Begins
<1>2. b <= Len(g) /\ a <= b + 1
  <2> HIDE DEF l
  <2>1. b <= l
    BY DEF l
  <2> QED
    BY <1>1, <2>1
<1>3. v \in Seq(Symbol) /\ Len(v) = b + 1 - a /\ \A i \in 1 .. b + 1 - a : v[i] = f[a + i - 1]
  BY <1>2, Cut
<1>4. w \in Seq(Symbol) /\ Len(w) = b + 1 - a /\ \A i \in 1 .. b + 1 - a : w[i] = g[a + i - 1]
  BY <1>2, Cut
<1>5. \A i \in 1 .. b + 1 - a : a + i - 1 \in 1 .. l
  BY <1>1, Positions, Zenon
<1> HIDE DEF v, w, l
<1>6. \A i \in 1 .. Len(v) : v[i] = w[i]
  BY <1>1, <1>3, <1>4, <1>5, Zenon
<1>7. v = w
  BY <1>3, <1>4, <1>6, SameElements
<1> QED
  BY <1>2, <1>7, Zenon DEF v, w

\* A request more leaves the answer as it is.
LEMMA PeerSendKeeps == IInv /\ PeerSend => IInv'
<1> SUFFICES ASSUME IInv, PeerSend PROVE IInv'
  OBVIOUS
<1>1. sent \in Seq(Request) /\ received \in Nat /\ Answered(answer)
  BY Zenon DEF IInv
<1>2. PICK session \in Sessions :
        IsStrictPrefix(sent, session) /\ sent' = SubSeq(session, 1, Len(sent) + 1)
  BY Zenon DEF PeerSend
<1>3. received' = received /\ answer' = answer
  BY Zenon DEF PeerSend
<1>4. session \in Seq(Request)
  BY PlayerServiceAssumption, Zenon
<1> DEFINE n == Len(sent)
           e == n + 1
           m == Len(session)
<1>5. n \in Nat /\ m \in Nat /\ n <= m /\ SubSeq(sent, 1, n) = SubSeq(session, 1, n) /\ sent # session
  BY <1>1, <1>2, <1>4 DEF IsStrictPrefix, IsPrefix
<1> HIDE DEF n, m
<1>6. \A i \in 1 .. n : sent[i] = session[i]
  <2>1. 1 \in Nat \ {0} /\ 1 <= n + 1 /\ n <= Len(sent) /\ n <= Len(session)
    BY <1>5 DEF n, m
  <2>2. \A i \in 1 .. n + 1 - 1 : SubSeq(sent, 1, n)[i] = sent[1 + i - 1]
    BY <1>1, <1>5, <2>1, Cut
  <2>3. \A i \in 1 .. n + 1 - 1 : SubSeq(session, 1, n)[i] = session[1 + i - 1]
    BY <1>4, <1>5, <2>1, Cut
  <2>4. \A i \in 1 .. n : 1 + i - 1 = i /\ i \in 1 .. n + 1 - 1
    BY <1>5
  <2> QED
    BY <1>5, <2>2, <2>3, <2>4, Zenon
<1>7. n < m
  <2> SUFFICES ASSUME n = m PROVE FALSE
    BY <1>5
  <2>1. sent = session
    BY <1>1, <1>4, <1>6, SameElements, Zenon DEF n, m
  <2> QED
    BY <1>5, <2>1
<1>8. /\ sent' \in Seq(Request) /\ Len(sent') = n + 1
      /\ \A i \in 1 .. n : sent'[i] = sent[i]
  <2>1. e \in Nat /\ 1 \in Nat \ {0} /\ 1 <= e + 1 /\ e <= Len(session) /\ e + 1 - 1 = n + 1
        /\ \A i \in 1 .. n : i \in 1 .. n + 1 /\ 1 + i - 1 = i
    BY <1>5, <1>7 DEF m
  <2>2. sent' = SubSeq(session, 1, e)
    BY <1>2, Zenon DEF n
  <2> HIDE DEF e
  <2>3. /\ SubSeq(session, 1, e) \in Seq(Request) /\ Len(SubSeq(session, 1, e)) = e + 1 - 1
        /\ \A i \in 1 .. e + 1 - 1 : SubSeq(session, 1, e)[i] = session[1 + i - 1]
    BY <1>4, <2>1, Cut
  <2> QED
    BY <1>6, <2>1, <2>2, <2>3, Zenon
<1>9. Stream' = FlattenSeq(Rendered(sent'))
  BY Zenon DEF Stream, Rendered
<1> DEFINE f == Stream
           g == Stream'
<1>10. f \in Seq(Symbol) /\ g \in Seq(Symbol) /\ Begins(f, g)
  <2>1. f \in Seq(Symbol)
    BY <1>1, RenderedType, StreamIs, Zenon
  <2>2. g \in Seq(Symbol)
    BY <1>8, <1>9, RenderedType, Zenon
  <2>3. Begins(f, g)
    <3> DEFINE next == sent'
    <3>1. next \in Seq(Request) /\ Len(next) = Len(sent) + 1 /\ \A i \in 1 .. Len(sent) : next[i] = sent[i]
      BY <1>8, Zenon DEF n
    <3> HIDE DEF next
    <3>2. Begins(FlattenSeq(Rendered(sent)), FlattenSeq(Rendered(next)))
      BY <1>1, <3>1, WrittenOn, Zenon
    <3> QED
      BY <1>9, <3>2, StreamIs, Zenon DEF next
  <2> QED
    BY <2>1, <2>2, <2>3
<1>11. Answered(answer)'
  <2>1. CASE answer = NoAnswer
    BY <1>3, <2>1, Zenon DEF Answered, NoAnswer
  <2>2. CASE answer # NoAnswer
    <3> DEFINE a == answer.from
               b == answer.to
    <3>1. /\ a \in Nat \ {0} /\ b \in Nat /\ a <= b /\ b <= Len(f)
          /\ answer.status = Received(SubSeq(f, a, b), answer.db)
      BY <1>1, <2>2, Zenon DEF Answered
    <3> HIDE DEF f, g, a, b
    <3>2. SubSeq(g, a, b) = SubSeq(f, a, b) /\ b <= Len(g)
      BY <1>10, <3>1, PartStays
    <3>3. /\ answer'.from \in Nat \ {0} /\ answer'.to \in Nat /\ answer'.from <= answer'.to
          /\ answer'.to <= Len(Stream')
          /\ answer'.status = Received(SubSeq(Stream', answer'.from, answer'.to), answer'.db)
      BY <1>3, <3>1, <3>2, Zenon DEF f, g, a, b
    <3> QED
      BY <3>3, Zenon DEF Answered
  <2> QED
    BY <2>1, <2>2
<1> QED
  BY <1>1, <1>3, <1>8, <1>11, Zenon DEF IInv

\* The next answer is to the part just read.
LEMMA RecvAndAnswerKeeps == IInv /\ RecvAndAnswer => IInv'
<1> SUFFICES ASSUME IInv, RecvAndAnswer PROVE IInv'
  OBVIOUS
<1>1. sent \in Seq(Request) /\ received \in Nat
  BY Zenon DEF IInv
<1>2. PICK to \in received + 1 .. Len(Stream), db \in Db :
        /\ received' = to
        /\ answer' = [from |-> received + 1, to |-> to, db |-> db,
                      status |-> Received(SubSeq(Stream, received + 1, to), db)]
        /\ sent' = sent
  BY Zenon DEF RecvAndAnswer
<1> DEFINE from == received + 1
           n == Len(Stream)
<1>3. n \in Nat
  <2>1. Stream \in Seq(Symbol)
    BY <1>1, RenderedType, StreamIs, Zenon
  <2> QED
    BY <2>1
<1>4. from \in Nat \ {0} /\ to \in Nat /\ from <= to /\ to <= n
  <2> HIDE DEF n
  <2>1. to \in received + 1 .. n
    BY DEF n
  <2> QED
    BY <1>1, <1>3, <2>1
<1>5. /\ answer'.from = from /\ answer'.to = to /\ answer'.db = db
      /\ answer'.status = Received(SubSeq(Stream, from, to), db)
  <2> DEFINE status == Received(SubSeq(Stream, from, to), db)
  <2>1. answer' = [from |-> from, to |-> to, db |-> db, status |-> status]
    BY <1>2, Zenon
  <2> HIDE DEF status, from
  <2>2. answer'.from = from /\ answer'.to = to /\ answer'.db = db /\ answer'.status = status
    BY <2>1
  <2> QED
    BY <2>2, Zenon DEF status
<1> HIDE DEF from, n
<1>6. Stream' = Stream
  BY <1>2, Zenon DEF Stream
<1>7. Answered(answer)'
  BY <1>4, <1>5, <1>6, Zenon DEF Answered, n
<1> QED
  BY <1>1, <1>2, <1>4, <1>7, Zenon DEF IInv

\* So does every step.
LEMMA NextKeeps == IInv /\ [Next]_vars => IInv'
<1> SUFFICES ASSUME IInv, UNCHANGED vars PROVE IInv'
  BY PeerSendKeeps, RecvAndAnswerKeeps, Zenon DEF Next
<1>1. sent' = sent /\ received' = received /\ answer' = answer
  BY DEF vars
<1>2. Stream' = Stream
  BY <1>1, Zenon DEF Stream
<1> QED
  BY <1>1, <1>2, Zenon DEF IInv, Answered

\* The part last read, if it begins with a request.
LEMMA LastPart ==
  ASSUME IInv, NEW i \in DOMAIN sent, answer.from = StartOf(i)
  PROVE  /\ sent[i] \in Request /\ Text(sent[i], Part)
         /\ Len(Render(sent[i])) = Size(sent[i])
         /\ answer.to >= EndOf(i) => Len(Part) >= Size(sent[i])
         /\ answer.to < EndOf(i) => Len(Part) < Size(sent[i])
         /\ answer.status = Received(Part, answer.db)
<1> DEFINE r == sent[i]
           base == Len(Ahead(sent, i - 1))
           size == Size(r)
           from == answer.from
           to == answer.to
           l == Len(Part)
<1>1. sent \in Seq(Request) /\ i \in 1 .. Len(sent) /\ r \in Request
  <2>1. sent \in Seq(Request)
    BY Zenon DEF IInv
  <2> QED
    BY <2>1, RenderedType, Zenon
<1>2. base \in Nat
  <2>1. Ahead(sent, i - 1) \in Seq(Symbol)
    BY <1>1, Placed, Zenon
  <2> QED
    BY <2>1
<1>3. Len(Render(r)) = size /\ size \in Nat
  BY <1>1, RenderParts, PositionTypes, Zenon
<1>4. StartOf(i) = 1 + base /\ EndOf(i) = 1 + base + size - 1
  <2>1. StartOf(i) = 1 + base
    BY Zenon DEF StartOf, Ahead
  <2> QED
    BY <1>3, <2>1, Zenon DEF EndOf
<1>5. from = 1 + base
  BY <1>4, Zenon
<1>6. answer # NoAnswer
  <2> SUFFICES ASSUME answer = NoAnswer PROVE FALSE
    BY Zenon
  <2>1. NoAnswer.from = 0
    BY DEF NoAnswer
  <2>2. from = 0
    BY <2>1, Zenon
  <2> HIDE DEF base, from
  <2> QED
    BY <1>2, <1>5, <2>2
<1>7. /\ to \in Nat /\ from <= to /\ to <= Len(Stream)
      /\ answer.status = Received(SubSeq(Stream, from, to), answer.db)
  BY <1>6, Zenon DEF IInv, Answered
<1>8. Text(r, Part) /\ l = to + 1 - from
  <2>1. to <= Len(FlattenSeq(Rendered(sent))) /\ Part = SubSeq(FlattenSeq(Rendered(sent)), from, to)
    BY <1>7, StreamIs, Zenon DEF Part
  <2> HIDE DEF from, to, r
  <2>2. LET part == SubSeq(FlattenSeq(Rendered(sent)), from, to)
        IN  Text(sent[i], part) /\ Len(part) = to + 1 - from
    BY <1>1, <1>5, <1>7, <2>1, Arrived, Zenon
  <2> QED
    BY <2>1, <2>2, Zenon DEF r
<1> DEFINE end == EndOf(i)
<1> HIDE DEF base, size, from, to, l, end
<1>9. (to >= end => l >= size) /\ (to < end => l < size)
  <2>1. end = 1 + base + size - 1
    BY <1>4, Zenon DEF end
  <2> QED
    BY <1>2, <1>3, <1>5, <1>7, <1>8, <2>1
<1> QED
  BY <1>1, <1>3, <1>7, <1>8, <1>9, Zenon DEF r, size, from, to, l, end, Part

\* A request that has arrived in full is read as it was written.
LEMMA InvWhole == IInv => WholeIsParsed
<1> SUFFICES ASSUME IInv, NEW i \in DOMAIN sent, answer.from = StartOf(i), answer.to >= EndOf(i)
             PROVE  /\ Parser(Part).ok
                    /\ Parser(Part).method = sent[i].method
                    /\ Path(Parser(Part).url) = <<sent[i].path>>
                    /\ Parser(Part).body = sent[i].body
                    /\ Parser(Part).consumed = Len(Render(sent[i]))
  BY Zenon DEF WholeIsParsed
<1> DEFINE r == sent[i]
<1>1. /\ Text(r, Part) /\ Len(Render(r)) = Size(r) /\ Len(Part) >= Size(r)
  BY LastPart, Zenon
<1>2. /\ Parser(Part).ok /\ Parser(Part).method = r.method /\ Parser(Part).url = Url(r, Part)
      /\ Parser(Part).body = r.body /\ Parser(Part).consumed = Size(r)
  BY <1>1, ParserWhole, Zenon
<1>3. IsUrl(r, Url(r, Part))
  BY <1>1, UrlArrived, Zenon
<1>4. Path(Url(r, Part)) = <<r.path>>
  BY <1>3, PathIs, Zenon
<1> QED
  BY <1>1, <1>2, <1>4, Zenon

\* One that has arrived in part is refused.
LEMMA InvPart == IInv => PartIsRefused
<1> SUFFICES ASSUME IInv, NEW i \in DOMAIN sent, answer.from = StartOf(i), answer.to < EndOf(i)
             PROVE  answer.status = 400
  BY Zenon DEF PartIsRefused
<1> DEFINE r == sent[i]
<1>1. Text(r, Part) /\ Len(Part) < Size(r) /\ answer.status = Received(Part, answer.db)
  BY LastPart, Zenon
<1>2. ~Parser(Part).ok
  BY <1>1, ParserPart, Zenon
<1> QED
  BY <1>1, <1>2, Zenon DEF Received

\* One that has arrived in full gets the answer it has earned.
LEMMA InvAnswer == IInv => AnswerIsEarned
<1> SUFFICES ASSUME IInv, NEW i \in DOMAIN sent, answer.from = StartOf(i), answer.to >= EndOf(i),
                    IsLookedUp(sent[i])
             PROVE  /\ answer.status = 200
                         <=> Earned(sent[i], answer.db) /\ ~Silent(sent[i], answer.db)
                    /\ answer.status = NoResponse <=> Silent(sent[i], answer.db)
  BY Zenon DEF AnswerIsEarned, Earned, Silent
<1> DEFINE r == sent[i]
           u == Url(r, Part)
<1>1. Text(r, Part) /\ Len(Part) >= Size(r) /\ answer.status = Received(Part, answer.db)
  BY LastPart, Zenon
<1>2. Parser(Part).ok /\ Parser(Part).url = u
  BY <1>1, ParserWhole, Zenon
<1>3. answer.status = Route(u, answer.db)
  BY <1>1, <1>2, Zenon DEF Received
<1>4. IsUrl(r, u) /\ IsLookedUp(r)
  BY <1>1, UrlArrived, Zenon
<1> DEFINE up == answer.db
<1> HIDE DEF u, r, up
<1>5. /\ Route(u, up) = 200 <=> Earned(r, up) /\ ~Silent(r, up)
      /\ Route(u, up) = NoResponse <=> Silent(r, up)
  BY <1>4, Routed
<1> QED
  BY <1>3, <1>5, Zenon DEF r, up

\* The service stays so, whatever the peers write and however it arrives.
LEMMA ServiceInvariant == Spec => []IInv
<1> QED
  BY InitIInv, NextKeeps, PTL DEF Spec

\* A request received in one piece is parsed into what its peer meant by it, for
\* all requests and however much of the next ones has come with it.
THEOREM RequestsAreRead == Spec => []WholeIsParsed
<1> QED
  BY ServiceInvariant, InvWhole, PTL

\* No request received in part is ever taken for a whole one, wherever it is cut.
THEOREM CutRequestsAreRefused == Spec => []PartIsRefused
<1> QED
  BY ServiceInvariant, InvPart, PTL

\* The answer to a request received in one piece is the one its path, its
\* parameters and the database earn, for all tables of users and whatever the
\* database makes of a query: a login under a name that reaches it as it is meant
\* succeeds only with the right signature, and the server is silent only where the
\* response could not be encoded.
THEOREM AnswersAreEarned == Spec => []AnswerIsEarned
<1> QED
  BY ServiceInvariant, InvAnswer, PTL
=============================================================================
