--------------------------- MODULE LogWriterProofs ---------------------------
(***************************************************************************)
(* For all records and bounds: a record that is serialised is read back as *)
(* it was, one that was cut is refused, and what reaches the service is in *)
(* the log once and in order, unless the service is killed; FATAL records  *)
(* even then.                                                              *)
(*                                                                         *)
(* Shift, ReadVal and FlattenSeq are recursive functions.  That there is a *)
(* function for their recursion, and what it computes, follows by          *)
(* induction over sets of naturals, from the theorem that the naturals are *)
(* well-founded.                                                           *)
(***************************************************************************)
EXTENDS LogWriter, FiniteSetTheorems, WellFoundedInduction, TLAPS

-----------------------------------------------------------------------------
(* Induction and recursion over the naturals.                               *)

\* There is no infinite descent in the naturals.
LEMMA Descent == IsWellFoundedOn({p \in Nat \X Nat : p[1] < p[2]}, Nat)
BY NatLessThanWellFounded DEF OpToRel

\* A set that has 0, and with n its successor, has all naturals.
LEMMA SetInduction ==
  ASSUME NEW T, 0 \in T, \A n \in Nat : n \in T => n + 1 \in T
  PROVE  Nat \subseteq T
<1> DEFINE Below == {p \in Nat \X Nat : p[1] < p[2]}
           Rest == Nat \ T
<1> SUFFICES ASSUME Rest # {} PROVE FALSE
  OBVIOUS
<1>1. \E x \in Rest : \A y \in Rest : ~(<<y, x>> \in Below)
  <2>1. Rest \subseteq Nat
    OBVIOUS
  <2> HIDE DEF Rest, Below
  <2> QED
    BY <2>1, Descent, WFMin DEF Below
<1>2. PICK x \in Rest : \A y \in Rest : ~(y < x)
  BY <1>1
<1>3. x # 0 /\ x - 1 \in Nat /\ x - 1 \in T
  BY <1>2
<1>4. x - 1 + 1 \in T
  BY <1>3
<1> QED
  BY <1>3, <1>4

\* The beginnings of the sequence with first element b and successor d.
Begun(V, b, d, n) ==
  {g \in [0 .. n -> V] : g[0] = b /\ \A i \in 0 .. n - 1 : g[i + 1] = d[<<i, g[i]>>]}

\* Of two beginnings the shorter is the beginning of the longer.
LEMMA BegunUnique ==
  ASSUME NEW V, NEW b, NEW d, NEW n \in Nat, NEW m \in Nat, n <= m,
         NEW g \in Begun(V, b, d, n), NEW h \in Begun(V, b, d, m)
  PROVE  \A k \in 0 .. n : g[k] = h[k]
<1> DEFINE T == {k \in Nat : k <= n => g[k] = h[k]}
<1>1. 0 \in T
  BY DEF Begun
<1>2. ASSUME NEW k \in Nat, k \in T PROVE k + 1 \in T
  <2> SUFFICES ASSUME k + 1 <= n PROVE g[k + 1] = h[k + 1]
    OBVIOUS
  <2>1. k \in 0 .. n - 1 /\ k \in 0 .. m - 1 /\ g[k] = h[k]
    BY <1>2
  <2> QED
    BY <2>1 DEF Begun
<1> HIDE DEF T
<1>3. Nat \subseteq T
  BY <1>1, <1>2, SetInduction
<1> QED
  BY <1>3 DEF T

\* There is one of every length.
LEMMA BegunExists ==
  ASSUME NEW V, NEW b \in V, NEW d \in [Nat \X V -> V]
  PROVE  \A n \in Nat : Begun(V, b, d, n) # {}
<1> DEFINE T == {n \in Nat : Begun(V, b, d, n) # {}}
<1>1. 0 \in T
  <2>1. [i \in 0 .. 0 |-> b] \in Begun(V, b, d, 0)
    BY DEF Begun
  <2> QED
    BY <2>1
<1>2. ASSUME NEW n \in Nat, n \in T PROVE n + 1 \in T
  <2>1. PICK g \in [0 .. n -> V] :
          g[0] = b /\ \A i \in 0 .. n - 1 : g[i + 1] = d[<<i, g[i]>>]
    BY <1>2 DEF Begun
  <2> DEFINE h == [i \in 0 .. n + 1 |-> IF i <= n THEN g[i] ELSE d[<<n, g[n]>>]]
  <2>2. h \in [0 .. n + 1 -> V]
    <3>1. n \in 0 .. n /\ g[n] \in V
      BY <2>1
    <3>2. d[<<n, g[n]>>] \in V
      BY <3>1
    <3> QED
      BY <2>1, <3>2
  <2>3. h[0] = b
    BY <2>1
  <2>4. ASSUME NEW i \in 0 .. n PROVE h[i + 1] = d[<<i, h[i]>>]
    <3>1. CASE i < n
      BY <2>1, <3>1
    <3>2. CASE i = n
      <4>1. h[n + 1] = d[<<n, g[n]>>] /\ h[n] = g[n]
        OBVIOUS
      <4> QED
        BY <3>2, <4>1
    <3> QED
      BY <3>1, <3>2
  <2>5. h \in Begun(V, b, d, n + 1)
    <3> HIDE DEF h
    <3>1. 0 .. (n + 1) - 1 = 0 .. n
      OBVIOUS
    <3> QED
      BY <2>2, <2>3, <2>4, <3>1 DEF Begun
  <2> QED
    BY <2>5
<1> HIDE DEF T
<1>3. Nat \subseteq T
  BY <1>1, <1>2, SetInduction
<1> QED
  BY <1>3 DEF T

\* The sequence with first element b and successor d.
Runs(f, V, b, d) == f \in [Nat -> V] /\ f[0] = b /\ \A n \in Nat : f[n + 1] = d[<<n, f[n]>>]

\* A recursion over the naturals defines a function.
LEMMA Recursion ==
  ASSUME NEW V, NEW b \in V, NEW d \in [Nat \X V -> V]
  PROVE  \E f : Runs(f, V, b, d)
<1> DEFINE part(n) == CHOOSE g : g \in Begun(V, b, d, n)
           f == [n \in Nat |-> part(n)[n]]
<1>1. ASSUME NEW n \in Nat PROVE part(n) \in Begun(V, b, d, n)
  BY BegunExists
<1> HIDE DEF part
<1>2. ASSUME NEW n \in Nat PROVE part(n)[n] \in V
  <2>1. part(n) \in [0 .. n -> V] /\ n \in 0 .. n
    BY <1>1 DEF Begun
  <2> QED
    BY <2>1
<1>3. f \in [Nat -> V]
  BY <1>2
<1>4. f[0] = b
  BY <1>1 DEF Begun
<1>5. ASSUME NEW n \in Nat PROVE f[n + 1] = d[<<n, f[n]>>]
  <2>1. part(n)[n] = part(n + 1)[n]
    <3>1. n + 1 \in Nat /\ n <= n + 1 /\ n \in 0 .. n
      OBVIOUS
    <3> QED
      BY <1>1, <3>1, BegunUnique
  <2>2. part(n + 1)[n + 1] = d[<<n, part(n + 1)[n]>>]
    <3>1. n + 1 \in Nat /\ n \in 0 .. (n + 1) - 1
      OBVIOUS
    <3>2. part(n + 1) \in Begun(V, b, d, n + 1)
      BY <1>1, <3>1
    <3> QED
      BY <3>1, <3>2 DEF Begun
  <2> QED
    BY <2>1, <2>2
<1>6. Runs(f, V, b, d)
  <2> HIDE DEF f
  <2> QED
    BY <1>3, <1>4, <1>5 DEF Runs
<1> QED
  BY <1>6

-----------------------------------------------------------------------------
(* Integers on the wire.                                                    *)

\* The recursion of Shift.
Shifts(f) == f = [n \in Nat |-> IF n = 0 THEN 1 ELSE f[n - 1] * Base]

\* It defines Shift.
LEMMA ShiftDefined == Shifts(Shift)
<1> USE LogInfoAssumption
<1> DEFINE V == Nat \ {0}
           d == [p \in Nat \X V |-> p[2] * Base]
<1>1. 1 \in V /\ d \in [Nat \X V -> V]
  <2>1. \A a \in V : a * Base \in V
    OBVIOUS
  <2> QED
    BY <2>1
<1>2. \A n \in Nat, a \in V : d[<<n, a>>] = a * Base
  OBVIOUS
<1> HIDE DEF d, V
<1>3. PICK f : Runs(f, V, 1, d)
  BY <1>1, Recursion
<1>4. \A n \in Nat : f[n] = IF n = 0 THEN 1 ELSE f[n - 1] * Base
  <2> SUFFICES ASSUME NEW n \in Nat, n # 0 PROVE f[n] = f[n - 1] * Base
    BY <1>3 DEF Runs
  <2>1. n - 1 \in Nat /\ (n - 1) + 1 = n
    OBVIOUS
  <2>2. f[(n - 1) + 1] = d[<<n - 1, f[n - 1]>>] /\ f[n - 1] \in V
    BY <1>3, <2>1 DEF Runs
  <2> QED
    BY <1>2, <2>1, <2>2
<1>5. Shifts(f)
  BY <1>3, <1>4 DEF Runs, Shifts
<1>6. Shifts(CHOOSE g : Shifts(g))
  BY <1>5
<1>7. Shift = CHOOSE g : Shifts(g)
  BY DEF Shift, Shifts
<1> QED
  BY <1>6, <1>7

\* Powers of the base.
LEMMA ShiftFacts ==
  /\ Shift[0] = 1
  /\ \A n \in Nat : Shift[n] \in Nat \ {0} /\ Shift[n + 1] = Shift[n] * Base
<1> USE LogInfoAssumption
<1>1. Shift[0] = 1 /\ \A n \in Nat : Shift[n + 1] = Shift[n] * Base
  <2>1. \A n \in Nat : Shift[n] = IF n = 0 THEN 1 ELSE Shift[n - 1] * Base
    BY ShiftDefined, Zenon DEF Shifts
  <2>2. ASSUME NEW n \in Nat PROVE Shift[n + 1] = Shift[n] * Base
    <3>1. n + 1 \in Nat /\ n + 1 # 0 /\ (n + 1) - 1 = n
      OBVIOUS
    <3>2. Shift[n + 1] = Shift[(n + 1) - 1] * Base
      BY <2>1, <3>1, Zenon
    <3> QED
      BY <3>1, <3>2
  <2>3. Shift[0] = 1
    BY <2>1
  <2> QED
    BY <2>2, <2>3
<1> DEFINE T == {n \in Nat : Shift[n] \in Nat \ {0}}
<1>2. 0 \in T
  BY <1>1
<1>3. ASSUME NEW n \in Nat, n \in T PROVE n + 1 \in T
  <2>1. Shift[n] * Base \in Nat \ {0}
    BY <1>3
  <2> QED
    BY <1>1, <2>1
<1> HIDE DEF T
<1>4. Nat \subseteq T
  BY <1>2, <1>3, SetInduction
<1> QED
  BY <1>1, <1>4 DEF T

\* A value takes its width in bytes.
LEMMA WriteValType ==
  ASSUME NEW val \in Nat, NEW width \in Nat
  PROVE  WriteVal(val, width) \in Seq(Byte) /\ Len(WriteVal(val, width)) = width
<1> USE LogInfoAssumption
<1>1. ASSUME NEW i \in 1 .. width PROVE (val \div Shift[width - i]) % Base \in Byte
  <2>1. Shift[width - i] \in Nat \ {0}
    BY ShiftFacts
  <2> DEFINE s == Shift[width - i]
  <2> HIDE DEF s
  <2>2. val \div s \in Nat
    BY <2>1 DEF s
  <2> QED
    BY <2>2 DEF Byte, s
<1>2. WriteVal(val, width) \in [1 .. width -> Byte]
  BY <1>1 DEF WriteVal
<1> QED
  BY <1>2

\* part is in data, from the byte behind k on.
At(data, k, part) ==
  k + Len(part) <= Len(data) /\ \A i \in 1 .. Len(part) : data[k + i] = part[i]

\* The loop of ReadVal.
Loop(u, data, at, width) ==
  u = [i \in 0 .. width |-> IF i = 0 THEN 0 ELSE u[i - 1] * Base + data[at + i]]

\* It ends with a value.
LEMMA LoopExists ==
  ASSUME NEW data \in Seq(Byte), NEW at \in Nat, NEW width \in Nat, at + width <= Len(data)
  PROVE  \E u : Loop(u, data, at, width)
<1> USE LogInfoAssumption
<1> DEFINE d == [p \in Nat \X Nat |-> IF p[1] < width THEN p[2] * Base + data[at + p[1] + 1] ELSE 0]
<1>1. \A i \in 0 .. width - 1 : data[at + i + 1] \in Byte
  OBVIOUS
<1>2. d \in [Nat \X Nat -> Nat]
  <2>1. ASSUME NEW i \in Nat, NEW v \in Nat, i < width PROVE v * Base + data[at + i + 1] \in Nat
    <3>1. i \in 0 .. width - 1 /\ v * Base \in Nat
      BY <2>1
    <3>2. data[at + i + 1] \in Nat
      BY <1>1, <3>1 DEF Byte
    <3> QED
      BY <3>1, <3>2
  <2> QED
    BY <2>1
<1>3. ASSUME NEW i \in 0 .. width - 1, NEW v \in Nat PROVE d[<<i, v>>] = v * Base + data[at + i + 1]
  <2>1. i \in Nat /\ i < width
    OBVIOUS
  <2> QED
    BY <2>1
<1> HIDE DEF d
<1>4. PICK f : Runs(f, Nat, 0, d)
  BY <1>2, Recursion
<1> DEFINE u == [i \in 0 .. width |-> f[i]]
<1>5. ASSUME NEW i \in 0 .. width
      PROVE  u[i] = IF i = 0 THEN 0 ELSE u[i - 1] * Base + data[at + i]
  <2> SUFFICES ASSUME i # 0 PROVE u[i] = u[i - 1] * Base + data[at + i]
    BY <1>4 DEF Runs
  <2>1. i - 1 \in 0 .. width - 1 /\ (i - 1) + 1 = i /\ at + (i - 1) + 1 = at + i
    OBVIOUS
  <2>2. f[(i - 1) + 1] = f[i - 1] * Base + data[at + (i - 1) + 1]
    <3>1. f[(i - 1) + 1] = d[<<i - 1, f[i - 1]>>] /\ f[i - 1] \in Nat
      <4>1. i - 1 \in Nat
        BY <2>1
      <4> QED
        BY <1>4, <4>1 DEF Runs
    <3> QED
      BY <1>3, <2>1, <3>1
  <2>3. u[i] = f[i] /\ u[i - 1] = f[i - 1]
    BY <2>1
  <2> QED
    BY <2>1, <2>2, <2>3
<1>6. Loop(u, data, at, width)
  <2>1. u = [i \in 0 .. width |-> u[i]]
    OBVIOUS
  <2> HIDE DEF u
  <2> QED
    BY <1>5, <2>1 DEF Loop
<1> QED
  BY <1>6

\* What was written is read.
LEMMA ReadValAt ==
  ASSUME NEW data \in Seq(Byte), NEW at \in Nat, NEW width \in Nat, NEW v \in Nat,
         v < Shift[width], At(data, at, WriteVal(v, width))
  PROVE  ReadVal(data, at, width) = [ok |-> TRUE, val |-> v, at |-> at + width]
<1> USE LogInfoAssumption
<1>1. at + width <= Len(data) /\ \A i \in 1 .. width : data[at + i] = (v \div Shift[width - i]) % Base
  <2>1. Len(WriteVal(v, width)) = width
    BY WriteValType
  <2>2. \A i \in 1 .. width : WriteVal(v, width)[i] = (v \div Shift[width - i]) % Base
    BY DEF WriteVal
  <2> QED
    BY <2>1, <2>2 DEF At
<1> DEFINE u == CHOOSE u : Loop(u, data, at, width)
<1>2. Loop(u, data, at, width)
  BY <1>1, LoopExists
<1>3. ReadVal(data, at, width) = [ok |-> TRUE, val |-> u[width], at |-> at + width]
  BY <1>1 DEF ReadVal, Loop
<1> HIDE DEF u
<1>4. u[0] = 0 /\ \A i \in 1 .. width : u[i] = u[i - 1] * Base + data[at + i]
  <2>1. \A i \in 0 .. width : u[i] = IF i = 0 THEN 0 ELSE u[i - 1] * Base + data[at + i]
    BY <1>2, Zenon DEF Loop
  <2> QED
    BY <2>1
<1> DEFINE T == {i \in Nat : i <= width => u[i] = v \div Shift[width - i]}
<1>5. 0 \in T
  <2>1. Shift[width] \in Nat \ {0}
    BY ShiftFacts
  <2>2. \A s \in Nat \ {0} : v < s => v \div s = 0
    OBVIOUS
  <2>3. width - 0 = width
    OBVIOUS
  <2> QED
    BY <1>4, <2>1, <2>2, <2>3
<1>6. ASSUME NEW i \in Nat, i \in T PROVE i + 1 \in T
  <2> SUFFICES ASSUME i + 1 <= width PROVE u[i + 1] = v \div Shift[width - (i + 1)]
    OBVIOUS
  <2> DEFINE s == Shift[width - (i + 1)]
             q == v \div s
  <2>1. s \in Nat \ {0} /\ Shift[width - i] = s * Base
    <3>1. width - (i + 1) \in Nat /\ (width - (i + 1)) + 1 = width - i
      OBVIOUS
    <3> QED
      BY <3>1, ShiftFacts
  <2>2. u[i] = v \div (s * Base)
    BY <1>6, <2>1
  <2>3. u[i + 1] = u[i] * Base + ((v \div s) % Base)
    <3>1. i + 1 \in 1 .. width /\ (i + 1) - 1 = i
      OBVIOUS
    <3> QED
      BY <1>1, <1>4, <3>1
  <2> HIDE DEF s
  <2>4. v \div (s * Base) = (v \div s) \div Base
    BY <2>1
  <2>5. v \div s \in Nat
    BY <2>1
  <2>6. \A a \in Nat : a = (a \div Base) * Base + (a % Base)
    OBVIOUS
  <2>7. u[i + 1] = v \div s
    BY <2>2, <2>3, <2>4, <2>5, <2>6
  <2> QED
    BY <2>7 DEF s
<1> HIDE DEF T
<1>7. Nat \subseteq T
  BY <1>5, <1>6, SetInduction
<1>8. u[width] = v
  <2>1. u[width] = v \div Shift[width - width]
    BY <1>7 DEF T
  <2>2. Shift[width - width] = 1
    <3>1. width - width = 0
      OBVIOUS
    <3> QED
      BY <3>1, ShiftFacts
  <2> QED
    BY <2>1, <2>2
<1> QED
  BY <1>3, <1>8

-----------------------------------------------------------------------------
(* Texts and records on the wire.                                           *)

\* What holds two parts holds each of them.
LEMMA AtConcat ==
  ASSUME NEW S, NEW data \in Seq(S), NEW k \in Nat, NEW p \in Seq(S), NEW q \in Seq(S),
         At(data, k, p \o q)
  PROVE  At(data, k, p) /\ At(data, k + Len(p), q)
<1>1. Len(p \o q) = Len(p) + Len(q) /\ Len(p) \in Nat /\ Len(q) \in Nat /\ Len(data) \in Nat
  OBVIOUS
<1>2. \A i \in 1 .. Len(p) : (p \o q)[i] = p[i]
  OBVIOUS
<1>3. \A i \in 1 .. Len(q) : (p \o q)[Len(p) + i] = q[i]
  OBVIOUS
<1>4. At(data, k, p)
  <2>1. ASSUME NEW i \in 1 .. Len(p) PROVE data[k + i] = p[i]
    <3>1. i \in 1 .. Len(p \o q)
      BY <1>1
    <3>2. data[k + i] = (p \o q)[i]
      BY <3>1 DEF At
    <3> QED
      BY <1>2, <3>2
  <2>2. k + Len(p) <= Len(data)
    <3>1. k + Len(p \o q) <= Len(data)
      BY DEF At
    <3> QED
      BY <1>1, <3>1
  <2> QED
    BY <2>1, <2>2 DEF At
<1>5. At(data, k + Len(p), q)
  <2>1. ASSUME NEW i \in 1 .. Len(q) PROVE data[k + Len(p) + i] = q[i]
    <3>1. Len(p) + i \in 1 .. Len(p \o q)
      BY <1>1
    <3>2. data[k + (Len(p) + i)] = (p \o q)[Len(p) + i]
      BY <3>1 DEF At
    <3>3. k + (Len(p) + i) = k + Len(p) + i
      BY <1>1
    <3> QED
      BY <1>3, <3>2, <3>3
  <2> QED
    BY <1>1, <2>1 DEF At
<1> QED
  BY <1>4, <1>5

\* A cut behind a part leaves it.
LEMMA AtPrefix ==
  ASSUME NEW S, NEW data \in Seq(S), NEW k \in Nat, NEW p \in Seq(S), At(data, k, p),
         NEW m \in 0 .. Len(data), k + Len(p) <= m
  PROVE  At(SubSeq(data, 1, m), k, p)
<1>1. Len(data) \in Nat /\ m \in Nat /\ Len(p) \in Nat
  OBVIOUS
<1>2. Len(SubSeq(data, 1, m)) = m /\ \A i \in 1 .. m : SubSeq(data, 1, m)[i] = data[i]
  OBVIOUS
<1>3. \A i \in 1 .. Len(p) : k + i \in 1 .. m
  BY <1>1
<1> QED
  BY <1>2, <1>3 DEF At

\* A text takes four bytes more than it has.
LEMMA WriteStrType ==
  ASSUME NEW str \in Seq(Byte)
  PROVE  WriteStr(str) \in Seq(Byte) /\ Len(WriteStr(str)) = 4 + Len(str) /\ Len(str) \in Nat
<1>1. Len(str) \in Nat
  OBVIOUS
<1>2. WriteVal(Len(str), 4) \in Seq(Byte) /\ Len(WriteVal(Len(str), 4)) = 4
  BY <1>1, WriteValType
<1>3. \A w \in Seq(Byte) : w \o str \in Seq(Byte) /\ Len(w \o str) = Len(w) + Len(str)
  OBVIOUS
<1> QED
  BY <1>1, <1>2, <1>3 DEF WriteStr

\* A read across the end fails.
LEMMA ReadValShort ==
  ASSUME NEW data, NEW at, NEW width, at + width > Len(data)
  PROVE  ReadVal(data, at, width) = Short
BY DEF ReadVal

\* Where a text is, its length is, and itself four bytes later.
LEMMA AtStr ==
  ASSUME NEW data \in Seq(Byte), NEW at \in Nat, NEW str \in Text, At(data, at, WriteStr(str))
  PROVE  /\ At(data, at, WriteVal(Len(str), 4))
         /\ At(data, at + 4, str)
         /\ str \in Seq(Byte) /\ Len(str) \in Nat /\ Len(str) < Shift[4]
<1>1. str \in Seq(Byte) /\ Len(str) \in Nat /\ Len(str) < Shift[4]
  BY DEF Text
<1>2. WriteVal(Len(str), 4) \in Seq(Byte) /\ Len(WriteVal(Len(str), 4)) = 4
  BY <1>1, WriteValType
<1>3. At(data, at, WriteVal(Len(str), 4) \o str)
  BY DEF WriteStr
<1>4. At(data, at, WriteVal(Len(str), 4)) /\ At(data, at + Len(WriteVal(Len(str), 4)), str)
  BY <1>1, <1>2, <1>3, AtConcat
<1> QED
  BY <1>1, <1>2, <1>4

\* A text that was written is read.
LEMMA ReadStrAt ==
  ASSUME NEW data \in Seq(Byte), NEW at \in Nat, NEW str \in Text, At(data, at, WriteStr(str))
  PROVE  ReadStr(data, at) = [ok |-> TRUE, val |-> str, at |-> at + 4 + Len(str)]
<1>1. /\ At(data, at, WriteVal(Len(str), 4)) /\ At(data, at + 4, str)
      /\ str \in Seq(Byte) /\ Len(str) \in Nat /\ Len(str) < Shift[4]
  BY AtStr
<1>2. ReadVal(data, at, 4) = [ok |-> TRUE, val |-> Len(str), at |-> at + 4]
  BY <1>1, ReadValAt
<1>3. SubSeq(data, at + 4 + 1, at + 4 + Len(str)) = str /\ at + 4 + Len(str) <= Len(data)
  <2>1. at + 4 + Len(str) <= Len(data) /\ \A i \in 1 .. Len(str) : data[at + 4 + i] = str[i]
    BY <1>1 DEF At
  <2> DEFINE s == SubSeq(data, at + 4 + 1, at + 4 + Len(str))
  <2>2. s \in Seq(Byte) /\ Len(s) = Len(str) /\ \A i \in 1 .. Len(str) : s[i] = data[at + 4 + i]
    BY <1>1, <2>1
  <2> HIDE DEF s
  <2>3. s = str
    BY <1>1, <2>1, <2>2
  <2> QED
    BY <2>1, <2>3 DEF s
<1>4. ~(at + 4 + Len(str) > Len(data))
  BY <1>1, <1>3
<1>5. ReadStr(data, at) = [ok  |-> TRUE,
                           val |-> SubSeq(data, at + 4 + 1, at + 4 + Len(str)),
                           at  |-> at + 4 + Len(str)]
  <2> DEFINE len == ReadVal(data, at, 4)
  <2>1. len.ok = TRUE /\ len.val = Len(str) /\ len.at = at + 4
    BY <1>2
  <2>2. ReadStr(data, at) = IF ~len.ok \/ len.at + len.val > Len(data) THEN Short
                            ELSE [ok  |-> TRUE,
                                  val |-> SubSeq(data, len.at + 1, len.at + len.val),
                                  at  |-> len.at + len.val]
    BY Zenon DEF ReadStr
  <2> HIDE DEF len
  <2>3. ~(~len.ok \/ len.at + len.val > Len(data))
    BY <1>4, <2>1
  <2> QED
    BY <2>1, <2>2, <2>3
<1> QED
  BY <1>3, <1>5

\* One that was cut is not.
LEMMA ReadStrCut ==
  ASSUME NEW data \in Seq(Byte), NEW at \in Nat, NEW str \in Text, At(data, at, WriteStr(str)),
         NEW m \in 0 .. Len(data), m < at + 4 + Len(str)
  PROVE  ~ReadStr(SubSeq(data, 1, m), at).ok
<1> DEFINE cut == SubSeq(data, 1, m)
<1>1. /\ At(data, at, WriteVal(Len(str), 4))
      /\ str \in Seq(Byte) /\ Len(str) \in Nat /\ Len(str) < Shift[4]
  BY AtStr
<1>2. cut \in Seq(Byte) /\ Len(cut) = m /\ m \in Nat /\ Len(data) \in Nat
  OBVIOUS
<1>3. CASE at + 4 > m
  <2>1. ReadVal(cut, at, 4) = Short
    BY <1>2, <1>3, ReadValShort
  <2> HIDE DEF cut
  <2> QED
    BY <2>1 DEF ReadStr, Short, cut
<1>4. CASE at + 4 <= m
  <2>1. WriteVal(Len(str), 4) \in Seq(Byte) /\ Len(WriteVal(Len(str), 4)) = 4
    BY <1>1, WriteValType
  <2>2. At(cut, at, WriteVal(Len(str), 4))
    BY <1>1, <1>4, <2>1, AtPrefix
  <2> HIDE DEF cut
  <2>3. ReadVal(cut, at, 4) = [ok |-> TRUE, val |-> Len(str), at |-> at + 4]
    BY <1>1, <1>2, <2>2, ReadValAt
  <2>4. at + 4 + Len(str) > Len(cut)
    BY <1>1, <1>2
  <2> QED
    BY <2>3, <2>4 DEF ReadStr, Short, cut
<1> QED
  BY <1>2, <1>3, <1>4

\* What ends the record.
Dump(info) == IF info.dump = <<>> THEN <<0>> ELSE <<1>> \o WriteStr(Head(info.dump))

\* Where the fields behind the first text begin, and the record ends.
LineAt(info) == 13 + Len(info.file)
FunctionAt(info) == LineAt(info) + 4
ContentAt(info) == FunctionAt(info) + 4 + Len(info.function)
DumpAt(info) == ContentAt(info) + 4 + Len(info.content)
EndAt(info) == DumpAt(info) + 1 + (IF info.dump = <<>> THEN 0 ELSE 4 + Len(Head(info.dump)))

\* Where the fields of a record are.
Fields(data, info) ==
  /\ At(data, 0, WriteVal(info.level, 1))
  /\ At(data, 1, WriteVal(info.timestamp, 8))
  /\ At(data, 9, WriteStr(info.file))
  /\ At(data, LineAt(info), WriteVal(info.line, 4))
  /\ At(data, FunctionAt(info), WriteStr(info.function))
  /\ At(data, ContentAt(info), WriteStr(info.content))
  /\ IF info.dump = <<>> THEN At(data, DumpAt(info), WriteVal(0, 1))
     ELSE /\ At(data, DumpAt(info), WriteVal(1, 1))
          /\ At(data, DumpAt(info) + 1, WriteStr(Head(info.dump)))

\* Types of the fields.
LEMMA RecordType ==
  ASSUME NEW info \in Record
  PROVE  /\ info.level \in Byte /\ info.timestamp \in 0 .. Shift[8] - 1
         /\ info.line \in 0 .. Shift[4] - 1
         /\ info.file \in Text /\ info.function \in Text /\ info.content \in Text
         /\ info.dump \in Seq(Text) /\ Len(info.dump) <= 1
         /\ info = [level    |-> info.level,    timestamp |-> info.timestamp,
                    file     |-> info.file,     line      |-> info.line,
                    function |-> info.function, content   |-> info.content,
                    dump     |-> info.dump]
         /\ info.dump # <<>> => Head(info.dump) \in Text /\ info.dump = <<Head(info.dump)>>
<1>1. info.dump \in Seq(Text) /\ Len(info.dump) <= 1
  BY DEF Record
<1>2. ASSUME info.dump # <<>> PROVE Head(info.dump) \in Text /\ info.dump = <<Head(info.dump)>>
  BY <1>1, <1>2
<1> QED
  BY <1>1, <1>2 DEF Record

\* The positions are numbers.
LEMMA PositionsType ==
  ASSUME NEW info \in Record
  PROVE  /\ LineAt(info) \in Nat /\ FunctionAt(info) \in Nat /\ ContentAt(info) \in Nat
         /\ DumpAt(info) \in Nat /\ EndAt(info) \in Nat
         /\ Len(info.file) \in Nat /\ Len(info.function) \in Nat /\ Len(info.content) \in Nat
         /\ info.dump # <<>> => Len(Head(info.dump)) \in Nat
<1>1. \A s \in Text : Len(s) \in Nat
  BY DEF Text
<1>2. Len(info.file) \in Nat /\ Len(info.function) \in Nat /\ Len(info.content) \in Nat
  BY <1>1, RecordType
<1>3. info.dump # <<>> => Len(Head(info.dump)) \in Nat
  BY <1>1, RecordType
<1>4. LineAt(info) \in Nat /\ FunctionAt(info) \in Nat
  BY <1>2 DEF LineAt, FunctionAt
<1>a. \A k, n \in Nat : k + 4 + n \in Nat /\ k + 1 + (4 + n) \in Nat /\ k + 1 + 0 \in Nat
  OBVIOUS
<1>5. ContentAt(info) \in Nat
  BY <1>2, <1>4, <1>a, Zenon DEF ContentAt
<1>6. DumpAt(info) \in Nat
  BY <1>2, <1>5, <1>a, Zenon DEF DumpAt
<1>7. EndAt(info) \in Nat
  <2>1. CASE info.dump = <<>>
    BY <1>6, <1>a, <2>1, Zenon DEF EndAt
  <2>2. CASE info.dump # <<>>
    BY <1>3, <1>6, <1>a, <2>2, Zenon DEF EndAt
  <2> QED
    BY <2>1, <2>2
<1> QED
  BY <1>2, <1>3, <1>4, <1>5, <1>6, <1>7

\* Serialize puts the fields there.
LEMMA SerializeFields ==
  ASSUME NEW info \in Record
  PROVE  /\ Serialize(info) \in Seq(Byte) /\ Len(Serialize(info)) = EndAt(info)
         /\ Fields(Serialize(info), info)
<1> DEFINE a == WriteVal(info.level, 1)
           b == WriteVal(info.timestamp, 8)
           c == WriteStr(info.file)
           d == WriteVal(info.line, 4)
           e == WriteStr(info.function)
           f == WriteStr(info.content)
           g == Dump(info)
           full == Serialize(info)
<1> USE LogInfoAssumption
<1>0. \A s \in Text : s \in Seq(Byte)
  BY DEF Text
<1>1. a \in Seq(Byte) /\ Len(a) = 1 /\ b \in Seq(Byte) /\ Len(b) = 8 /\ d \in Seq(Byte) /\ Len(d) = 4
  <2>1. info.level \in Nat /\ info.timestamp \in Nat /\ info.line \in Nat
    <3>1. Shift[8] \in Nat /\ Shift[4] \in Nat
      BY ShiftFacts
    <3> QED
      BY <3>1, RecordType DEF Byte
  <2> QED
    BY <2>1, WriteValType
<1>2. /\ c \in Seq(Byte) /\ Len(c) = 4 + Len(info.file)
      /\ e \in Seq(Byte) /\ Len(e) = 4 + Len(info.function)
      /\ f \in Seq(Byte) /\ Len(f) = 4 + Len(info.content)
  BY <1>0, RecordType, WriteStrType
<1>3. g \in Seq(Byte) /\ Len(g) = EndAt(info) - DumpAt(info)
  <2>1. CASE info.dump = <<>>
    <3>1. g = <<0>> /\ 0 \in Byte
      BY <2>1 DEF Dump, Byte
    <3> QED
      BY <2>1, <3>1, PositionsType DEF EndAt
  <2>2. CASE info.dump # <<>>
    <3> DEFINE w == WriteStr(Head(info.dump))
    <3>1. w \in Seq(Byte) /\ Len(w) = 4 + Len(Head(info.dump)) /\ Len(Head(info.dump)) \in Nat
      BY <1>0, <2>2, RecordType, WriteStrType
    <3>2. g = <<1>> \o w /\ 1 \in Byte
      BY <2>2 DEF Dump, Byte
    <3> HIDE DEF w, g
    <3>3. g \in Seq(Byte) /\ Len(g) = 1 + Len(w)
      <4> DEFINE h == <<1>>
      <4>1. h \in Seq(Byte) /\ Len(h) = 1 /\ g = h \o w
        BY <3>2
      <4>2. \A s, t \in Seq(Byte) : s \o t \in Seq(Byte) /\ Len(s \o t) = Len(s) + Len(t)
        OBVIOUS
      <4> HIDE DEF h
      <4> QED
        BY <3>1, <4>1, <4>2
    <3>4. EndAt(info) = DumpAt(info) + 1 + (4 + Len(Head(info.dump))) /\ DumpAt(info) \in Nat
      BY <2>2, PositionsType DEF EndAt
    <3> QED
      BY <3>1, <3>3, <3>4
  <2> QED
    BY <2>1, <2>2
<1> DEFINE x2 == a \o b
           x3 == x2 \o c
           x4 == x3 \o d
           x5 == x4 \o e
           x6 == x5 \o f
<1>4. full = x6 \o g
  BY DEF Serialize, Dump
<1> HIDE DEF a, b, c, d, e, f, g, full
<1>c. \A s, t \in Seq(Byte) : s \o t \in Seq(Byte) /\ Len(s \o t) = Len(s) + Len(t)
  OBVIOUS
<1>l. /\ LineAt(info) = 9 + Len(c) /\ FunctionAt(info) = LineAt(info) + Len(d)
      /\ ContentAt(info) = FunctionAt(info) + Len(e) /\ DumpAt(info) = ContentAt(info) + Len(f)
      /\ EndAt(info) = DumpAt(info) + Len(g)
  <2>1. \A n, k \in Nat : 13 + n = 9 + (4 + n) /\ k + 4 + n = k + (4 + n)
    OBVIOUS
  <2>2. LineAt(info) = 9 + Len(c)
    BY <1>2, <2>1, PositionsType, Zenon DEF LineAt
  <2>3. FunctionAt(info) = LineAt(info) + Len(d)
    BY <1>1, Zenon DEF FunctionAt
  <2>4. ContentAt(info) = FunctionAt(info) + Len(e)
    <3>1. ContentAt(info) = FunctionAt(info) + 4 + Len(info.function)
      BY Zenon DEF ContentAt
    <3>2. FunctionAt(info) + 4 + Len(info.function) = FunctionAt(info) + (4 + Len(info.function))
      BY <2>1, PositionsType, Zenon
    <3> QED
      BY <1>2, <3>1, <3>2, Zenon
  <2>5. DumpAt(info) = ContentAt(info) + Len(f)
    <3>1. DumpAt(info) = ContentAt(info) + 4 + Len(info.content)
      BY Zenon DEF DumpAt
    <3>2. ContentAt(info) + 4 + Len(info.content) = ContentAt(info) + (4 + Len(info.content))
      BY <2>1, PositionsType, Zenon
    <3> QED
      BY <1>2, <3>1, <3>2, Zenon
  <2>6. EndAt(info) = DumpAt(info) + Len(g)
    <3>1. \A n, k \in Nat : n = k + (n - k)
      OBVIOUS
    <3>2. EndAt(info) = DumpAt(info) + (EndAt(info) - DumpAt(info))
      BY <3>1, PositionsType, Zenon
    <3> QED
      BY <1>3, <3>2, Zenon
  <2> QED
    BY <2>2, <2>3, <2>4, <2>5, <2>6
<1>x2. x2 \in Seq(Byte) /\ Len(x2) = 9
  <2>1. x2 \in Seq(Byte) /\ Len(x2) = Len(a) + Len(b)
    BY <1>1, <1>c
  <2> QED
    BY <1>1, <2>1
<1> HIDE DEF x2
<1>x3. x3 \in Seq(Byte) /\ Len(x3) = LineAt(info)
  BY <1>2, <1>c, <1>l, <1>x2
<1> HIDE DEF x3
<1>x4. x4 \in Seq(Byte) /\ Len(x4) = FunctionAt(info)
  BY <1>1, <1>c, <1>l, <1>x3
<1> HIDE DEF x4
<1>x5. x5 \in Seq(Byte) /\ Len(x5) = ContentAt(info)
  BY <1>2, <1>c, <1>l, <1>x4
<1> HIDE DEF x5
<1>x6. x6 \in Seq(Byte) /\ Len(x6) = DumpAt(info)
  BY <1>2, <1>c, <1>l, <1>x5
<1> HIDE DEF x6
<1>5. full \in Seq(Byte) /\ Len(full) = EndAt(info)
  BY <1>3, <1>4, <1>c, <1>l, <1>x6
<1>6. At(full, 0, full)
  BY <1>5, PositionsType DEF At
<1>z. \A n \in Nat : 0 + n = n
  OBVIOUS
<1>7. At(full, 0, x6) /\ At(full, DumpAt(info), g)
  <2>1. At(full, 0, x6) /\ At(full, 0 + Len(x6), g)
    BY <1>3, <1>4, <1>5, <1>6, <1>x6, AtConcat
  <2> QED
    BY <1>x6, <1>z, <2>1, PositionsType
<1>8. At(full, 0, x5) /\ At(full, ContentAt(info), f)
  <2>1. At(full, 0, x5) /\ At(full, 0 + Len(x5), f)
    BY <1>2, <1>5, <1>7, <1>x5, AtConcat DEF x6
  <2> QED
    BY <1>x5, <1>z, <2>1, PositionsType
<1>9. At(full, 0, x4) /\ At(full, FunctionAt(info), e)
  <2>1. At(full, 0, x4) /\ At(full, 0 + Len(x4), e)
    BY <1>2, <1>5, <1>8, <1>x4, AtConcat DEF x5
  <2> QED
    BY <1>x4, <1>z, <2>1, PositionsType
<1>10. At(full, 0, x3) /\ At(full, LineAt(info), d)
  <2>1. At(full, 0, x3) /\ At(full, 0 + Len(x3), d)
    BY <1>1, <1>5, <1>9, <1>x3, AtConcat DEF x4
  <2> QED
    BY <1>x3, <1>z, <2>1, PositionsType
<1>11. At(full, 0, x2) /\ At(full, 9, c)
  <2>1. At(full, 0, x2) /\ At(full, 0 + Len(x2), c)
    BY <1>2, <1>5, <1>10, <1>x2, AtConcat DEF x3
  <2> QED
    BY <1>x2, <1>z, <2>1
<1>12. At(full, 0, a) /\ At(full, 1, b)
  <2>1. At(full, 0, a) /\ At(full, 0 + Len(a), b)
    BY <1>1, <1>5, <1>11, AtConcat DEF x2
  <2> QED
    BY <1>1, <1>z, <2>1
<1>13. \A k \in Nat, v \in {0, 1} : At(full, k, <<v>>) => At(full, k, WriteVal(v, 1))
  <2>1. \A v \in {0, 1} : Len(WriteVal(v, 1)) = 1 /\ WriteVal(v, 1)[1] = v
    <3> TAKE v \in {0, 1}
    <3>1. WriteVal(v, 1)[1] = (v \div Shift[1 - 1]) % Base
      BY DEF WriteVal
    <3>2. Shift[1 - 1] = 1
      BY ShiftFacts
    <3>3. (v \div 1) % Base = v
      OBVIOUS
    <3>4. Len(WriteVal(v, 1)) = 1
      <4>1. v \in Nat /\ 1 \in Nat
        OBVIOUS
      <4> QED
        BY <4>1, WriteValType
    <3> QED
      BY <3>1, <3>2, <3>3, <3>4
  <2> TAKE k \in Nat, v \in {0, 1}
  <2> DEFINE w == WriteVal(v, 1)
             o == <<v>>
  <2>2. Len(w) = 1 /\ w[1] = v /\ Len(o) = 1 /\ o[1] = v
    BY <2>1
  <2> HIDE DEF w, o
  <2>3. At(full, k, o) => At(full, k, w)
    BY <2>2 DEF At
  <2> QED
    BY <2>3 DEF w, o
<1>14. IF info.dump = <<>> THEN At(full, DumpAt(info), WriteVal(0, 1))
       ELSE At(full, DumpAt(info), WriteVal(1, 1)) /\ At(full, DumpAt(info) + 1, WriteStr(Head(info.dump)))
  <2>1. CASE info.dump = <<>>
    <3>1. g = <<0>>
      BY <2>1 DEF Dump, g
    <3> QED
      BY <1>7, <1>13, <2>1, <3>1, PositionsType
  <2>2. CASE info.dump # <<>>
    <3> DEFINE w == WriteStr(Head(info.dump))
               h == <<1>>
    <3>1. w \in Seq(Byte)
      BY <1>0, <2>2, RecordType, WriteStrType
    <3>2. g = h \o w /\ h \in Seq(Byte) /\ Len(h) = 1
      BY <2>2 DEF Dump, g, Byte
    <3> HIDE DEF w, h
    <3>3. At(full, DumpAt(info), h) /\ At(full, DumpAt(info) + 1, w)
      BY <1>5, <1>7, <3>1, <3>2, PositionsType, AtConcat
    <3> QED
      BY <1>13, <2>2, <3>3, PositionsType DEF h, w
  <2> QED
    BY <2>1, <2>2
<1> QED
  BY <1>5, <1>7, <1>8, <1>9, <1>10, <1>11, <1>12, <1>14 DEF Fields, a, b, c, d, e, f, full

\* The values of the integers of a record fit into their bytes.
LEMMA RecordFits ==
  ASSUME NEW info \in Record
  PROVE  /\ info.level \in Nat /\ info.level < Shift[1]
         /\ info.timestamp \in Nat /\ info.timestamp < Shift[8]
         /\ info.line \in Nat /\ info.line < Shift[4]
         /\ 0 < Shift[1] /\ 1 < Shift[1]
<1> USE LogInfoAssumption
<1>1. Shift[8] \in Nat /\ Shift[4] \in Nat
  BY ShiftFacts
<1>2. Shift[1] = Base
  <2>1. Shift[0 + 1] = Shift[0] * Base /\ Shift[0] = 1 /\ 0 + 1 = 1 /\ 1 * Base = Base
    BY ShiftFacts
  <2> QED
    BY <2>1
<1> QED
  BY <1>1, <1>2, RecordType DEF Byte

\* What Deserialize reads, in its order.
Reads(data, level, timestamp, file, line, function, content, hasDump, dump) ==
  /\ level     = ReadVal(data, 0, 1)
  /\ timestamp = ReadVal(data, level.at, 8)
  /\ file      = ReadStr(data, timestamp.at)
  /\ line      = ReadVal(data, file.at, 4)
  /\ function  = ReadStr(data, line.at)
  /\ content   = ReadStr(data, function.at)
  /\ hasDump   = ReadVal(data, content.at, 1)
  /\ dump      = ReadStr(data, hasDump.at)

\* What it makes of it.
LEMMA DeserializeReads ==
  ASSUME NEW data, NEW level, NEW timestamp, NEW file, NEW line, NEW function, NEW content,
         NEW hasDump, NEW dump,
         Reads(data, level, timestamp, file, line, function, content, hasDump, dump)
  PROVE  LET all == level.ok /\ timestamp.ok /\ file.ok /\ line.ok /\ function.ok
                      /\ content.ok /\ hasDump.ok /\ (hasDump.val # 0 => dump.ok)
         IN  /\ Deserialize(data).ok => all
             /\ all => Deserialize(data) =
                  [ok   |-> TRUE,
                   info |-> [level    |-> level.val,    timestamp |-> timestamp.val,
                             file     |-> file.val,     line      |-> line.val,
                             function |-> function.val, content   |-> content.val,
                             dump     |-> IF hasDump.val = 0 THEN <<>> ELSE <<dump.val>>]]
<1> DEFINE head == <<level, timestamp, file, line, function, content, hasDump>>
           bad == (\E i \in DOMAIN head : ~head[i].ok) \/ (hasDump.val # 0 /\ ~dump.ok)
           good == [ok   |-> TRUE,
                    info |-> [level    |-> level.val,    timestamp |-> timestamp.val,
                              file     |-> file.val,     line      |-> line.val,
                              function |-> function.val, content   |-> content.val,
                              dump     |-> IF hasDump.val = 0 THEN <<>> ELSE <<dump.val>>]]
<1>1. Deserialize(data) = IF bad THEN [ok |-> FALSE] ELSE good
  <2> DEFINE level_     == ReadVal(data, 0, 1)
             timestamp_ == ReadVal(data, level_.at, 8)
             file_      == ReadStr(data, timestamp_.at)
             line_      == ReadVal(data, file_.at, 4)
             function_  == ReadStr(data, line_.at)
             content_   == ReadStr(data, function_.at)
             hasDump_   == ReadVal(data, content_.at, 1)
             dump_      == ReadStr(data, hasDump_.at)
             head_      == <<level_, timestamp_, file_, line_, function_, content_, hasDump_>>
             bad_ == (\E i \in DOMAIN head_ : ~head_[i].ok) \/ (hasDump_.val # 0 /\ ~dump_.ok)
  <2>1. Deserialize(data) = IF bad_ THEN [ok |-> FALSE] ELSE
             [ok   |-> TRUE,
              info |-> [level    |-> level_.val,    timestamp |-> timestamp_.val,
                        file     |-> file_.val,     line      |-> line_.val,
                        function |-> function_.val, content   |-> content_.val,
                        dump     |-> IF hasDump_.val = 0 THEN <<>> ELSE <<dump_.val>>]]
    BY Zenon DEF Deserialize
  <2>2. level = level_ /\ timestamp = timestamp_
    BY Zenon DEF Reads
  <2>3. file = file_ /\ line = line_
    BY <2>2, Zenon DEF Reads
  <2>4. function = function_ /\ content = content_
    BY <2>3, Zenon DEF Reads
  <2>5. hasDump = hasDump_ /\ dump = dump_
    BY <2>4, Zenon DEF Reads
  <2> HIDE DEF level_, timestamp_, file_, line_, function_, content_, hasDump_, dump_
  <2> QED
    BY <2>1, <2>2, <2>3, <2>4, <2>5, Zenon
<1>2. bad <=> ~(level.ok /\ timestamp.ok /\ file.ok /\ line.ok /\ function.ok
                 /\ content.ok /\ hasDump.ok /\ (hasDump.val # 0 => dump.ok))
  <2>1. /\ DOMAIN head = 1 .. 7 /\ head[1] = level /\ head[2] = timestamp /\ head[3] = file
        /\ head[4] = line /\ head[5] = function /\ head[6] = content /\ head[7] = hasDump
    OBVIOUS
  <2>2. \A i \in 1 .. 7 : i = 1 \/ i = 2 \/ i = 3 \/ i = 4 \/ i = 5 \/ i = 6 \/ i = 7
    OBVIOUS
  <2>3. 1 \in 1 .. 7 /\ 2 \in 1 .. 7 /\ 3 \in 1 .. 7 /\ 4 \in 1 .. 7 /\ 5 \in 1 .. 7
        /\ 6 \in 1 .. 7 /\ 7 \in 1 .. 7
    OBVIOUS
  <2> HIDE DEF head
  <2> QED
    BY <2>1, <2>2, <2>3, Zenon
<1> HIDE DEF bad
<1>3. ~bad => Deserialize(data) = good
  BY <1>1
<1>4. bad => ~Deserialize(data).ok
  BY <1>1
<1> QED
  BY <1>2, <1>3, <1>4

\* A record whose fields are in the data is read from them.
LEMMA DeserializeFields ==
  ASSUME NEW data \in Seq(Byte), NEW info \in Record, Fields(data, info)
  PROVE  Deserialize(data) = [ok |-> TRUE, info |-> info]
<1> DEFINE level     == ReadVal(data, 0, 1)
           timestamp == ReadVal(data, level.at, 8)
           file      == ReadStr(data, timestamp.at)
           line      == ReadVal(data, file.at, 4)
           function  == ReadStr(data, line.at)
           content   == ReadStr(data, function.at)
           hasDump   == ReadVal(data, content.at, 1)
           dump      == ReadStr(data, hasDump.at)
<1>0. Reads(data, level, timestamp, file, line, function, content, hasDump, dump)
  BY DEF Reads
<1>n. 0 \in Nat /\ 1 \in Nat /\ 4 \in Nat /\ 8 \in Nat /\ 9 \in Nat /\ 1 + 8 = 9 /\ 0 + 1 = 1
  OBVIOUS
<1>1. level = [ok |-> TRUE, val |-> info.level, at |-> 1]
  <2>1. At(data, 0, WriteVal(info.level, 1))
    BY DEF Fields
  <2>2. level = [ok |-> TRUE, val |-> info.level, at |-> 0 + 1]
    BY <1>n, <2>1, ReadValAt, RecordFits
  <2> QED
    BY <1>n, <2>2
<1> HIDE DEF level
<1>2. timestamp = [ok |-> TRUE, val |-> info.timestamp, at |-> 9]
  <2>1. At(data, 1, WriteVal(info.timestamp, 8)) /\ level.at = 1
    BY <1>1 DEF Fields
  <2>2. timestamp = [ok |-> TRUE, val |-> info.timestamp, at |-> 1 + 8]
    BY <1>n, <2>1, ReadValAt, RecordFits
  <2> QED
    BY <1>n, <2>2
<1> HIDE DEF timestamp
<1>3. file = [ok |-> TRUE, val |-> info.file, at |-> LineAt(info)]
  <2>1. At(data, 9, WriteStr(info.file)) /\ timestamp.at = 9
    BY <1>2 DEF Fields
  <2>2. file = [ok |-> TRUE, val |-> info.file, at |-> 9 + 4 + Len(info.file)]
    BY <1>n, <2>1, ReadStrAt, RecordType
  <2>3. 9 + 4 + Len(info.file) = LineAt(info)
    BY PositionsType DEF LineAt
  <2> QED
    BY <2>2, <2>3
<1> HIDE DEF file
<1>4. line = [ok |-> TRUE, val |-> info.line, at |-> FunctionAt(info)]
  <2>1. At(data, LineAt(info), WriteVal(info.line, 4)) /\ file.at = LineAt(info)
    BY <1>3 DEF Fields
  <2>2. LineAt(info) \in Nat /\ info.line \in Nat /\ info.line < Shift[4]
    BY PositionsType, RecordFits
  <2>3. line = [ok |-> TRUE, val |-> info.line, at |-> LineAt(info) + 4]
    BY <1>n, <2>1, <2>2, ReadValAt
  <2> QED
    BY <2>3 DEF FunctionAt
<1> HIDE DEF line
<1>5. function = [ok |-> TRUE, val |-> info.function, at |-> ContentAt(info)]
  <2>1. At(data, FunctionAt(info), WriteStr(info.function)) /\ line.at = FunctionAt(info)
    BY <1>4 DEF Fields
  <2>2. function = [ok |-> TRUE, val |-> info.function, at |-> FunctionAt(info) + 4 + Len(info.function)]
    BY <2>1, ReadStrAt, RecordType, PositionsType
  <2> QED
    BY <2>2 DEF ContentAt
<1> HIDE DEF function
<1>6. content = [ok |-> TRUE, val |-> info.content, at |-> DumpAt(info)]
  <2>1. At(data, ContentAt(info), WriteStr(info.content)) /\ function.at = ContentAt(info)
    BY <1>5 DEF Fields
  <2>2. content = [ok |-> TRUE, val |-> info.content, at |-> ContentAt(info) + 4 + Len(info.content)]
    BY <2>1, ReadStrAt, RecordType, PositionsType
  <2> QED
    BY <2>2 DEF DumpAt
<1> HIDE DEF content
<1>7. hasDump = [ok  |-> TRUE, val |-> IF info.dump = <<>> THEN 0 ELSE 1, at  |-> DumpAt(info) + 1]
  <2>1. content.at = DumpAt(info)
    BY <1>6
  <2>2. ASSUME NEW v \in {0, 1}, At(data, DumpAt(info), WriteVal(v, 1))
        PROVE  ReadVal(data, DumpAt(info), 1) = [ok |-> TRUE, val |-> v, at |-> DumpAt(info) + 1]
    <3>1. v \in Nat /\ v < Shift[1]
      BY RecordFits
    <3> QED
      BY <1>n, <2>2, <3>1, ReadValAt, PositionsType
  <2>3. CASE info.dump = <<>>
    <3>1. At(data, DumpAt(info), WriteVal(0, 1))
      BY <2>3 DEF Fields
    <3> QED
      BY <2>1, <2>2, <2>3, <3>1
  <2>4. CASE info.dump # <<>>
    <3>1. At(data, DumpAt(info), WriteVal(1, 1))
      BY <2>4 DEF Fields
    <3> QED
      BY <2>1, <2>2, <2>4, <3>1
  <2> QED
    BY <2>3, <2>4
<1> HIDE DEF hasDump
<1>8. info.dump # <<>> => dump.ok = TRUE /\ dump.val = Head(info.dump)
  <2> SUFFICES ASSUME info.dump # <<>> PROVE dump.ok = TRUE /\ dump.val = Head(info.dump)
    OBVIOUS
  <2>1. At(data, DumpAt(info) + 1, WriteStr(Head(info.dump))) /\ hasDump.at = DumpAt(info) + 1
    BY <1>7 DEF Fields
  <2>2. DumpAt(info) + 1 \in Nat /\ Head(info.dump) \in Text
    <3>1. \A n \in Nat : n + 1 \in Nat
      OBVIOUS
    <3> QED
      BY <3>1, PositionsType, RecordType, Zenon
  <2>3. dump = [ok |-> TRUE, val |-> Head(info.dump), at |-> DumpAt(info) + 1 + 4 + Len(Head(info.dump))]
    BY <2>1, <2>2, ReadStrAt
  <2> QED
    BY <2>3
<1> HIDE DEF dump
<1>9. Deserialize(data) = [ok   |-> TRUE,
                           info |-> [level    |-> level.val,    timestamp |-> timestamp.val,
                                     file     |-> file.val,     line      |-> line.val,
                                     function |-> function.val, content   |-> content.val,
                                     dump     |-> IF hasDump.val = 0 THEN <<>> ELSE <<dump.val>>]]
  <2>1. level.ok /\ timestamp.ok /\ file.ok /\ line.ok /\ function.ok /\ content.ok /\ hasDump.ok
    BY <1>1, <1>2, <1>3, <1>4, <1>5, <1>6, <1>7
  <2>2. hasDump.val # 0 => dump.ok
    BY <1>7, <1>8
  <2> QED
    BY <1>0, <2>1, <2>2, DeserializeReads
<1>10. (IF hasDump.val = 0 THEN <<>> ELSE <<dump.val>>) = info.dump
  BY <1>7, <1>8, RecordType
<1>11. [level    |-> level.val,    timestamp |-> timestamp.val,
        file     |-> file.val,     line      |-> line.val,
        function |-> function.val, content   |-> content.val,
        dump     |-> info.dump] = info
  BY <1>1, <1>2, <1>3, <1>4, <1>5, <1>6, RecordType
<1> QED
  BY <1>9, <1>10, <1>11

\* A value that is read behind a cut is the one that was written.
LEMMA ReadValCut ==
  ASSUME NEW data \in Seq(Byte), NEW at \in Nat, NEW width \in Nat, NEW v \in Nat,
         v < Shift[width], At(data, at, WriteVal(v, width)), NEW m \in 0 .. Len(data),
         ReadVal(SubSeq(data, 1, m), at, width).ok
  PROVE  /\ ReadVal(SubSeq(data, 1, m), at, width) = [ok |-> TRUE, val |-> v, at |-> at + width]
         /\ at + width <= m
<1> DEFINE cut == SubSeq(data, 1, m)
<1>1. cut \in Seq(Byte) /\ Len(cut) = m /\ m \in Nat
  OBVIOUS
<1>2. at + width <= m
  <2>1. CASE at + width > m
    <3>1. ReadVal(cut, at, width) = Short
      BY <1>1, <2>1, ReadValShort
    <3> QED
      BY <3>1 DEF Short
  <2> QED
    BY <1>1, <2>1
<1>3. WriteVal(v, width) \in Seq(Byte) /\ Len(WriteVal(v, width)) = width
  BY WriteValType
<1>4. At(cut, at, WriteVal(v, width))
  BY <1>2, <1>3, AtPrefix
<1> HIDE DEF cut
<1>5. ReadVal(cut, at, width) = [ok |-> TRUE, val |-> v, at |-> at + width]
  BY <1>1, <1>4, ReadValAt
<1> QED
  BY <1>2, <1>5 DEF cut

\* So is a text.
LEMMA ReadStrBehind ==
  ASSUME NEW data \in Seq(Byte), NEW at \in Nat, NEW str \in Text, At(data, at, WriteStr(str)),
         NEW m \in 0 .. Len(data), ReadStr(SubSeq(data, 1, m), at).ok
  PROVE  /\ ReadStr(SubSeq(data, 1, m), at) = [ok |-> TRUE, val |-> str, at |-> at + 4 + Len(str)]
         /\ at + 4 + Len(str) <= m
<1> DEFINE cut == SubSeq(data, 1, m)
<1>1. cut \in Seq(Byte) /\ Len(cut) = m /\ m \in Nat
  OBVIOUS
<1>2. str \in Seq(Byte) /\ Len(str) \in Nat
  BY DEF Text
<1>3. at + 4 + Len(str) <= m
  <2>1. ~(m < at + 4 + Len(str))
    BY ReadStrCut
  <2> QED
    BY <1>1, <1>2, <2>1
<1>4. WriteStr(str) \in Seq(Byte) /\ Len(WriteStr(str)) = 4 + Len(str)
  BY <1>2, WriteStrType
<1>5. at + Len(WriteStr(str)) <= m
  BY <1>2, <1>3, <1>4
<1>6. At(cut, at, WriteStr(str))
  BY <1>4, <1>5, AtPrefix
<1> HIDE DEF cut
<1>7. ReadStr(cut, at) = [ok |-> TRUE, val |-> str, at |-> at + 4 + Len(str)]
  BY <1>1, <1>6, ReadStrAt
<1> QED
  BY <1>3, <1>7 DEF cut

\* Of a record that was cut nothing is made.
LEMMA DeserializeCut ==
  ASSUME NEW data \in Seq(Byte), NEW info \in Record, Fields(data, info),
         NEW m \in 0 .. Len(data), m < EndAt(info)
  PROVE  ~Deserialize(SubSeq(data, 1, m)).ok
<1> DEFINE cut       == SubSeq(data, 1, m)
           level     == ReadVal(cut, 0, 1)
           timestamp == ReadVal(cut, level.at, 8)
           file      == ReadStr(cut, timestamp.at)
           line      == ReadVal(cut, file.at, 4)
           function  == ReadStr(cut, line.at)
           content   == ReadStr(cut, function.at)
           hasDump   == ReadVal(cut, content.at, 1)
           dump      == ReadStr(cut, hasDump.at)
<1>0. Reads(cut, level, timestamp, file, line, function, content, hasDump, dump)
  BY DEF Reads
<1>n. 0 \in Nat /\ 1 \in Nat /\ 4 \in Nat /\ 8 \in Nat /\ 9 \in Nat /\ 1 + 8 = 9 /\ 0 + 1 = 1
  OBVIOUS
<1> SUFFICES ASSUME Deserialize(cut).ok PROVE FALSE
  OBVIOUS
<1>a. /\ level.ok /\ timestamp.ok /\ file.ok /\ line.ok /\ function.ok /\ content.ok /\ hasDump.ok
      /\ hasDump.val # 0 => dump.ok
  <2> HIDE DEF cut, level, timestamp, file, line, function, content, hasDump, dump
  <2> QED
    BY <1>0, DeserializeReads
<1>1. level.at = 1
  <2>1. At(data, 0, WriteVal(info.level, 1)) /\ level.ok
    BY <1>a, Zenon DEF Fields
  <2>2. level = [ok |-> TRUE, val |-> info.level, at |-> 0 + 1]
    BY <1>n, <2>1, ReadValCut, RecordFits
  <2> QED
    BY <1>n, <2>2
<1> HIDE DEF level
<1>2. timestamp.at = 9
  <2>1. At(data, 1, WriteVal(info.timestamp, 8)) /\ timestamp = ReadVal(cut, 1, 8) /\ timestamp.ok
    BY <1>1, <1>a, Zenon DEF Fields
  <2> HIDE DEF timestamp
  <2>f. info.timestamp \in Nat /\ info.timestamp < Shift[8]
    BY RecordFits
  <2>2. timestamp = [ok |-> TRUE, val |-> info.timestamp, at |-> 1 + 8]
    <3>1. ReadVal(SubSeq(data, 1, m), 1, 8).ok
      BY <2>1
    <3> HIDE DEF cut
    <3>2. ReadVal(SubSeq(data, 1, m), 1, 8) = [ok |-> TRUE, val |-> info.timestamp, at |-> 1 + 8]
      BY <1>n, <2>1, <2>f, <3>1, ReadValCut
    <3> QED
      BY <2>1, <3>2 DEF cut
  <2> QED
    BY <1>n, <2>2
<1> HIDE DEF timestamp
<1>3. file.at = LineAt(info)
  <2>1. At(data, 9, WriteStr(info.file)) /\ file = ReadStr(cut, 9) /\ file.ok
    BY <1>2, <1>a, Zenon DEF Fields
  <2> HIDE DEF file
  <2>f. info.file \in Text
    BY RecordType
  <2>2. file = [ok |-> TRUE, val |-> info.file, at |-> 9 + 4 + Len(info.file)]
    <3>1. ReadStr(SubSeq(data, 1, m), 9).ok
      BY <2>1
    <3> HIDE DEF cut
    <3>2. ReadStr(SubSeq(data, 1, m), 9) = [ok |-> TRUE, val |-> info.file, at |-> 9 + 4 + Len(info.file)]
      BY <1>n, <2>1, <2>f, <3>1, ReadStrBehind
    <3> QED
      BY <2>1, <3>2 DEF cut
  <2>3. 9 + 4 + Len(info.file) = LineAt(info)
    BY PositionsType DEF LineAt
  <2> QED
    BY <2>2, <2>3
<1> HIDE DEF file
<1>4. line.at = FunctionAt(info)
  <2>1. At(data, LineAt(info), WriteVal(info.line, 4)) /\ line = ReadVal(cut, LineAt(info), 4) /\ line.ok
    BY <1>3, <1>a, Zenon DEF Fields
  <2> HIDE DEF line
  <2>2. LineAt(info) \in Nat /\ info.line \in Nat /\ info.line < Shift[4]
    BY PositionsType, RecordFits
  <2>3. line = [ok |-> TRUE, val |-> info.line, at |-> LineAt(info) + 4]
    BY <1>n, <2>1, <2>2, ReadValCut
  <2> QED
    BY <2>3 DEF FunctionAt
<1> HIDE DEF line
<1>5. function.at = ContentAt(info)
  <2>1. At(data, FunctionAt(info), WriteStr(info.function)) /\ function = ReadStr(cut, FunctionAt(info)) /\ function.ok
    BY <1>4, <1>a, Zenon DEF Fields
  <2> HIDE DEF function
  <2>2. function = [ok |-> TRUE, val |-> info.function, at |-> FunctionAt(info) + 4 + Len(info.function)]
    BY <2>1, ReadStrBehind, RecordType, PositionsType
  <2> QED
    BY <2>2 DEF ContentAt
<1> HIDE DEF function
<1>6. content.at = DumpAt(info)
  <2>1. At(data, ContentAt(info), WriteStr(info.content)) /\ content = ReadStr(cut, ContentAt(info)) /\ content.ok
    BY <1>5, <1>a, Zenon DEF Fields
  <2> HIDE DEF content
  <2>2. content = [ok |-> TRUE, val |-> info.content, at |-> ContentAt(info) + 4 + Len(info.content)]
    BY <2>1, ReadStrBehind, RecordType, PositionsType
  <2> QED
    BY <2>2 DEF DumpAt
<1> HIDE DEF content
<1>7. ASSUME NEW v \in {0, 1}, At(data, DumpAt(info), WriteVal(v, 1))
      PROVE  hasDump.val = v /\ hasDump.at = DumpAt(info) + 1 /\ DumpAt(info) + 1 <= m
  <2>1. hasDump = ReadVal(cut, DumpAt(info), 1) /\ hasDump.ok
    BY <1>6, <1>a, Zenon
  <2> HIDE DEF hasDump
  <2>2. v \in Nat /\ v < Shift[1] /\ DumpAt(info) \in Nat
    BY RecordFits, PositionsType
  <2>3. hasDump = [ok |-> TRUE, val |-> v, at |-> DumpAt(info) + 1] /\ DumpAt(info) + 1 <= m
    BY <1>n, <1>7, <2>1, <2>2, ReadValCut
  <2> QED
    BY <2>3
<1> HIDE DEF hasDump
<1>8. CASE info.dump = <<>>
  <2>1. At(data, DumpAt(info), WriteVal(0, 1))
    BY <1>8, Zenon DEF Fields
  <2>2. DumpAt(info) + 1 <= m
    BY <1>7, <2>1
  <2>3. EndAt(info) = DumpAt(info) + 1 /\ DumpAt(info) \in Nat
    BY <1>8, PositionsType DEF EndAt
  <2> QED
    BY <2>2, <2>3
<1>9. CASE info.dump # <<>>
  <2>1. At(data, DumpAt(info), WriteVal(1, 1)) /\ At(data, DumpAt(info) + 1, WriteStr(Head(info.dump)))
    BY <1>9, Zenon DEF Fields
  <2>2. hasDump.val = 1 /\ hasDump.at = DumpAt(info) + 1
    BY <1>7, <2>1
  <2>3. dump = ReadStr(cut, DumpAt(info) + 1) /\ dump.ok
    BY <1>a, <2>2
  <2> HIDE DEF dump
  <2> DEFINE k == DumpAt(info) + 1
  <2>4. k \in Nat /\ Head(info.dump) \in Text /\ Len(Head(info.dump)) \in Nat
    <3>1. \A n \in Nat : n + 1 \in Nat
      OBVIOUS
    <3> QED
      BY <1>9, <3>1, PositionsType, RecordType, Zenon
  <2>5. EndAt(info) = k + (4 + Len(Head(info.dump)))
    BY <1>9, Zenon DEF EndAt
  <2> HIDE DEF k
  <2>6. k + 4 + Len(Head(info.dump)) <= m
    BY <2>1, <2>3, <2>4, ReadStrBehind DEF k
  <2>7. \A i, n \in Nat : i + 4 + n = i + (4 + n)
    OBVIOUS
  <2>8. EndAt(info) <= m
    BY <2>4, <2>5, <2>6, <2>7, Zenon
  <2> QED
    BY <2>8, PositionsType
<1> QED
  BY <1>8, <1>9

\* A record that is serialised is read back as it was, and any part of it that
\* was cut off at the end makes Deserialize fail (LogInfo.cpp).
THEOREM CodecCorrect ==
  ASSUME NEW info \in Record
  PROVE  /\ Deserialize(Serialize(info)) = [ok |-> TRUE, info |-> info]
         /\ \A m \in 0 .. Len(Serialize(info)) :
              m < Len(Serialize(info)) => ~Deserialize(SubSeq(Serialize(info), 1, m)).ok
<1>1. /\ Serialize(info) \in Seq(Byte) /\ Len(Serialize(info)) = EndAt(info)
      /\ Fields(Serialize(info), info)
  BY SerializeFields
<1>2. Deserialize(Serialize(info)) = [ok |-> TRUE, info |-> info]
  BY <1>1, DeserializeFields
<1>3. ASSUME NEW m \in 0 .. Len(Serialize(info)), m < Len(Serialize(info))
      PROVE  ~Deserialize(SubSeq(Serialize(info), 1, m)).ok
  BY <1>1, <1>3, DeserializeCut
<1> QED
  BY <1>2, <1>3

-----------------------------------------------------------------------------
(* The packet and what the service makes of it.                            *)

\* The lesser of two numbers.
LEMMA MinPair ==
  ASSUME NEW a \in Nat, NEW b \in Nat
  PROVE  Min({a, b}) = IF a <= b THEN a ELSE b
<1>1. CASE a <= b
  <2>1. a \in {a, b} /\ \A y \in {a, b} : a <= y
    BY <1>1
  <2>2. \A x \in {a, b} : (\A y \in {a, b} : x <= y) => x = a
    BY <1>1
  <2> QED
    BY <1>1, <2>1, <2>2 DEF Min
<1>2. CASE ~(a <= b)
  <2>1. b \in {a, b} /\ \A y \in {a, b} : b <= y
    BY <1>2
  <2>2. \A x \in {a, b} : (\A y \in {a, b} : x <= y) => x = b
    BY <1>2
  <2> QED
    BY <1>2, <2>1, <2>2 DEF Min
<1> QED
  BY <1>1, <1>2

\* A cut behind the first part is a cut of the second.
LEMMA CutBehind ==
  ASSUME NEW S, NEW p \in Seq(S), NEW q \in Seq(S), NEW m \in 0 .. Len(q), NEW n,
         n = Len(p) + m
  PROVE  SubSeq(SubSeq(p \o q, 1, n), Len(p) + 1, n) = SubSeq(q, 1, m)
<1> DEFINE pq == p \o q
           c == SubSeq(pq, 1, n)
           l == SubSeq(c, Len(p) + 1, n)
           r == SubSeq(q, 1, m)
<1>1. Len(p) \in Nat /\ Len(q) \in Nat /\ n \in Nat
  OBVIOUS
<1>2. /\ pq \in Seq(S) /\ Len(pq) = Len(p) + Len(q)
      /\ \A i \in 1 .. Len(q) : pq[Len(p) + i] = q[i]
  OBVIOUS
<1> HIDE DEF pq
<1>3. c \in Seq(S) /\ Len(c) = n /\ \A i \in 1 .. n : c[i] = pq[i]
  BY <1>1, <1>2
<1> HIDE DEF c
<1>4. l \in Seq(S) /\ Len(l) = m /\ \A i \in 1 .. m : l[i] = c[Len(p) + i]
  BY <1>1, <1>3
<1>5. r \in Seq(S) /\ Len(r) = m /\ \A i \in 1 .. m : r[i] = q[i]
  BY <1>1
<1> HIDE DEF l, r
<1>6. ASSUME NEW i \in 1 .. m PROVE l[i] = r[i]
  <2>1. Len(p) + i \in 1 .. n /\ i \in 1 .. Len(q)
    BY <1>1
  <2> QED
    BY <1>2, <1>3, <1>4, <1>5, <2>1, Zenon
<1>7. l = r
  BY <1>4, <1>5, <1>6
<1> QED
  BY <1>7 DEF l, r, c, pq

\* A record is written when its packet fits into the buffer, and left out when not.
LEMMA PacketHandled ==
  ASSUME NEW info \in Infos, seq \in Nat
  PROVE  HandleLogData(Packet(info)) <=> IF Len(Packet(info)) <= Room THEN Write(info)
                                         ELSE UNCHANGED writer
<1> USE LogInfoAssumption, LogWriterAssumption
<1> DEFINE data == Packet(info)
           ser == Serialize(info)
           head == WriteVal(seq, 4)
           n == Min({Room, Len(data)})
           buffer == SubSeq(data, 1, n)
           rest == SubSeq(buffer, 5, Len(buffer))
           parsed == Deserialize(rest)
<1>1. info \in Record /\ Room \in Nat
  OBVIOUS
<1>2. ser \in Seq(Byte) /\ Len(ser) = EndAt(info) /\ EndAt(info) \in Nat /\ Fields(ser, info)
  BY <1>1, SerializeFields, PositionsType
<1>3. head \in Seq(Byte) /\ Len(head) = 4
  BY WriteValType
<1>4. data = head \o ser
  BY DEF Packet
<1> HIDE DEF ser, head
<1>c. \A s, t \in Seq(Byte) : s \o t \in Seq(Byte) /\ Len(s \o t) = Len(s) + Len(t)
  OBVIOUS
<1> DEFINE all == Len(data)
           end == EndAt(info)
<1>5. data \in Seq(Byte) /\ all = 4 + end /\ all \in Nat /\ Len(ser) = end /\ end \in Nat
  <2>1. data \in Seq(Byte) /\ all = Len(head) + Len(ser)
    BY <1>2, <1>3, <1>4, <1>c, Zenon
  <2>2. all = 4 + end
    BY <1>2, <1>3, <2>1, Zenon
  <2>3. \A i \in Nat : 4 + i \in Nat
    OBVIOUS
  <2> QED
    BY <1>2, <2>1, <2>2, <2>3, Zenon
<1> HIDE DEF all, end
<1>6. n = IF Room <= all THEN Room ELSE all
  BY <1>1, <1>5, MinPair DEF all
<1>7. n \in 0 .. all
  BY <1>1, <1>5, <1>6
<1> HIDE DEF n, data
<1>8. buffer \in Seq(Byte) /\ Len(buffer) = n
  <2>1. \A s \in Seq(Byte), i \in Nat : i <= Len(s) => SubSeq(s, 1, i) \in Seq(Byte) /\ Len(SubSeq(s, 1, i)) = i
    OBVIOUS
  <2>2. n \in Nat /\ n <= Len(data)
    BY <1>5, <1>7 DEF all
  <2> QED
    BY <1>5, <2>1, <2>2, Zenon
<1>9. HandleLogData(data) <=>
        IF Len(buffer) >= 4 /\ parsed.ok THEN Write(parsed.info) ELSE UNCHANGED writer
  BY Zenon DEF HandleLogData, n
<1>10. ASSUME n >= 4 PROVE rest = SubSeq(ser, 1, n - 4)
  <2>1. n - 4 \in 0 .. Len(ser) /\ n = Len(head) + (n - 4)
    <3>1. n - 4 \in 0 .. end /\ n = 4 + (n - 4)
      BY <1>5, <1>7, <1>10
    <3> QED
      BY <1>3, <1>5, <3>1, Zenon
  <2>2. SubSeq(SubSeq(head \o ser, 1, n), Len(head) + 1, n) = SubSeq(ser, 1, n - 4)
    BY <1>2, <1>3, <2>1, CutBehind
  <2>3. Len(head) + 1 = 5
    BY <1>3
  <2> HIDE DEF buffer
  <2>4. rest = SubSeq(buffer, 5, n)
    BY <1>8
  <2> HIDE DEF rest
  <2>5. rest = SubSeq(SubSeq(head \o ser, 1, n), 5, n)
    BY <1>4, <2>4, Zenon DEF buffer
  <2> QED
    BY <2>2, <2>3, <2>5, Zenon
<1>11. CASE all <= Room
  <2>1. n >= 4 /\ n - 4 = Len(ser)
    <3>1. n >= 4 /\ n - 4 = end
      BY <1>1, <1>5, <1>6, <1>11
    <3> QED
      BY <1>5, <3>1, Zenon
  <2>2. \A s \in Seq(Byte) : SubSeq(s, 1, Len(s)) = s
    OBVIOUS
  <2>3. rest = ser
    BY <1>2, <1>10, <2>1, <2>2
  <2>4. parsed = [ok |-> TRUE, info |-> info]
    BY <1>1, <1>2, <2>3, DeserializeFields
  <2> HIDE DEF parsed, buffer
  <2> QED
    BY <1>8, <1>9, <1>11, <2>1, <2>4 DEF data, all
<1>12. CASE ~(all <= Room)
  <2>1. ASSUME n >= 4 PROVE ~parsed.ok
    <3>1. n - 4 \in 0 .. Len(ser) /\ n - 4 < EndAt(info)
      <4>1. n - 4 \in 0 .. end /\ n - 4 < end
        BY <1>1, <1>5, <1>6, <1>12, <2>1
      <4> QED
        BY <1>5, <4>1, Zenon DEF end
    <3>2. ~Deserialize(SubSeq(ser, 1, n - 4)).ok
      BY <1>1, <1>2, <3>1, DeserializeCut
    <3> QED
      BY <1>10, <2>1, <3>2, Zenon
  <2> HIDE DEF parsed, buffer
  <2> QED
    BY <1>8, <1>9, <1>12, <2>1 DEF data, all
<1> QED
  BY <1>11, <1>12

-----------------------------------------------------------------------------
(* Lines of several files.                                                  *)

\* The recursion of FlattenSeq.
Flats(f, s) == f = [i \in 1 .. Len(s) |-> IF i = 1 THEN s[i] ELSE f[i - 1] \o s[i]]

\* It defines a function.
LEMMA FlatsExists ==
  ASSUME NEW S, NEW s \in Seq(Seq(S)), Len(s) # 0
  PROVE  \E f : Flats(f, s)
<1> DEFINE V == Seq(S)
           d == [p \in Nat \X V |-> IF p[1] + 2 <= Len(s) THEN p[2] \o s[p[1] + 2] ELSE <<>>]
<1>1. Len(s) \in Nat /\ \A i \in 1 .. Len(s) : s[i] \in V
  OBVIOUS
<1>2. d \in [Nat \X V -> V] /\ s[1] \in V
  <2>1. ASSUME NEW i \in Nat, NEW v \in V, i + 2 <= Len(s) PROVE v \o s[i + 2] \in V
    <3>1. s[i + 2] \in V
      <4>1. i + 2 \in 1 .. Len(s)
        BY <1>1, <2>1
      <4> QED
        BY <1>1, <4>1
    <3> QED
      BY <3>1
  <2>2. <<>> \in V /\ s[1] \in V
    BY <1>1
  <2> HIDE DEF V
  <2> QED
    BY <2>1, <2>2
<1>3. ASSUME NEW i \in 2 .. Len(s), NEW v \in V PROVE d[<<i - 2, v>>] = v \o s[i]
  <2>1. i - 2 \in Nat /\ (i - 2) + 2 = i /\ i <= Len(s)
    BY <1>1
  <2> HIDE DEF V
  <2>2. \A j \in Nat : j + 2 <= Len(s) => d[<<j, v>>] = v \o s[j + 2]
    OBVIOUS
  <2> QED
    BY <2>1, <2>2
<1> HIDE DEF d, V
<1>4. PICK r : Runs(r, V, s[1], d)
  BY <1>2, Recursion
<1> DEFINE f == [i \in 1 .. Len(s) |-> r[i - 1]]
<1>5. ASSUME NEW i \in 1 .. Len(s) PROVE f[i] = IF i = 1 THEN s[i] ELSE f[i - 1] \o s[i]
  <2>1. CASE i = 1
    BY <1>1, <1>4, <2>1 DEF Runs
  <2>2. CASE i # 1
    <3>1. i \in 2 .. Len(s) /\ i - 2 \in Nat /\ (i - 2) + 1 = i - 1 /\ i - 1 \in 1 .. Len(s) /\ (i - 1) - 1 = i - 2
      BY <1>1, <2>2
    <3>2. r[(i - 2) + 1] = d[<<i - 2, r[i - 2]>>] /\ r[i - 2] \in V
      BY <1>4, <3>1 DEF Runs
    <3>3. f[i - 1] = r[i - 2] /\ f[i] = r[i - 1]
      BY <3>1
    <3> QED
      BY <1>3, <2>2, <3>1, <3>2, <3>3
  <2> QED
    BY <2>1, <2>2
<1>6. Flats(f, s)
  <2>1. f = [i \in 1 .. Len(s) |-> f[i]]
    OBVIOUS
  <2> HIDE DEF f
  <2> QED
    BY <1>5, <2>1 DEF Flats
<1> QED
  BY <1>6

\* The lines of the first i sequences, and of all.
Flat(s) == CHOOSE f : Flats(f, s)

\* How they come about.
LEMMA FlatFacts ==
  ASSUME NEW S, NEW s \in Seq(Seq(S)), Len(s) # 0
  PROVE  /\ FlattenSeq(s) = Flat(s)[Len(s)]
         /\ Flat(s)[1] = s[1]
         /\ \A i \in 1 .. Len(s) - 1 : Flat(s)[i + 1] = Flat(s)[i] \o s[i + 1]
         /\ \A i \in 1 .. Len(s) : Flat(s)[i] \in Seq(S)
<1> DEFINE f == Flat(s)
<1>1. Flats(f, s)
  BY FlatsExists DEF Flat
<1>2. FlattenSeq(s) = f[Len(s)]
  BY Zenon DEF FlattenSeq, Flat, Flats
<1> HIDE DEF f
<1>n. Len(s) \in Nat /\ \A i \in 1 .. Len(s) : s[i] \in Seq(S)
  OBVIOUS
<1>3. \A i \in 1 .. Len(s) : f[i] = IF i = 1 THEN s[i] ELSE f[i - 1] \o s[i]
  BY <1>1, Zenon DEF Flats
<1>4. f[1] = s[1]
  <2>1. 1 \in 1 .. Len(s)
    BY <1>n
  <2> QED
    BY <1>3, <2>1, Zenon
<1>5. ASSUME NEW i \in 1 .. Len(s) - 1 PROVE f[i + 1] = f[i] \o s[i + 1]
  <2>1. i + 1 \in 1 .. Len(s) /\ i + 1 # 1 /\ (i + 1) - 1 = i
    BY <1>n
  <2>2. f[i + 1] = f[(i + 1) - 1] \o s[i + 1]
    BY <1>3, <2>1, Zenon
  <2> QED
    BY <2>1, <2>2
<1> DEFINE T == {i \in Nat : i + 1 <= Len(s) => f[i + 1] \in Seq(S)}
<1>6. 0 \in T
  <2>1. 1 \in 1 .. Len(s) /\ 0 + 1 = 1
    BY <1>n
  <2> QED
    BY <1>4, <1>n, <2>1
<1>7. ASSUME NEW i \in Nat, i \in T PROVE i + 1 \in T
  <2> SUFFICES ASSUME i + 1 + 1 <= Len(s) PROVE f[i + 1 + 1] \in Seq(S)
    OBVIOUS
  <2>1. i + 1 \in 1 .. Len(s) - 1 /\ i + 1 + 1 \in 1 .. Len(s) /\ i + 1 <= Len(s)
    BY <1>n
  <2>2. f[i + 1 + 1] = f[i + 1] \o s[i + 1 + 1] /\ f[i + 1] \in Seq(S) /\ s[i + 1 + 1] \in Seq(S)
    BY <1>5, <1>7, <1>n, <2>1
  <2>3. \A v, w \in Seq(S) : v \o w \in Seq(S)
    OBVIOUS
  <2> QED
    BY <2>2, <2>3
<1> HIDE DEF T
<1>8. Nat \subseteq T
  BY <1>6, <1>7, SetInduction
<1>9. ASSUME NEW i \in 1 .. Len(s) PROVE f[i] \in Seq(S)
  <2>1. i - 1 \in Nat /\ (i - 1) + 1 = i /\ i <= Len(s)
    BY <1>n
  <2>2. i - 1 \in T
    BY <1>8, <2>1
  <2> QED
    BY <2>1, <2>2 DEF T
<1> QED
  BY <1>2, <1>4, <1>5, <1>9 DEF f

\* The lines of all are lines.
LEMMA FlattenType ==
  ASSUME NEW S, NEW s \in Seq(Seq(S))
  PROVE  FlattenSeq(s) \in Seq(S)
<1>1. CASE Len(s) = 0
  <2>1. s = <<>>
    BY <1>1
  <2>2. FlattenSeq(s) = s
    BY <1>1 DEF FlattenSeq
  <2>3. <<>> \in Seq(S)
    OBVIOUS
  <2> QED
    BY <2>1, <2>2, <2>3
<1>2. CASE Len(s) # 0
  <2>1. Len(s) \in 1 .. Len(s)
    BY <1>2
  <2> QED
    BY <1>2, <2>1, FlatFacts
<1> QED
  BY <1>1, <1>2

\* Two parts, one behind the other.
Joins(S) ==
  \A p, q \in Seq(S) :
    /\ p \o q \in Seq(S) /\ Len(p \o q) = Len(p) + Len(q)
    /\ Len(p) \in Nat /\ Len(q) \in Nat
    /\ \A i \in 1 .. Len(p) : (p \o q)[i] = p[i]
    /\ \A i \in Len(p) + 1 .. Len(p) + Len(q) : (p \o q)[i] = q[i - Len(p)]

\* So they are in all sequences.
LEMMA Joined == ASSUME NEW S PROVE Joins(S)
BY DEF Joins

\* Sequences with the same elements are the same.
LEMMA SameElements ==
  ASSUME NEW S, NEW p \in Seq(S), NEW q \in Seq(S), Len(p) = Len(q),
         \A i \in 1 .. Len(p) : p[i] = q[i]
  PROVE  p = q
OBVIOUS

\* It does not matter which parts are put together first.
Associates(S) == \A a, b, c \in Seq(S) : (a \o b) \o c = a \o (b \o c)

\* This too is so in all sequences.
LEMMA Associative == ASSUME NEW S PROVE Associates(S)
<1> SUFFICES ASSUME NEW a \in Seq(S), NEW b \in Seq(S), NEW c \in Seq(S)
             PROVE  (a \o b) \o c = a \o (b \o c)
  BY DEF Associates
<1> DEFINE ab == a \o b
           bc == b \o c
           l == ab \o c
           r == a \o bc
<1>j. \A p, q \in Seq(S) :
        /\ p \o q \in Seq(S) /\ Len(p \o q) = Len(p) + Len(q)
        /\ Len(p) \in Nat /\ Len(q) \in Nat
        /\ \A i \in 1 .. Len(p) : (p \o q)[i] = p[i]
        /\ \A i \in Len(p) + 1 .. Len(p) + Len(q) : (p \o q)[i] = q[i - Len(p)]
  <2>1. Joins(S)
    BY Joined
  <2> QED
    BY <2>1, Zenon DEF Joins
<1>1. Len(a) \in Nat /\ Len(b) \in Nat /\ Len(c) \in Nat
  BY <1>j, Zenon
<1>2. /\ ab \in Seq(S) /\ Len(ab) = Len(a) + Len(b)
      /\ \A i \in 1 .. Len(a) : ab[i] = a[i]
      /\ \A i \in Len(a) + 1 .. Len(a) + Len(b) : ab[i] = b[i - Len(a)]
  BY <1>j, Zenon
<1>3. /\ bc \in Seq(S) /\ Len(bc) = Len(b) + Len(c)
      /\ \A i \in 1 .. Len(b) : bc[i] = b[i]
      /\ \A i \in Len(b) + 1 .. Len(b) + Len(c) : bc[i] = c[i - Len(b)]
  BY <1>j, Zenon
<1> HIDE DEF ab, bc
<1>4. /\ l \in Seq(S) /\ Len(l) = Len(ab) + Len(c)
      /\ \A i \in 1 .. Len(ab) : l[i] = ab[i]
      /\ \A i \in Len(ab) + 1 .. Len(ab) + Len(c) : l[i] = c[i - Len(ab)]
  <2>1. c \in Seq(S)
    OBVIOUS
  <2> QED
    BY <1>2, <1>j, <2>1, Zenon
<1>5. /\ r \in Seq(S) /\ Len(r) = Len(a) + Len(bc)
      /\ \A i \in 1 .. Len(a) : r[i] = a[i]
      /\ \A i \in Len(a) + 1 .. Len(a) + Len(bc) : r[i] = bc[i - Len(a)]
  BY <1>3, <1>j, Zenon
<1> HIDE DEF l, r
<1>6. Len(l) = Len(r)
  BY <1>1, <1>2, <1>3, <1>4, <1>5
<1>7. ASSUME NEW i \in 1 .. Len(l) PROVE l[i] = r[i]
  <2>1. CASE i <= Len(a)
    <3>1. i \in 1 .. Len(a) /\ i \in 1 .. Len(ab)
      BY <1>1, <1>2, <2>1
    <3> QED
      BY <1>2, <1>4, <1>5, <3>1, Zenon
  <2>2. CASE i > Len(a) /\ i <= Len(a) + Len(b)
    <3>1. /\ i \in Len(a) + 1 .. Len(a) + Len(b) /\ i \in 1 .. Len(ab)
          /\ i \in Len(a) + 1 .. Len(a) + Len(bc) /\ i - Len(a) \in 1 .. Len(b)
      BY <1>1, <1>2, <1>3, <2>2
    <3> QED
      BY <1>2, <1>3, <1>4, <1>5, <3>1, Zenon
  <2>3. CASE i > Len(a) + Len(b)
    <3>1. /\ i \in Len(ab) + 1 .. Len(ab) + Len(c) /\ i \in Len(a) + 1 .. Len(a) + Len(bc)
          /\ i - Len(a) \in Len(b) + 1 .. Len(b) + Len(c)
          /\ (i - Len(a)) - Len(b) = i - Len(ab)
      <4> DEFINE la == Len(a)
                 lb == Len(b)
                 lc == Len(c)
      <4>1. la \in Nat /\ lb \in Nat /\ lc \in Nat
        BY <1>1
      <4>2. Len(ab) = la + lb /\ Len(bc) = lb + lc /\ Len(l) = la + lb + lc /\ i > la + lb
        BY <1>2, <1>3, <1>4, <2>3
      <4>3. i \in Nat /\ i <= la + lb + lc
        BY <4>1, <4>2
      <4> HIDE DEF la, lb, lc
      <4> QED
        BY <4>1, <4>2, <4>3 DEF la, lb, lc
    <3>2. l[i] = c[i - Len(ab)] /\ r[i] = bc[i - Len(a)]
      BY <1>4, <1>5, <3>1, Zenon
    <3>3. bc[i - Len(a)] = c[(i - Len(a)) - Len(b)]
      BY <1>3, <3>1, Zenon
    <3> QED
      BY <3>1, <3>2, <3>3, Zenon
  <2> QED
    BY <1>1, <2>1, <2>2, <2>3
<1>8. l = r
  BY <1>4, <1>5, <1>6, <1>7, SameElements
<1> QED
  BY <1>8 DEF l, r, ab, bc

\* r is s with lines w at the end of the k-th sequence, the last that has any.
Grown(S, s, r, k, w) ==
  /\ s \in Seq(Seq(S)) /\ r \in Seq(Seq(S)) /\ w \in Seq(S)
  /\ k \in 1 .. Len(s) /\ Len(r) = Len(s) /\ r[k] = s[k] \o w
  /\ \A i \in 1 .. Len(s) : i # k => r[i] = s[i]
  /\ \A i \in 1 .. Len(s) : i > k => s[i] = <<>>

\* What is appended to one sequence, with nothing in those behind it, is
\* appended to all.
LEMMA FlattenAppend ==
  ASSUME NEW S, NEW s, NEW r, NEW k, NEW w, Grown(S, s, r, k, w)
  PROVE  FlattenSeq(r) = FlattenSeq(s) \o w
<1> USE DEF Grown
<1> DEFINE f == Flat(s)
           g == Flat(r)
           n == Len(s)
<1>1. n \in Nat /\ n # 0 /\ k \in Nat /\ 1 <= k /\ k <= n
  OBVIOUS
<1>2. /\ FlattenSeq(s) = f[n] /\ f[1] = s[1]
      /\ \A i \in 1 .. n - 1 : f[i + 1] = f[i] \o s[i + 1]
      /\ \A i \in 1 .. n : f[i] \in Seq(S)
  BY <1>1, FlatFacts
<1>3. /\ FlattenSeq(r) = g[n] /\ g[1] = r[1]
      /\ \A i \in 1 .. n - 1 : g[i + 1] = g[i] \o r[i + 1]
  BY <1>1, FlatFacts
<1>s. \A i \in 1 .. n : s[i] \in Seq(S)
  OBVIOUS
<1>e. \A a \in Seq(S) : a \o <<>> = a
  OBVIOUS
<1> HIDE DEF f, g, n
<1> DEFINE T == {i \in Nat : i + 1 <= n => g[i + 1] = IF i + 1 < k THEN f[i + 1] ELSE f[i + 1] \o w}
<1>4. 0 \in T
  <2>1. 0 + 1 = 1 /\ 1 \in 1 .. n
    BY <1>1
  <2>2. CASE k = 1
    <3>1. g[1] = f[1] \o w
      BY <1>2, <1>3, <2>2, Zenon
    <3> QED
      BY <2>1, <2>2, <3>1
  <2>3. CASE k # 1
    <3>1. g[1] = f[1] /\ 1 < k
      BY <1>1, <1>2, <1>3, <2>1, <2>3 DEF n
    <3> QED
      BY <2>1, <3>1
  <2> QED
    BY <2>2, <2>3
<1>5. ASSUME NEW i \in Nat, i \in T PROVE i + 1 \in T
  <2> DEFINE j == i + 1
  <2> SUFFICES ASSUME j + 1 <= n PROVE g[j + 1] = IF j + 1 < k THEN f[j + 1] ELSE f[j + 1] \o w
    OBVIOUS
  <2>1. j \in 1 .. n - 1 /\ j \in 1 .. n /\ j + 1 \in 1 .. n /\ j <= n /\ j \in Nat
    BY <1>1
  <2>2. g[j] = IF j < k THEN f[j] ELSE f[j] \o w
    BY <1>5, <2>1
  <2> HIDE DEF j
  <2>3. /\ g[j + 1] = g[j] \o r[j + 1] /\ f[j + 1] = f[j] \o s[j + 1]
        /\ f[j] \in Seq(S) /\ s[j + 1] \in Seq(S)
    BY <1>2, <1>3, <1>s, <2>1
  <2>4. CASE j + 1 < k
    <3>1. j < k /\ j + 1 # k
      BY <1>1, <2>1, <2>4
    <3>2. g[j] = f[j] /\ r[j + 1] = s[j + 1]
      BY <2>1, <2>2, <3>1 DEF n
    <3>3. g[j + 1] = f[j + 1]
      BY <2>3, <3>2, Zenon
    <3> QED
      BY <2>4, <3>3
  <2>5. CASE j + 1 = k
    <3>1. j < k
      BY <1>1, <2>1, <2>5
    <3>2. g[j] = f[j] /\ r[j + 1] = s[j + 1] \o w
      BY <2>2, <2>5, <3>1
    <3>3. g[j + 1] = f[j + 1] \o w
      <4>1. Associates(S)
        BY Associative
      <4>2. (f[j] \o s[j + 1]) \o w = f[j] \o (s[j + 1] \o w)
        BY <2>3, <4>1, Zenon DEF Associates
      <4> QED
        BY <2>3, <3>2, <4>2, Zenon
    <3>4. ~(j + 1 < k)
      BY <1>1, <2>5
    <3> QED
      BY <3>3, <3>4
  <2>6. CASE j + 1 > k
    <3>1. ~(j < k) /\ j + 1 # k /\ ~(j + 1 < k)
      BY <1>1, <2>1, <2>6
    <3>2. g[j] = f[j] \o w /\ r[j + 1] = <<>> /\ s[j + 1] = <<>>
      BY <2>1, <2>2, <2>6, <3>1 DEF n
    <3>3. f[j] \o w \in Seq(S)
      BY <2>3
    <3>4. g[j + 1] = f[j + 1] \o w
      BY <1>e, <2>3, <3>2, <3>3, Zenon
    <3> QED
      BY <3>1, <3>4
  <2> QED
    BY <1>1, <2>1, <2>4, <2>5, <2>6
<1> HIDE DEF T
<1>6. Nat \subseteq T
  BY <1>4, <1>5, SetInduction
<1>7. g[n] = f[n] \o w
  <2>1. n - 1 \in Nat /\ (n - 1) + 1 = n /\ n <= n /\ ~(n < k)
    BY <1>1
  <2>2. n - 1 \in T
    BY <1>6, <2>1
  <2> QED
    BY <2>1, <2>2 DEF T
<1> QED
  BY <1>2, <1>3, <1>7, Zenon

\* Of sequences without lines there are none.
LEMMA FlattenEmpty ==
  ASSUME NEW S, NEW s \in Seq(Seq(S)), \A i \in 1 .. Len(s) : s[i] = <<>>
  PROVE  FlattenSeq(s) = <<>>
<1>1. CASE Len(s) = 0
  <2>1. s = <<>>
    BY <1>1
  <2> QED
    BY <1>1, <2>1 DEF FlattenSeq
<1>2. CASE Len(s) # 0
  <2> DEFINE f == Flat(s)
             n == Len(s)
  <2>1. /\ FlattenSeq(s) = f[n] /\ f[1] = s[1]
        /\ \A i \in 1 .. n - 1 : f[i + 1] = f[i] \o s[i + 1]
    BY <1>2, FlatFacts
  <2>2. n \in Nat /\ n # 0 /\ \A i \in 1 .. n : s[i] = <<>>
    BY <1>2
  <2>3. <<>> \o <<>> = <<>>
    OBVIOUS
  <2> HIDE DEF f, n
  <2> DEFINE T == {i \in Nat : i + 1 <= n => f[i + 1] = <<>>}
  <2>4. 0 \in T
    <3>1. 0 + 1 = 1 /\ 1 \in 1 .. n
      BY <2>2
    <3> QED
      BY <2>1, <2>2, <3>1
  <2>5. ASSUME NEW i \in Nat, i \in T PROVE i + 1 \in T
    <3> SUFFICES ASSUME i + 1 + 1 <= n PROVE f[i + 1 + 1] = <<>>
      OBVIOUS
    <3>1. i + 1 \in 1 .. n - 1 /\ i + 1 + 1 \in 1 .. n /\ i + 1 <= n
      BY <2>2
    <3>2. f[i + 1 + 1] = f[i + 1] \o s[i + 1 + 1] /\ f[i + 1] = <<>> /\ s[i + 1 + 1] = <<>>
      BY <2>1, <2>2, <2>5, <3>1
    <3> QED
      BY <2>3, <3>2, Zenon
  <2> HIDE DEF T
  <2>6. Nat \subseteq T
    BY <2>4, <2>5, SetInduction
  <2>7. n - 1 \in T /\ (n - 1) + 1 = n /\ n <= n
    BY <2>2, <2>6
  <2> QED
    BY <2>1, <2>7 DEF T
<1> QED
  BY <1>1, <1>2

-----------------------------------------------------------------------------
(* The inductive invariant.                                                 *)

\* Lines of records that are traced.
Line == [info : Infos, whole : BOOLEAN]

\* Lines lie in files and buffer, those of the buffer whole and below FATAL, and
\* there is nothing in files younger than the open one: what leaves the buffer is
\* behind everything that is stored.
Kept ==
  /\ files \in [Times -> Seq(Line)] /\ buffered \in Seq(Line) /\ due \in Seq(Infos)
  /\ \A i \in DOMAIN buffered :
       buffered[i] = Whole(buffered[i].info) /\ buffered[i].info.level # FATAL
  /\ open # NoFile => \A t \in Times : t > open => files[t] = <<>>
  /\ size \in Nat

IInv == TypeOK /\ Kept

\* The bounds are numbers.
LEMMA Bounds ==
  /\ Room \in Nat /\ SizeLimit \in Nat /\ MaxTime \in Nat /\ MaxTraced \in Nat
  /\ MaxStarts \in Nat /\ NoFile \in Nat /\ NoFile \notin Times
  /\ Times \subseteq Nat /\ \A t \in Times : t <= MaxTime
BY LogWriterAssumption DEF NoFile, Times

\* A line has a length.
LEMMA LineLengthType ==
  ASSUME NEW info \in Infos
  PROVE  LineLength(info) \in Nat
<1>1. info \in Record
  BY LogWriterAssumption
<1>2. info.dump \in Seq(Text) /\ info.content \in Text
  BY <1>1, RecordType
<1>3. info.dump \in Seq(Seq(Byte))
  <2>1. \A s \in Text : s \in Seq(Byte)
    BY DEF Text
  <2> HIDE DEF Text
  <2> QED
    BY <1>2, <2>1
<1>4. FlattenSeq(info.dump) \in Seq(Byte)
  BY <1>3, FlattenType
<1>5. Len(info.content) \in Nat /\ Len(FlattenSeq(info.dump)) \in Nat
  BY <1>2, <1>4 DEF Text
<1>6. \A m, n \in Nat : 1 + m + n \in Nat
  OBVIOUS
<1> QED
  BY <1>5, <1>6, Zenon DEF LineLength

\* The lines of the buffer are handed on to the end of what is stored.
LEMMA StoredGrows ==
  ASSUME IInv, NEW lines \in Seq(Line), open = NoFile => lines = <<>>, files' = Stored(lines)
  PROVE  /\ files' \in [Times -> Seq(Line)]
         /\ \A t \in Times : t # open => files'[t] = files[t]
         /\ StoredLines' = StoredLines \o lines
         /\ StoredLines \in Seq(Line)
<1> USE Bounds
<1>1. files \in [Times -> Seq(Line)] /\ open \in 0 .. now \cup {NoFile} /\ now \in Times
  BY DEF IInv, Kept, TypeOK
<1>2. Times = 0 .. MaxTime /\ NoFile = MaxTime + 1
  BY DEF Times, NoFile
<1> DEFINE s == [i \in 1 .. MaxTime + 1 |-> files[i - 1]]
           r == [i \in 1 .. MaxTime + 1 |-> files'[i - 1]]
<1>3. \A i \in 1 .. MaxTime + 1 : i - 1 \in Times
  BY <1>2
<1>4. s \in Seq(Seq(Line)) /\ Len(s) = MaxTime + 1
  BY <1>1, <1>3
<1>5. StoredLines \in Seq(Line)
  BY <1>4, FlattenType DEF StoredLines
<1>e. \A a \in Seq(Line) : a \o <<>> = a
  OBVIOUS
<1>6. CASE open = NoFile
  <2>1. files' = files /\ lines = <<>>
    BY <1>6 DEF Stored
  <2>2. StoredLines' = StoredLines
    BY <2>1 DEF StoredLines
  <2> QED
    BY <1>1, <1>5, <1>e, <2>1, <2>2
<1>7. CASE open # NoFile
  <2>1. open \in Times /\ open + 1 \in 1 .. MaxTime + 1 /\ (open + 1) - 1 = open
    BY <1>1, <1>2, <1>7
  <2>2. files' = [files EXCEPT ![open] = files[open] \o lines] /\ files[open] \o lines \in Seq(Line)
    <3>1. files[open] \in Seq(Line)
      BY <1>1, <2>1
    <3> QED
      BY <1>7, <3>1 DEF Stored
  <2>3. files' \in [Times -> Seq(Line)] /\ files'[open] = files[open] \o lines
        /\ \A t \in Times : t # open => files'[t] = files[t]
    BY <1>1, <2>1, <2>2
  <2>4. r \in Seq(Seq(Line)) /\ Len(r) = MaxTime + 1
    BY <1>3, <2>3
  <2>5. r[open + 1] = s[open + 1] \o lines
    BY <2>1, <2>3
  <2>6. ASSUME NEW i \in 1 .. MaxTime + 1, i # open + 1 PROVE r[i] = s[i]
    <3>1. i - 1 \in Times /\ i - 1 # open
      BY <1>3, <2>1, <2>6
    <3> QED
      BY <2>3, <3>1
  <2>7. ASSUME NEW i \in 1 .. MaxTime + 1, i > open + 1 PROVE s[i] = <<>>
    <3>1. i - 1 \in Times /\ i - 1 > open
      BY <1>3, <2>1, <2>7
    <3>2. \A t \in Times : t > open => files[t] = <<>>
      BY <1>7 DEF IInv, Kept
    <3> QED
      BY <3>1, <3>2
  <2>8. StoredLines' = FlattenSeq(r)
    BY Zenon DEF StoredLines
  <2> HIDE DEF s, r
  <2>9. FlattenSeq(r) = FlattenSeq(s) \o lines
    <3>1. open + 1 \in 1 .. Len(s) /\ Len(r) = Len(s)
      BY <1>4, <2>1, <2>4
    <3>2. \A i \in 1 .. Len(s) : i # open + 1 => r[i] = s[i]
      BY <1>4, <2>6
    <3>3. \A i \in 1 .. Len(s) : i > open + 1 => s[i] = <<>>
      BY <1>4, <2>7
    <3>4. Grown(Line, s, r, open + 1, lines)
      BY <1>4, <2>4, <2>5, <3>1, <3>2, <3>3, Zenon DEF Grown
    <3> QED
      BY <3>4, FlattenAppend
  <2>10. StoredLines' = StoredLines \o lines
    BY <2>8, <2>9, Zenon DEF StoredLines, s
  <2> QED
    BY <1>5, <2>3, <2>10
<1> QED
  BY <1>6, <1>7

\* What a step does to the lines: some leave the buffer for the open file.
Moves(lines) == files' = Stored(lines) /\ (open = NoFile => lines = <<>>)

\* What Write does: the line goes behind those in the buffer, and either all stay
\* there or all are stored.
Written(info) ==
  LET lines == Append(buffered, Whole(info))
  IN  /\ \/ Moves(<<>>) /\ buffered' = lines /\ info.level # FATAL /\ open' = open
         \/ Moves(lines) /\ buffered' = <<>>
      /\ \/ open' = open /\ rotated' = rotated /\ size' <= SizeLimit
         \/ open' = now /\ rotated' = now /\ size' = 0
         \/ open' = NoFile
      /\ size' \in Nat

\* It does so whenever a file is open.
LEMMA WriteMoves ==
  ASSUME IInv, NEW info \in Infos, open # NoFile, Write(info)
  PROVE  Written(info)
<1> DEFINE lines == Append(buffered, Whole(info))
           total == size + LineLength(info)
<1>1. total \in Nat /\ SizeLimit \in Nat
  BY LineLengthType, Bounds DEF IInv, Kept
<1>2. CASE total > SizeLimit \/ now - rotated > AgeLimit
  <2>1. Rotate(lines, total)
    BY <1>2 DEF Write
  <2>2. Moves(lines) /\ buffered' = <<>>
    BY <2>1 DEF Rotate, Moves
  <2>3. /\ \/ open' = now /\ rotated' = now /\ size' = 0
           \/ open' = NoFile
        /\ size' \in Nat
    BY <1>1, <2>1 DEF Rotate
  <2> HIDE DEF lines
  <2> QED
    BY <2>2, <2>3 DEF Written, lines
<1>3. CASE ~(total > SizeLimit \/ now - rotated > AgeLimit)
  <2>1. /\ files' = Stored(Put(info).store) /\ buffered' = Put(info).keep /\ size' = total
        /\ open' = open /\ rotated' = rotated
    BY <1>3 DEF Write
  <2>2. size' <= SizeLimit /\ size' \in Nat
    BY <1>1, <1>3, <2>1
  <2>3. \/ Moves(<<>>) /\ buffered' = lines /\ info.level # FATAL
        \/ Moves(lines) /\ buffered' = <<>>
    BY <2>1 DEF Put, Moves
  <2> HIDE DEF lines
  <2> QED
    BY <2>1, <2>2, <2>3 DEF Written, lines
<1> QED
  BY <1>2, <1>3

\* The invariant holds at first.
LEMMA InitIInv == Init => IInv
<1> SUFFICES ASSUME Init PROVE IInv
  OBVIOUS
<1> USE Bounds
<1>1. TypeOK
  <2>1. 0 \in Times /\ \A t \in Times : files[t] = <<>>
    BY DEF Init, Times
  <2>2. now \in Times /\ up \in BOOLEAN /\ killed \in BOOLEAN /\ up = FALSE
    BY <2>1 DEF Init
  <2>3. open = NoFile /\ buffered = <<>> /\ seq \in 0 .. MaxTraced /\ starts \in 0 .. MaxStarts
    BY DEF Init
  <2> QED
    BY <2>1, <2>2, <2>3 DEF TypeOK
<1>2. Kept
  <2>1. <<>> \in Seq(Line) /\ <<>> \in Seq(Infos) /\ DOMAIN <<>> = {}
    OBVIOUS
  <2>2. files \in [Times -> Seq(Line)]
    BY <2>1, Zenon DEF Init
  <2>3. buffered \in Seq(Line) /\ due \in Seq(Infos) /\ size \in Nat /\ open = NoFile
    BY <2>1 DEF Init
  <2>4. DOMAIN buffered = {}
    BY <2>1, Zenon DEF Init
  <2> QED
    BY <2>2, <2>3, <2>4, Zenon DEF Kept
<1> QED
  BY <1>1, <1>2 DEF IInv

\* Steps that move lines and do not open a file other than that of this second
\* leave nothing behind it.
LEMMA MovesKept ==
  ASSUME IInv, NEW lines \in Seq(Line), Moves(lines), open' \in {open, now, NoFile},
         now' = now
  PROVE  /\ files' \in [Times -> Seq(Line)]
         /\ \A t \in Times : t > now => files'[t] = <<>>
         /\ open' # NoFile => \A t \in Times : t > open' => files'[t] = <<>>
         /\ open' \in 0 .. now' \cup {NoFile}
<1> USE Bounds
<1>1. /\ files' \in [Times -> Seq(Line)]
      /\ \A t \in Times : t # open => files'[t] = files[t]
  BY StoredGrows DEF Moves
<1>2. /\ \A t \in Times : t > now => files[t] = <<>>
      /\ open \in 0 .. now \cup {NoFile} /\ now \in Times /\ now \in Nat
      /\ open # NoFile => \A t \in Times : t > open => files[t] = <<>>
  BY DEF IInv, Kept, TypeOK
<1>3. \A t \in Times : t > now => t # open
  BY <1>2
<1>4. \A t \in Times : t > open => t # open
  BY <1>2
<1>5. \A t \in Times : t > now => files'[t] = <<>>
  BY <1>1, <1>2, <1>3, Zenon
<1>6. open' # NoFile => \A t \in Times : t > open' => files'[t] = <<>>
  BY <1>1, <1>2, <1>4, <1>5
<1>7. open' \in 0 .. now' \cup {NoFile}
  <2>1. now \in 0 .. now
    BY <1>2
  <2> QED
    BY <1>2, <2>1
<1> QED
  BY <1>1, <1>5, <1>6, <1>7

\* A line of a record that is traced.
LEMMA WholeType ==
  ASSUME NEW info \in Infos
  PROVE  Whole(info) \in Line /\ Torn(info) \in Line /\ Whole(info).info = info
BY DEF Whole, Torn, Line

\* A line that was put behind those of the buffer.
LEMMA BufferAppend ==
  ASSUME IInv, NEW info \in Infos
  PROVE  /\ Append(buffered, Whole(info)) \in Seq(Line)
         /\ info.level # FATAL =>
              \A i \in DOMAIN Append(buffered, Whole(info)) :
                LET line == Append(buffered, Whole(info))[i]
                IN  line = Whole(line.info) /\ line.info.level # FATAL
<1> DEFINE b == Append(buffered, Whole(info))
           w == Whole(info)
<1>1. /\ buffered \in Seq(Line)
      /\ \A i \in DOMAIN buffered :
           buffered[i] = Whole(buffered[i].info) /\ buffered[i].info.level # FATAL
  BY DEF IInv, Kept
<1>2. w \in Line /\ w.info = info
  BY WholeType
<1>3. w = Whole(w.info)
  BY <1>2
<1> HIDE DEF w
<1>4. Append(buffered, w) \in Seq(Line)
  BY <1>1, <1>2
<1>5. ASSUME info.level # FATAL, NEW i \in DOMAIN Append(buffered, w)
      PROVE  LET line == Append(buffered, w)[i]
             IN  line = Whole(line.info) /\ line.info.level # FATAL
  <2>1. CASE i \in DOMAIN buffered
    <3>1. Append(buffered, w)[i] = buffered[i]
      BY <1>1, <2>1
    <3> QED
      BY <1>1, <2>1, <3>1
  <2>2. CASE i \notin DOMAIN buffered
    <3>1. Append(buffered, w)[i] = w
      BY <1>1, <1>5, <2>2
    <3> QED
      BY <1>2, <1>3, <1>5, <3>1
  <2> QED
    BY <2>1, <2>2
<1> QED
  BY <1>4, <1>5 DEF w

\* A record that is traced is written, and then it is due, or nothing happens.
LEMMA TraceMoves ==
  ASSUME IInv, Trace
  PROVE  \E info \in Infos :
           \/ open # NoFile /\ Written(info) /\ due' = Append(due, info)
           \/ UNCHANGED writer /\ due' = due
<1>1. PICK info \in Infos :
        /\ HandleLogData(Packet(info))
        /\ due' = IF open # NoFile /\ Len(Packet(info)) <= Room THEN Append(due, info) ELSE due
  BY DEF Trace
<1>2. seq \in Nat
  BY Bounds DEF IInv, TypeOK
<1>3. IF Len(Packet(info)) <= Room THEN Write(info) ELSE UNCHANGED writer
  BY <1>1, <1>2, PacketHandled
<1>4. CASE open # NoFile /\ Len(Packet(info)) <= Room
  <2>1. Written(info)
    BY <1>3, <1>4, WriteMoves
  <2> QED
    BY <1>1, <1>4, <2>1
<1>5. CASE ~(Len(Packet(info)) <= Room)
  BY <1>1, <1>3, <1>5
<1>6. CASE open = NoFile /\ Len(Packet(info)) <= Room
  <2>1. UNCHANGED writer
    BY <1>3, <1>6 DEF Write
  <2> QED
    BY <1>1, <1>6, <2>1
<1> QED
  BY <1>4, <1>5, <1>6

\* A killed service has handed on some of its lines, the last one torn perhaps.
LEMMA KillMoves ==
  ASSUME IInv, Kill
  PROVE  \E lines \in Seq(Line) :
           /\ Moves(lines)
           /\ \A i \in DOMAIN lines : lines[i].info.level # FATAL
<1> DEFINE b == buffered
<1>1. /\ b \in Seq(Line) /\ (open = NoFile => b = <<>>)
      /\ \A i \in DOMAIN b : b[i].info.level # FATAL
  BY DEF IInv, Kept, TypeOK
<1>2. PICK n \in 0 .. Len(b) :
        \/ files' = Stored(SubSeq(b, 1, n))
        \/ n > 0 /\ files' = Stored(Append(SubSeq(b, 1, n - 1), Torn(b[n].info)))
  BY DEF Kill
<1>3. Len(b) \in Nat /\ (open = NoFile => n = 0)
  BY <1>1
<1>4. ASSUME NEW m \in 0 .. Len(b)
      PROVE  /\ SubSeq(b, 1, m) \in Seq(Line) /\ Len(SubSeq(b, 1, m)) = m
             /\ \A i \in 1 .. m : SubSeq(b, 1, m)[i].info.level # FATAL
  <2> HIDE DEF b
  <2>1. /\ SubSeq(b, 1, m) \in Seq(Line) /\ Len(SubSeq(b, 1, m)) = m
        /\ \A i \in 1 .. m : SubSeq(b, 1, m)[i] = b[i] /\ i \in DOMAIN b
    BY <1>1
  <2> QED
    BY <1>1, <2>1
<1>5. CASE files' = Stored(SubSeq(b, 1, n))
  <2> DEFINE l == SubSeq(b, 1, n)
  <2>1. l \in Seq(Line) /\ Len(l) = n /\ \A i \in 1 .. n : l[i].info.level # FATAL
    BY <1>4
  <2> HIDE DEF l
  <2>2. DOMAIN l = 1 .. n /\ (n = 0 => l = <<>>)
    BY <2>1
  <2>3. Moves(l)
    BY <1>3, <1>5, <2>2 DEF Moves, l
  <2> QED
    BY <2>1, <2>2, <2>3
<1>6. CASE n > 0 /\ files' = Stored(Append(SubSeq(b, 1, n - 1), Torn(b[n].info)))
  <2> DEFINE h == SubSeq(b, 1, n - 1)
             t == Torn(b[n].info)
             l == Append(h, t)
  <2>1. n - 1 \in 0 .. Len(b) /\ n \in DOMAIN b
    BY <1>1, <1>3, <1>6
  <2>2. h \in Seq(Line) /\ Len(h) = n - 1 /\ \A i \in 1 .. n - 1 : h[i].info.level # FATAL
    BY <1>4, <2>1
  <2>3. t \in Line /\ t.info.level # FATAL
    <3>1. b[n] \in Line /\ b[n].info.level # FATAL
      BY <1>1, <2>1
    <3>2. b[n].info \in Infos
      BY <3>1 DEF Line
    <3> QED
      BY <3>1, <3>2 DEF Torn, Line
  <2> HIDE DEF h, t
  <2>4. l \in Seq(Line) /\ \A i \in DOMAIN l : l[i].info.level # FATAL
    <3>1. l \in Seq(Line) /\ Len(l) = n /\ l[n] = t /\ \A i \in 1 .. n - 1 : l[i] = h[i]
      BY <2>1, <2>2, <2>3
    <3>2. DOMAIN l = 1 .. n
      BY <3>1
    <3> HIDE DEF l
    <3>3. ASSUME NEW i \in 1 .. n PROVE l[i].info.level # FATAL
      <4>1. CASE i = n
        BY <2>3, <3>1, <4>1
      <4>2. CASE i # n
        <5>1. i \in 1 .. n - 1
          BY <1>3, <4>2
        <5> QED
          BY <2>2, <3>1, <5>1
      <4> QED
        BY <4>1, <4>2
    <3> QED
      BY <3>1, <3>2, <3>3
  <2>5. open # NoFile
    BY <1>3, <1>6
  <2>6. Moves(l)
    BY <1>6, <2>5 DEF Moves, h, t
  <2> QED
    BY <2>4, <2>6
<1> QED
  BY <1>2, <1>5, <1>6

\* Every step keeps the invariant.
LEMMA NextIInv == IInv /\ [Next]_vars => IInv'
<1> SUFFICES ASSUME IInv, [Next]_vars PROVE IInv'
  OBVIOUS
<1> USE Bounds
<1>1. /\ TypeOK /\ Kept
      /\ now \in Times /\ now \in Nat /\ open \in 0 .. now \cup {NoFile}
      /\ buffered \in Seq(Line) /\ due \in Seq(Infos)
  BY DEF IInv, Kept, TypeOK
<1>2. <<>> \in Seq(Line) /\ DOMAIN <<>> = {}
  OBVIOUS
<1>3. CASE Trace
  <2>1. PICK info \in Infos :
          \/ open # NoFile /\ Written(info) /\ due' = Append(due, info)
          \/ UNCHANGED writer /\ due' = due
    BY <1>3, TraceMoves
  <2>2. now' = now /\ up' = up /\ up /\ starts' = starts /\ killed' = killed /\ seq' \in 0 .. MaxTraced
    BY <1>1, <1>3 DEF Trace, TypeOK
  <2>3. CASE open # NoFile /\ Written(info) /\ due' = Append(due, info)
    <3> DEFINE lines == Append(buffered, Whole(info))
    <3>1. /\ \/ Moves(<<>>) /\ buffered' = lines /\ info.level # FATAL /\ open' = open
             \/ Moves(lines) /\ buffered' = <<>>
          /\ \/ open' = open /\ rotated' = rotated /\ size' <= SizeLimit
             \/ open' = now /\ rotated' = now /\ size' = 0
             \/ open' = NoFile
          /\ size' \in Nat
      BY <2>3, Zenon DEF Written
    <3>2. /\ lines \in Seq(Line)
          /\ info.level # FATAL =>
               \A i \in DOMAIN lines : lines[i] = Whole(lines[i].info) /\ lines[i].info.level # FATAL
      BY BufferAppend
    <3> HIDE DEF lines
    <3>3. open' \in {open, now, NoFile}
      BY <3>1
    <3>4. /\ files' \in [Times -> Seq(Line)]
          /\ \A t \in Times : t > now => files'[t] = <<>>
          /\ open' # NoFile => \A t \in Times : t > open' => files'[t] = <<>>
          /\ open' \in 0 .. now' \cup {NoFile}
      BY <1>2, <2>2, <3>1, <3>2, <3>3, MovesKept
    <3>5. /\ buffered' \in Seq(Line)
          /\ \A i \in DOMAIN buffered' :
               buffered'[i] = Whole(buffered'[i].info) /\ buffered'[i].info.level # FATAL
      <4>1. CASE buffered' = lines /\ info.level # FATAL
        BY <3>2, <4>1, Zenon
      <4>2. CASE buffered' = <<>>
        <5>1. DOMAIN buffered' = {}
          BY <1>2, <4>2, Zenon
        <5> QED
          BY <1>2, <4>2, <5>1, Zenon
      <4> QED
        BY <3>1, <4>1, <4>2
    <3>6. due' \in Seq(Infos)
      BY <1>1, <2>3
    <3>7. Kept'
      BY <3>1, <3>4, <3>5, <3>6, Zenon DEF Kept
    <3>8. open' # NoFile => size' <= SizeLimit /\ rotated' = open'
      BY <2>3, <3>1, <1>1 DEF TypeOK
    <3>9. open' = NoFile => buffered' = <<>>
      BY <2>3, <3>1
    <3>10. TypeOK'
      <4>1. now' \in Times /\ up' \in BOOLEAN /\ killed' \in BOOLEAN /\ starts' \in 0 .. MaxStarts
        BY <1>1, <2>2 DEF TypeOK
      <4> QED
        BY <2>2, <3>4, <3>8, <3>9, <4>1, Zenon DEF TypeOK
    <3> QED
      BY <3>7, <3>10 DEF IInv
  <2>4. CASE UNCHANGED writer /\ due' = due
    <3>1. Kept'
      BY <1>1, <2>4 DEF Kept, writer
    <3>2. TypeOK'
      BY <1>1, <2>2, <2>4 DEF TypeOK, writer
    <3> QED
      BY <3>1, <3>2 DEF IInv
  <2> QED
    BY <2>1, <2>3, <2>4
<1>4. CASE Start
  <2>1. /\ files' = files /\ buffered' = <<>> /\ size' = 0 /\ rotated' = now /\ open' \in {now, NoFile}
        /\ up' = TRUE /\ starts' = starts + 1 /\ starts < MaxStarts
        /\ now' = now /\ seq' = seq /\ due' = due /\ killed' = killed
    BY <1>4 DEF Start
  <2>2. Kept'
    <3>1. open' # NoFile => \A t \in Times : t > open' => files'[t] = <<>>
      BY <1>1, <2>1 DEF TypeOK
    <3>2. DOMAIN buffered' = {} /\ buffered' \in Seq(Line) /\ size' \in Nat
      BY <1>2, <2>1
    <3>3. files' \in [Times -> Seq(Line)] /\ due' \in Seq(Infos)
      BY <1>1, <2>1 DEF Kept
    <3> QED
      BY <3>1, <3>2, <3>3, Zenon DEF Kept
  <2>3. TypeOK'
    <3>1. open' \in 0 .. now' \cup {NoFile} /\ starts' \in 0 .. MaxStarts
      BY <1>1, <2>1 DEF TypeOK
    <3>2. \A t \in Times : t > now' => files'[t] = <<>>
      BY <1>1, <2>1 DEF TypeOK
    <3>3. open' # NoFile => size' <= SizeLimit /\ rotated' = open'
      BY <2>1
    <3>4. now' \in Times /\ up' \in BOOLEAN /\ up' = TRUE /\ killed' \in BOOLEAN /\ seq' \in 0 .. MaxTraced
      BY <1>1, <2>1 DEF TypeOK
    <3> QED
      BY <2>1, <3>1, <3>2, <3>3, <3>4, Zenon DEF TypeOK
  <2> QED
    BY <2>2, <2>3 DEF IInv
<1>5. ASSUME Stop \/ Kill PROVE IInv'
  <2>1. /\ up' = FALSE /\ buffered' = <<>> /\ open' = NoFile /\ now' = now /\ size' = size
        /\ seq' = seq /\ starts' = starts /\ due' = due /\ (killed' = killed \/ killed' = TRUE)
    BY <1>5 DEF Stop, Kill
  <2>2. PICK lines \in Seq(Line) : Moves(lines)
    <3>1. CASE Stop
      BY <1>1, <3>1 DEF Stop, Moves, TypeOK
    <3>2. CASE Kill
      BY <3>2, KillMoves
    <3> QED
      BY <1>5, <3>1, <3>2
  <2>3. /\ files' \in [Times -> Seq(Line)]
        /\ \A t \in Times : t > now => files'[t] = <<>>
        /\ open' # NoFile => \A t \in Times : t > open' => files'[t] = <<>>
        /\ open' \in 0 .. now' \cup {NoFile}
    BY <2>1, <2>2, MovesKept
  <2>4. Kept'
    <3>1. DOMAIN buffered' = {} /\ buffered' \in Seq(Line) /\ size' \in Nat /\ due' \in Seq(Infos)
      BY <1>1, <1>2, <2>1 DEF Kept
    <3> QED
      BY <2>3, <3>1, Zenon DEF Kept
  <2>5. TypeOK'
    <3>1. now' \in Times /\ up' \in BOOLEAN /\ killed' \in BOOLEAN /\ seq' \in 0 .. MaxTraced /\ starts' \in 0 .. MaxStarts
      BY <1>1, <2>1 DEF TypeOK
    <3> QED
      BY <2>1, <2>3, <3>1, Zenon DEF TypeOK
  <2> QED
    BY <2>4, <2>5 DEF IInv
<1>6. CASE Tick
  <2>1. /\ now < MaxTime /\ now' = now + 1
        /\ up' = up /\ seq' = seq /\ starts' = starts /\ due' = due /\ killed' = killed
        /\ files' = files /\ open' = open /\ buffered' = buffered /\ size' = size /\ rotated' = rotated
    BY <1>6 DEF Tick, writer
  <2>2. Kept'
    BY <1>1, <2>1 DEF Kept
  <2>3. TypeOK'
    <3>1. now' \in Times /\ open' \in 0 .. now' \cup {NoFile}
      BY <1>1, <2>1 DEF Times
    <3>2. \A t \in Times : t > now' => files'[t] = <<>>
      BY <1>1, <2>1 DEF TypeOK
    <3> QED
      BY <1>1, <2>1, <3>1, <3>2 DEF TypeOK
  <2> QED
    BY <2>2, <2>3 DEF IInv
<1>7. CASE UNCHANGED vars
  <2>1. /\ now' = now /\ up' = up /\ seq' = seq /\ starts' = starts /\ due' = due /\ killed' = killed
        /\ files' = files /\ open' = open /\ buffered' = buffered /\ size' = size /\ rotated' = rotated
    BY <1>7 DEF vars, writer
  <2>2. Kept'
    BY <1>1, <2>1 DEF Kept
  <2>3. TypeOK'
    BY <1>1, <2>1 DEF TypeOK
  <2> QED
    BY <2>2, <2>3 DEF IInv
<1> QED
  BY <1>3, <1>4, <1>5, <1>6, <1>7 DEF Next

\* The properties of TypeOK: no file is ahead of the clock, none is open while the
\* service is down, the open one is within its limit (LogWriter.cpp).
THEOREM TypeCorrect == Spec => []TypeOK
<1>1. Init => IInv
  BY InitIInv
<1>2. IInv /\ [Next]_vars => IInv'
  BY NextIInv
<1>3. IInv => TypeOK
  BY DEF IInv
<1> QED
  BY <1>1, <1>2, <1>3, PTL DEF Spec

\* Lines that are stored, and those behind them, are lines.
LEMMA LinesType ==
  ASSUME IInv
  PROVE  StoredLines \in Seq(Line) /\ buffered \in Seq(Line) /\ AllLines \in Seq(Line)
<1> USE Bounds
<1>1. files \in [Times -> Seq(Line)] /\ buffered \in Seq(Line)
  BY DEF IInv, Kept
<1>2. \A i \in 1 .. MaxTime + 1 : i - 1 \in Times
  BY DEF Times
<1>3. [i \in 1 .. MaxTime + 1 |-> files[i - 1]] \in Seq(Seq(Line))
  BY <1>1, <1>2
<1>4. StoredLines \in Seq(Line)
  BY <1>3, FlattenType DEF StoredLines
<1>5. \A a, b \in Seq(Line) : a \o b \in Seq(Line)
  OBVIOUS
<1> QED
  BY <1>1, <1>4, <1>5 DEF AllLines

\* No line is of a record that was not traced, whatever was cut on its way
\* (HandleLogData, LogInfo::Deserialize).
THEOREM NothingIsInvented == Spec => []NothingInvented
<1>1. Init => IInv
  BY InitIInv
<1>2. IInv /\ [Next]_vars => IInv'
  BY NextIInv
<1>3. IInv => NothingInvented
  <2> SUFFICES ASSUME IInv, NEW i \in DOMAIN AllLines PROVE AllLines[i].info \in Infos
    BY DEF NothingInvented
  <2>1. AllLines \in Seq(Line)
    BY LinesType
  <2>2. \A s \in Seq(Line) : \A j \in DOMAIN s : s[j] \in Line
    OBVIOUS
  <2>3. AllLines[i] \in Line
    BY <2>1, <2>2
  <2> QED
    BY <2>3 DEF Line
<1> QED
  BY <1>1, <1>2, <1>3, PTL DEF Spec

-----------------------------------------------------------------------------
(* Nothing is lost.                                                         *)

\* The lines after a step: those stored so far, those that leave the buffer, and
\* those in it.
LEMMA MovesAll ==
  ASSUME IInv, NEW lines \in Seq(Line), Moves(lines), buffered' \in Seq(Line)
  PROVE  AllLines' = StoredLines \o (lines \o buffered')
<1>1. StoredLines' = StoredLines \o lines /\ StoredLines \in Seq(Line)
  BY StoredGrows DEF Moves
<1>2. AllLines' = StoredLines' \o buffered'
  BY DEF AllLines
<1>3. Associates(Line)
  BY Associative
<1>4. (StoredLines \o lines) \o buffered' = StoredLines \o (lines \o buffered')
  BY <1>1, <1>3, Zenon DEF Associates
<1> QED
  BY <1>1, <1>2, <1>4, Zenon

\* What is appended to the second part is appended to the whole.
LEMMA AppendBehind ==
  ASSUME NEW a \in Seq(Line), NEW b \in Seq(Line), NEW e \in Line
  PROVE  a \o Append(b, e) = Append(a \o b, e)
OBVIOUS

\* A function on 1 .. n is a sequence.
LEMMA SequenceOf ==
  ASSUME NEW S, NEW n \in Nat, NEW x \in [1 .. n -> S]
  PROVE  x \in Seq(S) /\ Len(x) = n
OBVIOUS

\* Lines that are due, as they are logged.
Due == [i \in DOMAIN due |-> Whole(due[i])]

\* One more record is due.
LEMMA DueAppend ==
  ASSUME due \in Seq(Infos), NEW info \in Infos, due' = Append(due, info)
  PROVE  Due' = Append(Due, Whole(info)) /\ Due \in Seq(Line)
<1>1. \A d \in Infos : Whole(d) \in Line
  BY WholeType
<1>2. DOMAIN due = 1 .. Len(due) /\ Len(due) \in Nat /\ \A i \in 1 .. Len(due) : due[i] \in Infos
  OBVIOUS
<1>3. Due = [i \in 1 .. Len(due) |-> Whole(due[i])]
  BY <1>2, Zenon DEF Due
<1>4. Due \in Seq(Line) /\ Len(Due) = Len(due)
  BY <1>1, <1>2, <1>3
<1>5. /\ DOMAIN due' = 1 .. Len(due) + 1 /\ due'[Len(due) + 1] = info
      /\ \A i \in 1 .. Len(due) : due'[i] = due[i]
  BY <1>2
<1>6. Due' = [i \in 1 .. Len(due) + 1 |-> Whole(due'[i])]
  BY <1>5, Zenon DEF Due
<1> DEFINE n == Len(due)
           x == Due'
           y == Append(Due, Whole(info))
<1>7. y \in Seq(Line) /\ Len(y) = n + 1 /\ y[n + 1] = Whole(info) /\ \A i \in 1 .. n : y[i] = Due[i]
  BY <1>1, <1>2, <1>4
<1>8. ASSUME NEW i \in 1 .. n + 1 PROVE due'[i] \in Infos
  <2>1. CASE i = n + 1
    BY <1>5, <2>1
  <2>2. CASE i # n + 1
    <3>1. i \in 1 .. n
      BY <1>2, <2>2
    <3> QED
      BY <1>2, <1>5, <3>1
  <2> QED
    BY <2>1, <2>2
<1>9. \A i \in 1 .. n + 1 : x[i] = Whole(due'[i]) /\ x[i] \in Line
  BY <1>1, <1>6, <1>8
<1>10. x \in Seq(Line) /\ Len(x) = n + 1
  <2>1. n + 1 \in Nat /\ DOMAIN x = 1 .. n + 1
    BY <1>2, <1>6
  <2>2. x = [i \in 1 .. n + 1 |-> x[i]]
    BY <1>6, <2>1
  <2> HIDE DEF x, n
  <2>3. x \in [1 .. n + 1 -> Line]
    BY <1>9, <2>2
  <2> QED
    BY <2>1, <2>3, SequenceOf
<1>11. \A i \in 1 .. n : Due[i] = Whole(due[i])
  BY <1>3
<1> HIDE DEF x, y
<1>12. ASSUME NEW i \in 1 .. n + 1 PROVE x[i] = y[i]
  <2>1. CASE i = n + 1
    BY <1>5, <1>7, <1>9, <2>1
  <2>2. CASE i # n + 1
    <3>1. i \in 1 .. n
      BY <1>2, <2>2
    <3> QED
      BY <1>5, <1>7, <1>9, <1>11, <3>1
  <2> QED
    BY <2>1, <2>2
<1>13. x = y
  BY <1>7, <1>10, <1>12, SameElements
<1> QED
  BY <1>4, <1>13 DEF x, y

\* Every step keeps what is due.
LEMMA NextComplete == IInv /\ IInv' /\ Complete /\ [Next]_vars => Complete'
<1> SUFFICES ASSUME IInv, IInv', Complete, [Next]_vars, ~killed' PROVE AllLines' = Due'
  BY DEF Complete, Due
<1>1. /\ buffered \in Seq(Line) /\ buffered' \in Seq(Line) /\ due \in Seq(Infos)
      /\ StoredLines \in Seq(Line) /\ AllLines = StoredLines \o buffered
  BY LinesType DEF IInv, Kept, AllLines
<1>2. ~killed /\ ~Kill
  BY DEF Next, Trace, Start, Stop, Kill, Tick, vars
<1>3. AllLines = Due
  BY <1>2 DEF Complete, Due
<1>4. ASSUME files' = files, buffered' = buffered, due' = due PROVE AllLines' = Due'
  <2>1. AllLines' = AllLines /\ Due' = Due
    BY <1>4 DEF AllLines, StoredLines, Due
  <2> QED
    BY <1>3, <2>1
<1>5. <<>> \in Seq(Line) /\ \A s \in Seq(Line) : <<>> \o s = s /\ s \o <<>> = s
  OBVIOUS
<1>6. CASE Trace
  <2>1. PICK info \in Infos :
          \/ open # NoFile /\ Written(info) /\ due' = Append(due, info)
          \/ UNCHANGED writer /\ due' = due
    BY <1>6, TraceMoves
  <2>2. CASE Written(info) /\ due' = Append(due, info)
    <3> DEFINE lines == Append(buffered, Whole(info))
    <3>1. \/ Moves(<<>>) /\ buffered' = lines
          \/ Moves(lines) /\ buffered' = <<>>
      BY <2>2, Zenon DEF Written
    <3>2. lines \in Seq(Line) /\ Whole(info) \in Line
      BY BufferAppend, WholeType
    <3> HIDE DEF lines
    <3>3. AllLines' = StoredLines \o lines
      <4>1. CASE Moves(<<>>) /\ buffered' = lines
        <5>1. AllLines' = StoredLines \o (<<>> \o buffered')
          BY <1>1, <1>5, <4>1, MovesAll
        <5> QED
          BY <1>5, <3>2, <4>1, <5>1, Zenon
      <4>2. CASE Moves(lines) /\ buffered' = <<>>
        <5>1. AllLines' = StoredLines \o (lines \o buffered')
          BY <1>1, <3>2, <4>2, MovesAll
        <5> QED
          BY <1>5, <3>2, <4>2, <5>1, Zenon
      <4> QED
        BY <3>1, <4>1, <4>2
    <3>4. StoredLines \o lines = Append(StoredLines \o buffered, Whole(info))
      BY <1>1, <3>2, AppendBehind DEF lines
    <3>5. Due' = Append(Due, Whole(info))
      BY <1>1, <2>2, DueAppend
    <3> QED
      BY <1>1, <1>3, <3>3, <3>4, <3>5, Zenon
  <2>3. CASE UNCHANGED writer /\ due' = due
    BY <1>4, <2>3 DEF writer
  <2> QED
    BY <2>1, <2>2, <2>3
<1>7. CASE Stop
  <2>1. Moves(buffered) /\ buffered' = <<>> /\ due' = due
    BY <1>7 DEF Stop, Moves, IInv, TypeOK
  <2>2. AllLines' = StoredLines \o (buffered \o buffered')
    BY <1>1, <2>1, MovesAll
  <2>3. AllLines' = AllLines
    BY <1>1, <1>5, <2>1, <2>2, Zenon
  <2> QED
    BY <1>3, <2>1, <2>3 DEF Due
<1>8. CASE Start
  <2>1. buffered = <<>>
    BY <1>8 DEF Start, IInv, TypeOK
  <2> QED
    BY <1>4, <1>8, <2>1 DEF Start
<1>9. CASE Tick \/ UNCHANGED vars
  BY <1>4, <1>9 DEF Tick, vars, writer
<1> QED
  BY <1>2, <1>6, <1>7, <1>8, <1>9 DEF Next

\* At first nothing is stored.
LEMMA NothingStored == Init => StoredLines = <<>>
<1> SUFFICES ASSUME Init PROVE StoredLines = <<>>
  OBVIOUS
<1> DEFINE s == [i \in 1 .. MaxTime + 1 |-> files[i - 1]]
<1>1. s \in Seq(Seq(Line)) /\ \A i \in 1 .. Len(s) : s[i] = <<>>
  <2>1. \A i \in 1 .. MaxTime + 1 : files[i - 1] = <<>>
    BY Bounds DEF Init, Times
  <2>2. <<>> \in Seq(Line) /\ MaxTime + 1 \in Nat
    BY Bounds
  <2>3. s \in [1 .. MaxTime + 1 -> Seq(Line)] /\ \A i \in 1 .. MaxTime + 1 : s[i] = <<>>
    BY <2>1, <2>2
  <2> HIDE DEF s
  <2>4. s \in Seq(Seq(Line)) /\ Len(s) = MaxTime + 1
    BY <2>2, <2>3, SequenceOf
  <2> QED
    BY <2>3, <2>4
<1> HIDE DEF s
<1>2. FlattenSeq(s) = <<>>
  BY <1>1, FlattenEmpty
<1> QED
  BY <1>2, Zenon DEF StoredLines, s

\* Unless the service is killed, the log holds every record that it received whole
\* while a file was open, once and in order, across every rotation
\* (LogWriter::Write, Rotate).
THEOREM NothingIsLost == Spec => []Complete
<1>1. Init => IInv
  BY InitIInv
<1>2. IInv /\ [Next]_vars => IInv'
  BY NextIInv
<1>3. Init => Complete
  <2> SUFFICES ASSUME Init PROVE AllLines = Due
    BY DEF Complete, Due
  <2>3. StoredLines = <<>>
    BY NothingStored
  <2>4. <<>> \o <<>> = <<>> /\ [i \in DOMAIN <<>> |-> Whole(<<>>[i])] = <<>>
    OBVIOUS
  <2> QED
    BY <2>3, <2>4 DEF Init, AllLines, Due
<1>4. IInv /\ IInv' /\ Complete /\ [Next]_vars => Complete'
  BY NextComplete
<1> QED
  BY <1>1, <1>2, <1>3, <1>4, PTL DEF Spec

-----------------------------------------------------------------------------
(* A FATAL record is stored at once.                                        *)

\* Places of an element.
Places(lines, line) == {i \in DOMAIN lines : lines[i] = line}

\* They can be counted.
LEMMA CountType ==
  ASSUME NEW S, NEW s \in Seq(S), NEW e
  PROVE  IsFiniteSet(Places(s, e)) /\ Count(s, e) = Cardinality(Places(s, e)) /\ Count(s, e) \in Nat
<1>1. DOMAIN s = 1 .. Len(s) /\ Len(s) \in Nat
  OBVIOUS
<1>2. IsFiniteSet(1 .. Len(s))
  BY <1>1, FS_Interval
<1>3. Places(s, e) \subseteq 1 .. Len(s)
  BY <1>1 DEF Places
<1>4. IsFiniteSet(Places(s, e))
  BY <1>2, <1>3, FS_Subset
<1>5. Count(s, e) = Cardinality(Places(s, e))
  BY Zenon DEF Count, Places
<1> QED
  BY <1>4, <1>5, FS_CardinalityType

\* An element at the end counts, another one does not.
LEMMA CountAppend ==
  ASSUME NEW S, NEW s \in Seq(S), NEW d \in S, NEW e
  PROVE  Count(Append(s, d), e) = IF d = e THEN Count(s, e) + 1 ELSE Count(s, e)
<1> DEFINE r == Append(s, d)
           n == Len(s) + 1
<1>1. /\ DOMAIN s = 1 .. Len(s) /\ DOMAIN r = 1 .. n /\ Len(s) \in Nat /\ r \in Seq(S)
      /\ r[n] = d /\ \A i \in 1 .. Len(s) : r[i] = s[i]
  OBVIOUS
<1> HIDE DEF r
<1>2. Places(r, e) = IF d = e THEN Places(s, e) \cup {n} ELSE Places(s, e)
  BY <1>1 DEF Places
<1>3. n \notin Places(s, e)
  BY <1>1 DEF Places
<1>4. IsFiniteSet(Places(s, e)) /\ Count(s, e) = Cardinality(Places(s, e)) /\ Count(r, e) = Cardinality(Places(r, e))
  BY <1>1, CountType
<1>5. Cardinality(Places(s, e) \cup {n}) = Cardinality(Places(s, e)) + 1
  BY <1>3, <1>4, FS_AddElement
<1> QED
  BY <1>2, <1>4, <1>5 DEF r

\* What does not have the element changes no count.
LEMMA CountOthers ==
  ASSUME NEW S, NEW s \in Seq(S), NEW w \in Seq(S), NEW e, \A i \in DOMAIN w : w[i] # e
  PROVE  Count(s \o w, e) = Count(s, e)
<1> DEFINE r == s \o w
<1>1. /\ DOMAIN s = 1 .. Len(s) /\ Len(s) \in Nat /\ Len(w) \in Nat /\ r \in Seq(S)
      /\ DOMAIN r = 1 .. Len(s) + Len(w) /\ DOMAIN w = 1 .. Len(w)
      /\ \A i \in 1 .. Len(s) : r[i] = s[i]
      /\ \A i \in Len(s) + 1 .. Len(s) + Len(w) : r[i] = w[i - Len(s)]
  OBVIOUS
<1> HIDE DEF r
<1>2. ASSUME NEW i \in Len(s) + 1 .. Len(s) + Len(w) PROVE r[i] # e
  <2>1. i - Len(s) \in DOMAIN w
    BY <1>1
  <2> QED
    BY <1>1, <2>1
<1>3. Places(r, e) = Places(s, e)
  BY <1>1, <1>2 DEF Places
<1>4. Count(s, e) = Cardinality(Places(s, e)) /\ Count(r, e) = Cardinality(Places(r, e))
  BY <1>1, CountType
<1> QED
  BY <1>3, <1>4 DEF r

\* Every step keeps the counts of FATAL records.
LEMMA NextFatal == IInv /\ FatalIsStored /\ [Next]_vars => FatalIsStored'
<1> SUFFICES ASSUME IInv, FatalIsStored, [Next]_vars, NEW f \in Infos, f.level = FATAL
             PROVE  Count(due', f) = Count(StoredLines', Whole(f))
  BY DEF FatalIsStored
<1> DEFINE w == Whole(f)
<1>1. /\ buffered \in Seq(Line) /\ due \in Seq(Infos) /\ StoredLines \in Seq(Line)
      /\ \A i \in DOMAIN buffered : buffered[i].info.level # FATAL
      /\ Count(due, f) = Count(StoredLines, w) /\ w \in Line /\ w.info = f
  BY LinesType, WholeType DEF IInv, Kept, FatalIsStored
<1>2. \A l : l.info.level # FATAL => l # w
  BY <1>1
<1> SUFFICES Count(due', f) = Count(StoredLines', w)
  OBVIOUS
<1> HIDE DEF w
<1>3. ASSUME NEW lines \in Seq(Line), Moves(lines), due' = due,
             \A i \in DOMAIN lines : lines[i].info.level # FATAL
      PROVE  Count(due', f) = Count(StoredLines', w)
  <2>1. StoredLines' = StoredLines \o lines
    BY <1>3, StoredGrows DEF Moves
  <2>2. \A i \in DOMAIN lines : lines[i] # w
    BY <1>2, <1>3
  <2>3. Count(StoredLines \o lines, w) = Count(StoredLines, w)
    BY <1>1, <2>2, CountOthers
  <2> QED
    BY <1>1, <1>3, <2>1, <2>3, Zenon
<1>4. ASSUME files' = files, due' = due PROVE Count(due', f) = Count(StoredLines', w)
  <2>1. StoredLines' = StoredLines
    BY <1>4 DEF StoredLines
  <2> QED
    BY <1>1, <1>4, <2>1, Zenon
<1>5. CASE Trace
  <2>1. PICK info \in Infos :
          \/ open # NoFile /\ Written(info) /\ due' = Append(due, info)
          \/ UNCHANGED writer /\ due' = due
    BY <1>5, TraceMoves
  <2>2. CASE Written(info) /\ due' = Append(due, info)
    <3> DEFINE lines == Append(buffered, Whole(info))
    <3>1. \/ Moves(<<>>) /\ info.level # FATAL
          \/ Moves(lines)
      BY <2>2, Zenon DEF Written
    <3>2. lines \in Seq(Line) /\ Whole(info) \in Line /\ Whole(info).info = info
      BY BufferAppend, WholeType
    <3>3. Count(due', f) = IF info = f THEN Count(due, f) + 1 ELSE Count(due, f)
      BY <1>1, <2>2, CountAppend
    <3>4. CASE Moves(<<>>) /\ info.level # FATAL
      <4>1. <<>> \in Seq(Line) /\ StoredLines \o <<>> = StoredLines
        BY <1>1
      <4>2. StoredLines' = StoredLines
        BY <3>4, <4>1, StoredGrows DEF Moves
      <4>3. info # f
        BY <3>4
      <4> QED
        BY <1>1, <3>3, <4>2, <4>3, Zenon
    <3>5. CASE Moves(lines)
      <4> HIDE DEF lines
      <4>1. StoredLines' = StoredLines \o lines
        BY <3>2, <3>5, StoredGrows DEF Moves
      <4>2. StoredLines \o lines = Append(StoredLines \o buffered, Whole(info))
        BY <1>1, <3>2, AppendBehind DEF lines
      <4>3. \A i \in DOMAIN buffered : buffered[i] # w
        BY <1>1, <1>2
      <4>4. StoredLines \o buffered \in Seq(Line) /\ Count(StoredLines \o buffered, w) = Count(StoredLines, w)
        <5>1. Count(StoredLines \o buffered, w) = Count(StoredLines, w)
          BY <1>1, <4>3, CountOthers
        <5> QED
          BY <1>1, <5>1
      <4> DEFINE all == StoredLines \o buffered
      <4>5. Count(Append(all, Whole(info)), w)
              = IF Whole(info) = w THEN Count(all, w) + 1 ELSE Count(all, w)
        <5>1. all \in Seq(Line) /\ Whole(info) \in Line
          BY <3>2, <4>4
        <5> HIDE DEF all
        <5> QED
          BY <5>1, CountAppend
      <4>6. Whole(info) = w <=> info = f
        BY <1>1, <3>2 DEF w
      <4> QED
        BY <1>1, <3>3, <4>1, <4>2, <4>4, <4>5, <4>6, Zenon
    <3> QED
      BY <3>1, <3>4, <3>5
  <2>3. CASE UNCHANGED writer /\ due' = due
    BY <1>4, <2>3 DEF writer
  <2> QED
    BY <2>1, <2>2, <2>3
<1>6. CASE Stop
  <2>1. Moves(buffered) /\ due' = due
    BY <1>6 DEF Stop, Moves, IInv, TypeOK
  <2> QED
    BY <1>1, <1>3, <2>1
<1>7. CASE Kill
  <2>1. PICK lines \in Seq(Line) :
          Moves(lines) /\ \A i \in DOMAIN lines : lines[i].info.level # FATAL
    BY <1>7, KillMoves
  <2>2. due' = due
    BY <1>7 DEF Kill
  <2> QED
    BY <1>3, <2>1, <2>2
<1>8. CASE Start \/ Tick \/ UNCHANGED vars
  BY <1>4, <1>8 DEF Start, Tick, vars, writer
<1> QED
  BY <1>5, <1>6, <1>7, <1>8 DEF Next, w

\* A FATAL record that was received is in a file and stays there, whether the
\* service is stopped or killed (the flush of LogWriter::Write).
THEOREM FatalRecordsAreStored == Spec => []FatalIsStored
<1>1. Init => IInv
  BY InitIInv
<1>2. IInv /\ [Next]_vars => IInv'
  BY NextIInv
<1>3. Init => FatalIsStored
  <2> SUFFICES ASSUME Init, NEW f \in Infos PROVE Count(due, f) = Count(StoredLines, Whole(f))
    BY DEF FatalIsStored
  <2>1. StoredLines = <<>>
    BY NothingStored
  <2>2. due = <<>> /\ DOMAIN <<>> = {}
    BY DEF Init
  <2>3. \A e : Count(<<>>, e) = Cardinality({})
    <3>1. \A e : {i \in DOMAIN <<>> : <<>>[i] = e} = {}
      BY <2>2
    <3> QED
      BY <3>1, Zenon DEF Count
  <2> QED
    BY <2>1, <2>2, <2>3, Zenon
<1>4. IInv /\ FatalIsStored /\ [Next]_vars => FatalIsStored'
  BY NextFatal
<1> QED
  BY <1>1, <1>2, <1>3, <1>4, PTL DEF Spec
=============================================================================
