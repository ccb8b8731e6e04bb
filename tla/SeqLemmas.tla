------------------------------ MODULE SeqLemmas ------------------------------
(***************************************************************************)
(* Facts about natural numbers and sequences that the proofs share:        *)
(* induction over the natural numbers in the form of a set that is closed  *)
(* under the successor, least and greatest elements, and what the          *)
(* recursive FlattenSeq of SequencesExt computes for every sequence.       *)
(***************************************************************************)
EXTENDS Integers, Sequences, SequencesExt, FiniteSetsExt, SequenceTheorems, WellFoundedInduction, TLAPS

-----------------------------------------------------------------------------
(* Natural numbers. *)

\* A set of naturals has a least element.
LEMMA LeastNat ==
    ASSUME NEW T \in SUBSET Nat, T # {}
    PROVE  \E x \in T : \A y \in T : x <= y
<1> DEFINE R == {ss \in Nat \X Nat : ss[1] < ss[2]}
<1>1. IsWellFoundedOn(R, Nat)
  BY NatLessThanWellFounded DEF OpToRel
<1>2. \E x \in T : \A y \in T : ~(<<y, x>> \in R)
  <2> HIDE DEF R
  <2> QED BY <1>1, WFMin
<1>3. PICK x \in T : \A y \in T : ~(<<y, x>> \in R)
  BY <1>2
<1>4. ASSUME NEW y \in T PROVE x <= y
  <2>1. <<y, x>> \in Nat \X Nat /\ ~(<<y, x>> \in R)
    BY <1>3
  <2>2. ~(y < x)
    BY <2>1
  <2> QED BY <2>2
<1> QED BY <1>4

\* Induction: a set with 0 and with the successor of each of its naturals has
\* every natural.
LEMMA SetInduction ==
    ASSUME NEW Q, 0 \in Q, \A n \in Nat : n \in Q => n + 1 \in Q
    PROVE  Nat \subseteq Q
<1> SUFFICES ASSUME Nat \ Q # {} PROVE FALSE
  OBVIOUS
<1> DEFINE T == Nat \ Q
<1>0. T \in SUBSET Nat /\ T # {}
  OBVIOUS
<1>1. PICK x \in T : \A y \in T : x <= y
  <2> HIDE DEF T
  <2> QED BY LeastNat, <1>0
<1>2. x # 0
  BY <1>1
<1>3. x - 1 \in Nat /\ x - 1 \in Q
  BY <1>1, <1>2
<1> QED BY <1>1, <1>3

\* A set of naturals that is bounded has a greatest element.
LEMMA GreatestNat ==
    ASSUME NEW T \in SUBSET Nat, T # {}, NEW b \in Nat, \A y \in T : y <= b
    PROVE  \E x \in T : \A y \in T : x >= y
<1> DEFINE U == {n \in Nat : \A y \in T : y <= n}
<1>1. U \in SUBSET Nat /\ U # {}
  OBVIOUS
<1>2. PICK u \in U : \A v \in U : u <= v
  <2> HIDE DEF U
  <2> QED BY LeastNat, <1>1
<1>3. u \in T
  <2> SUFFICES ASSUME u \notin T PROVE FALSE
    OBVIOUS
  <2>1. \A y \in T : y < u
    BY <1>2
  <2>2. PICK z \in T : z < u
    BY <2>1
  <2>2a. u - 1 \in Nat
    BY <2>2
  <2>2b. \A y \in T : y <= u - 1
    BY <2>1, <2>2a
  <2>3. u - 1 \in U
    BY <2>2a, <2>2b
  <2> QED BY <1>2, <2>3
<1> QED BY <1>2, <1>3

\* What Min and Max of FiniteSetsExt choose.
LEMMA MinOfNats ==
    ASSUME NEW T \in SUBSET Nat, T # {}
    PROVE  Min(T) \in T /\ \A y \in T : Min(T) <= y
BY LeastNat DEF Min

LEMMA MaxOfNats ==
    ASSUME NEW T \in SUBSET Nat, T # {}, NEW b \in Nat, \A y \in T : y <= b
    PROVE  Max(T) \in T /\ \A y \in T : Max(T) >= y
BY GreatestNat DEF Max

LEMMA MinOfTwo ==
    ASSUME NEW a \in Nat, NEW b \in Nat
    PROVE  Min({a, b}) = IF a <= b THEN a ELSE b
<1>1. Min({a, b}) \in {a, b} /\ \A y \in {a, b} : Min({a, b}) <= y
  <2> DEFINE T == {a, b}
  <2>1. T \in SUBSET Nat /\ T # {}
    OBVIOUS
  <2> HIDE DEF T
  <2>2. Min(T) \in T /\ \A y \in T : Min(T) <= y
    BY <2>1, MinOfNats
  <2> QED BY <2>2 DEF T
<1> QED BY <1>1

-----------------------------------------------------------------------------
(* Concatenations. *)

\* Concatenation as an operator of its own, which the provers leave alone.
Cat(a, b) == a \o b

\* Two sequences are the same if they agree everywhere.
LEMMA SameSeq ==
    ASSUME NEW S, NEW a \in Seq(S), NEW b \in Seq(S), Len(a) = Len(b),
           \A i \in 1 .. Len(a) : a[i] = b[i]
    PROVE  a = b
OBVIOUS

\* The elements of a concatenation and of a piece.
LEMMA CatIs ==
    ASSUME NEW S, NEW a \in Seq(S), NEW b \in Seq(S)
    PROVE  /\ Cat(a, b) \in Seq(S) /\ Len(Cat(a, b)) = Len(a) + Len(b)
           /\ \A i \in 1 .. Len(a) : Cat(a, b)[i] = a[i]
           /\ \A i \in Len(a) + 1 .. Len(a) + Len(b) : Cat(a, b)[i] = b[i - Len(a)]
BY DEF Cat

LEMMA CutIs ==
    ASSUME NEW S, NEW a \in Seq(S), NEW m \in 1 .. Len(a) + 1, NEW n \in Nat, m - 1 <= n, n <= Len(a)
    PROVE  /\ SubSeq(a, m, n) \in Seq(S) /\ Len(SubSeq(a, m, n)) = n - m + 1
           /\ \A i \in 1 .. n - m + 1 : SubSeq(a, m, n)[i] = a[m + i - 1]
OBVIOUS

\* Concatenation may be grouped either way.
LEMMA CatSame ==
    ASSUME NEW S, NEW a \in Seq(S), NEW b \in Seq(S), NEW c \in Seq(S)
    PROVE  Cat(Cat(a, b), c) = Cat(a, Cat(b, c))
<1>1. PICK la \in Nat, lb \in Nat, lc \in Nat : la = Len(a) /\ lb = Len(b) /\ lc = Len(c)
  BY LenProperties
<1>2. PICK p : p = Cat(a, b)
  OBVIOUS
<1>3. PICK q : q = Cat(b, c)
  OBVIOUS
<1>4. PICK u : u = Cat(p, c)
  OBVIOUS
<1>5. PICK v : v = Cat(a, q)
  OBVIOUS
<1>6. /\ p \in Seq(S) /\ Len(p) = la + lb
      /\ \A i \in 1 .. la : p[i] = a[i]
      /\ \A i \in la + 1 .. la + lb : p[i] = b[i - la]
  BY <1>1, <1>2, CatIs, ZenonT(60)
<1>7. /\ q \in Seq(S) /\ Len(q) = lb + lc
      /\ \A i \in 1 .. lb : q[i] = b[i]
      /\ \A i \in lb + 1 .. lb + lc : q[i] = c[i - lb]
  BY <1>1, <1>3, CatIs, ZenonT(60)
<1>8. /\ u \in Seq(S) /\ Len(u) = (la + lb) + lc
      /\ \A i \in 1 .. la + lb : u[i] = p[i]
      /\ \A i \in (la + lb) + 1 .. (la + lb) + lc : u[i] = c[i - (la + lb)]
  <2>1. /\ u \in Seq(S) /\ Len(u) = Len(p) + Len(c)
        /\ \A i \in 1 .. Len(p) : u[i] = p[i]
        /\ \A i \in Len(p) + 1 .. Len(p) + Len(c) : u[i] = c[i - Len(p)]
    BY <1>4, <1>6, CatIs, ZenonT(60)
  <2>2. Len(p) = la + lb /\ Len(c) = lc
    BY <1>1, <1>6
  <2> QED BY <2>1, <2>2
<1>9. /\ v \in Seq(S) /\ Len(v) = la + (lb + lc)
      /\ \A i \in 1 .. la : v[i] = a[i]
      /\ \A i \in la + 1 .. la + (lb + lc) : v[i] = q[i - la]
  <2>1. /\ v \in Seq(S) /\ Len(v) = Len(a) + Len(q)
        /\ \A i \in 1 .. Len(a) : v[i] = a[i]
        /\ \A i \in Len(a) + 1 .. Len(a) + Len(q) : v[i] = q[i - Len(a)]
    BY <1>5, <1>7, CatIs, ZenonT(60)
  <2>2. Len(q) = lb + lc /\ Len(a) = la
    BY <1>1, <1>7
  <2> QED BY <2>1, <2>2
<1>10. ASSUME NEW i \in 1 .. la + (lb + lc) PROVE u[i] = v[i]
  <2>1. CASE i <= la
    <3>1. i \in 1 .. la /\ i \in 1 .. la + lb
      BY <2>1
    <3> QED BY <3>1, <1>6, <1>8, <1>9
  <2>2. CASE la < i /\ i <= la + lb
    <3>1. i \in 1 .. la + lb /\ i \in la + 1 .. la + lb /\ i \in la + 1 .. la + (lb + lc) /\ i - la \in 1 .. lb
      BY <2>2
    <3> QED BY <3>1, <1>6, <1>7, <1>8, <1>9
  <2>3. CASE la + lb < i
    <3>1. /\ i \in (la + lb) + 1 .. (la + lb) + lc /\ i \in la + 1 .. la + (lb + lc)
          /\ i - la \in lb + 1 .. lb + lc /\ (i - la) - lb = i - (la + lb)
      BY <2>3
    <3>2. v[i] = q[i - la] /\ q[i - la] = c[(i - la) - lb] /\ u[i] = c[i - (la + lb)]
      BY <3>1, <1>7, <1>8, <1>9
    <3> QED BY <3>1, <3>2
  <2> QED BY <2>1, <2>2, <2>3
<1>11. u = v
  <2>1. Len(u) = Len(v) /\ Len(u) = la + (lb + lc)
    BY <1>8, <1>9
  <2> QED BY <1>8, <1>9, <1>10, <2>1, SameSeq
<1> QED BY <1>2, <1>3, <1>4, <1>5, <1>11

\* The recursion FlattenSeq is defined by, as an equation for the function.
Flattens(f, s) == f = [i \in 1 .. Len(s) |-> IF i = 1 THEN s[i] ELSE f[i - 1] \o s[i]]

\* The recursion has a solution.
LEMMA FlattenExists ==
    ASSUME NEW S, NEW s \in Seq(Seq(S))
    PROVE  \E f : Flattens(f, s)
<1> DEFINE Part(n, f) == /\ f \in [1 .. n -> Seq(S)]
                         /\ \A i \in 1 .. n : f[i] = IF i = 1 THEN s[i] ELSE f[i - 1] \o s[i]
           Some(n) == n <= Len(s) => \E f : Part(n, f)
           Q == {n \in Nat : Some(n)}
<1>1. Some(0)
  <2>1. Part(0, [i \in 1 .. 0 |-> s[i]])
    OBVIOUS
  <2> QED BY <2>1
<1>2. ASSUME NEW n \in Nat, Some(n) PROVE Some(n + 1)
  <2> SUFFICES ASSUME n + 1 <= Len(s) PROVE \E f : Part(n + 1, f)
    OBVIOUS
  <2>0. n <= Len(s)
    OBVIOUS
  <2>1. PICK f : Part(n, f)
    BY <1>2, <2>0
  <2> DEFINE g == [i \in 1 .. n + 1 |-> IF i <= n THEN f[i] ELSE IF i = 1 THEN s[i] ELSE f[i - 1] \o s[i]]
  <2>2. ASSUME NEW i \in 1 .. n + 1
        PROVE  g[i] \in Seq(S) /\ g[i] = IF i = 1 THEN s[i] ELSE g[i - 1] \o s[i]
    <3>1. s[i] \in Seq(S)
      OBVIOUS
    <3>2. CASE i <= n
      <4>1. i \in 1 .. n /\ g[i] = f[i] /\ (i # 1 => i - 1 \in 1 .. n /\ g[i - 1] = f[i - 1])
        BY <3>2
      <4> QED BY <2>1, <3>1, <4>1
    <3>3. CASE i = n + 1
      <4>1. i # 1 => i - 1 \in 1 .. n /\ g[i - 1] = f[i - 1] /\ f[i - 1] \in Seq(S)
        BY <3>3, <2>1
      <4> QED BY <3>1, <3>3, <4>1
    <3> QED BY <3>2, <3>3
  <2>3. Part(n + 1, g)
    BY <2>2
  <2> QED BY <2>3
<1>3. Nat \subseteq Q
  <2>1. 0 \in Q /\ \A n \in Nat : n \in Q => n + 1 \in Q
    <3> HIDE DEF Some
    <3> QED BY <1>1, <1>2
  <2> HIDE DEF Q
  <2> QED BY <2>1, SetInduction
<1>4. Some(Len(s))
  <2> HIDE DEF Some
  <2> QED BY <1>3, LenProperties
<1>5. PICK f : Part(Len(s), f)
  BY <1>4
<1>6. Flattens(f, s)
  BY <1>5 DEF Flattens
<1> QED BY <1>6

\* It gives sequences.
LEMMA FlattensType ==
    ASSUME NEW S, NEW s \in Seq(Seq(S)), NEW f, Flattens(f, s)
    PROVE  \A i \in 1 .. Len(s) : f[i] \in Seq(S)
<1> DEFINE Q == {n \in Nat : n + 1 <= Len(s) => f[n + 1] \in Seq(S)}
<1>1. 0 \in Q
  BY DEF Flattens
<1>2. ASSUME NEW n \in Nat, n \in Q PROVE n + 1 \in Q
  <2> SUFFICES ASSUME n + 2 <= Len(s) PROVE n + 1 \in Q
    OBVIOUS
  <2>1. n + 1 \in 1 .. Len(s) /\ n + 2 \in 1 .. Len(s) /\ (n + 2) - 1 = n + 1 /\ n + 2 # 1
    OBVIOUS
  <2>2. f[n + 2] = f[n + 1] \o s[n + 2]
    BY <2>1 DEF Flattens
  <2>2a. s[n + 2] \in Seq(S)
    BY <2>1
  <2>3. f[n + 1] \in Seq(S)
    BY <1>2, <2>1
  <2>4. f[n + 2] \in Seq(S)
    BY <2>2, <2>2a, <2>3
  <2> QED BY <2>4
<1>3. Nat \subseteq Q
  <2> HIDE DEF Q
  <2> QED BY <1>1, <1>2, SetInduction
<1>4. ASSUME NEW i \in 1 .. Len(s) PROVE f[i] \in Seq(S)
  <2>0. i - 1 \in Nat
    OBVIOUS
  <2>1. i - 1 \in Q
    BY <1>3, <2>0
  <2> QED BY <2>1
<1> QED BY <1>4

\* And only one.
LEMMA FlattensUnique ==
    ASSUME NEW S, NEW s \in Seq(Seq(S)), NEW f, Flattens(f, s), NEW t \in Seq(Seq(S)),
           NEW g, Flattens(g, t), Len(s) <= Len(t), \A i \in 1 .. Len(s) : s[i] = t[i]
    PROVE  \A i \in 1 .. Len(s) : f[i] = g[i]
<1> DEFINE Q == {n \in Nat : n + 1 <= Len(s) => f[n + 1] = g[n + 1]}
<1>1. 0 \in Q
  BY DEF Flattens
<1>2. ASSUME NEW n \in Nat, n \in Q PROVE n + 1 \in Q
  <2> SUFFICES ASSUME n + 2 <= Len(s) PROVE n + 1 \in Q
    OBVIOUS
  <2>1. n + 1 \in 1 .. Len(s) /\ n + 2 \in 1 .. Len(s) /\ (n + 2) - 1 = n + 1 /\ n + 2 # 1
    OBVIOUS
  <2>2. f[n + 2] = f[n + 1] \o s[n + 2] /\ s[n + 2] = t[n + 2]
    BY <2>1, ZenonT(60) DEF Flattens
  <2>3. n + 2 \in 1 .. Len(t)
    BY <2>1
  <2>4. g[n + 2] = g[n + 1] \o t[n + 2]
    BY <2>1, <2>3 DEF Flattens
  <2>5. f[n + 1] = g[n + 1]
    BY <1>2, <2>1
  <2>6. f[n + 2] = g[n + 2]
    BY <2>2, <2>4, <2>5
  <2> QED BY <2>6
<1>3. Nat \subseteq Q
  <2> HIDE DEF Q
  <2> QED BY <1>1, <1>2, SetInduction
<1>4. ASSUME NEW i \in 1 .. Len(s) PROVE f[i] = g[i]
  <2>0. i - 1 \in Nat
    OBVIOUS
  <2>1. i - 1 \in Q
    BY <1>3, <2>0
  <2> QED BY <2>1
<1> QED BY <1>4

\* FlattenSeq is the last value of the recursion.
LEMMA FlattenIs ==
    ASSUME NEW S, NEW s \in Seq(Seq(S)), s # <<>>
    PROVE  \E f : Flattens(f, s) /\ FlattenSeq(s) = f[Len(s)]
<1>1. \E f : Flattens(f, s)
  BY FlattenExists
<1>2. Flattens(CHOOSE f : Flattens(f, s), s)
  BY <1>1
<1>3. FlattenSeq(s) = (CHOOSE f : Flattens(f, s))[Len(s)]
  BY DEF FlattenSeq, Flattens
<1> QED BY <1>2, <1>3

\* What FlattenSeq gives for every sequence of sequences.
LEMMA FlattenEmpty == FlattenSeq(<<>>) = <<>>
BY DEF FlattenSeq

LEMMA FlattenType ==
    ASSUME NEW S, NEW s \in Seq(Seq(S))
    PROVE  FlattenSeq(s) \in Seq(S)
<1>1. CASE s = <<>>
  <2>1. <<>> \in Seq(S)
    OBVIOUS
  <2> QED BY <1>1, <2>1, FlattenEmpty
<1>2. CASE s # <<>>
  <2>1. PICK f : Flattens(f, s) /\ FlattenSeq(s) = f[Len(s)]
    BY <1>2, FlattenIs
  <2>2. Len(s) \in 1 .. Len(s)
    BY <1>2
  <2> QED BY <2>1, <2>2, FlattensType
<1> QED BY <1>1, <1>2

LEMMA FlattenAppend ==
    ASSUME NEW S, NEW s \in Seq(Seq(S)), NEW x \in Seq(S)
    PROVE  FlattenSeq(Append(s, x)) = FlattenSeq(s) \o x
<1> DEFINE t == Append(s, x)
<1>0. /\ t \in Seq(Seq(S)) /\ t # <<>> /\ Len(t) = Len(s) + 1 /\ t[Len(t)] = x
      /\ \A i \in 1 .. Len(s) : s[i] = t[i]
  <2>1. t \in Seq(Seq(S)) /\ Len(t) = Len(s) + 1 /\ t[Len(t)] = x
    OBVIOUS
  <2>2. t # <<>>
    BY <2>1
  <2>3. \A i \in 1 .. Len(s) : s[i] = t[i]
    OBVIOUS
  <2> QED BY <2>1, <2>2, <2>3
<1> HIDE DEF t
<1>1. PICK g : Flattens(g, t) /\ FlattenSeq(t) = g[Len(t)]
  BY <1>0, FlattenIs
<1>2. CASE s = <<>>
  <2>1. Len(t) = 1
    BY <1>0, <1>2
  <2>2. g[1] = x
    BY <1>0, <1>1, <2>1 DEF Flattens
  <2>3. <<>> \o x = x
    OBVIOUS
  <2> QED BY <1>1, <1>2, <2>1, <2>2, <2>3, FlattenEmpty DEF t
<1>3. CASE s # <<>>
  <2>1. PICK f : Flattens(f, s) /\ FlattenSeq(s) = f[Len(s)]
    BY <1>3, FlattenIs
  <2>2. Len(s) \in 1 .. Len(s) /\ Len(t) \in 1 .. Len(t) /\ Len(t) # 1 /\ Len(t) - 1 = Len(s)
    BY <1>0, <1>3
  <2>3. f[Len(s)] = g[Len(s)]
    BY <1>0, <1>1, <2>1, <2>2, FlattensUnique, SMTT(60)
  <2>4. g[Len(t)] = g[Len(s)] \o x
    BY <1>0, <1>1, <2>2 DEF Flattens
  <2> QED BY <1>1, <2>1, <2>3, <2>4 DEF t
<1> QED BY <1>2, <1>3

LEMMA FlattenConcat ==
    ASSUME NEW S, NEW s \in Seq(Seq(S)), NEW t \in Seq(Seq(S))
    PROVE  FlattenSeq(s \o t) = FlattenSeq(s) \o FlattenSeq(t)
<1> DEFINE P(u) == FlattenSeq(s \o u) = FlattenSeq(s) \o FlattenSeq(u)
           Q == {n \in Nat : n <= Len(t) => P(SubSeq(t, 1, n))}
<1>1. 0 \in Q
  <2>1. SubSeq(t, 1, 0) = <<>> /\ s \o <<>> = s
    OBVIOUS
  <2>2. FlattenSeq(s) \in Seq(S)
    BY FlattenType
  <2>3. FlattenSeq(s) \o <<>> = FlattenSeq(s)
    BY <2>2
  <2> QED BY <2>1, <2>3, FlattenEmpty
<1>2. ASSUME NEW n \in Nat, n \in Q PROVE n + 1 \in Q
  <2> SUFFICES ASSUME n + 1 <= Len(t) PROVE P(SubSeq(t, 1, n + 1))
    OBVIOUS
  <2> DEFINE u == SubSeq(t, 1, n)
             v == SubSeq(t, 1, n + 1)
             x == t[n + 1]
  <2>1. u \in Seq(Seq(S)) /\ x \in Seq(S) /\ v = Append(u, x)
    OBVIOUS
  <2>2. P(u)
    BY <1>2
  <2> HIDE DEF u, v, x
  <2>3. s \o v = Append(s \o u, x) /\ s \o u \in Seq(Seq(S))
    BY <2>1, SMTT(60)
  <2>4. FlattenSeq(s \o v) = FlattenSeq(s \o u) \o x
    <3> DEFINE w == s \o u
    <3> HIDE DEF w
    <3>1. FlattenSeq(Append(w, x)) = FlattenSeq(w) \o x
      BY <2>1, <2>3, FlattenAppend DEF w
    <3> QED BY <2>3, <3>1 DEF w
  <2>5. FlattenSeq(v) = FlattenSeq(u) \o x
    BY <2>1, FlattenAppend
  <2>6. FlattenSeq(s) \in Seq(S) /\ FlattenSeq(u) \in Seq(S)
    BY <2>1, FlattenType
  <2>7. (FlattenSeq(s) \o FlattenSeq(u)) \o x = FlattenSeq(s) \o (FlattenSeq(u) \o x)
    <3> DEFINE a == FlattenSeq(s)
               b == FlattenSeq(u)
    <3>1. a \in Seq(S) /\ b \in Seq(S) /\ x \in Seq(S)
      BY <2>1, <2>6
    <3> HIDE DEF a, b
    <3>2. Cat(Cat(a, b), x) = Cat(a, Cat(b, x))
      BY <3>1, CatSame
    <3> QED BY <3>2 DEF a, b, Cat
  <2> QED BY <2>2, <2>4, <2>5, <2>7 DEF v
<1>3. Nat \subseteq Q
  <2> HIDE DEF Q
  <2> QED BY <1>1, <1>2, SetInduction
<1>4. Len(t) \in Nat /\ SubSeq(t, 1, Len(t)) = t
  OBVIOUS
<1>5. P(SubSeq(t, 1, Len(t)))
  BY <1>3, <1>4
<1> QED BY <1>4, <1>5

LEMMA FlattenOne ==
    ASSUME NEW S, NEW x \in Seq(S)
    PROVE  FlattenSeq(<<x>>) = x
<1>1. <<>> \in Seq(Seq(S)) /\ Append(<<>>, x) = <<x>> /\ <<>> \o x = x
  OBVIOUS
<1> QED BY <1>1, FlattenAppend, FlattenEmpty

LEMMA FlattenCons ==
    ASSUME NEW S, NEW s \in Seq(Seq(S)), s # <<>>
    PROVE  FlattenSeq(s) = Head(s) \o FlattenSeq(Tail(s))
<1>1. Head(s) \in Seq(S) /\ Tail(s) \in Seq(Seq(S)) /\ <<Head(s)>> \in Seq(Seq(S))
      /\ s = <<Head(s)>> \o Tail(s)
  OBVIOUS
<1> DEFINE h == <<Head(s)>>
           t == Tail(s)
<1>2. FlattenSeq(h) = Head(s)
  BY <1>1, FlattenOne
<1>3. h \in Seq(Seq(S)) /\ t \in Seq(Seq(S)) /\ s = h \o t
  BY <1>1
<1> HIDE DEF h, t
<1>4. FlattenSeq(h \o t) = FlattenSeq(h) \o FlattenSeq(t)
  BY <1>3, FlattenConcat
<1> QED BY <1>2, <1>3, <1>4 DEF t
=============================================================================
