----------------------------- MODULE DataProofs -----------------------------
(***************************************************************************)
(* Proofs about what carries bytes and entries: one socket and its peer    *)
(* (SocketIo), and the list, the buffer and the queue (Containers).        *)
(*                                                                         *)
(* BytesIntact speaks of what the two peers have in their hands.  To keep  *)
(* it through a step one must know of the bytes on their way: those that   *)
(* OpenSSL took and has not sent, which a retried SSL_write must offer     *)
(* again (Handed, AgainOK), and those between the peer and the reader,     *)
(* which are consecutive in one line (LineOK).                             *)
(*                                                                         *)
(* A list keeps its sequence because its slots are written without gaps    *)
(* and a growth leaves it larger (Shows, GrownLarger); it frees nothing    *)
(* twice because no object is in it twice (Kept).  A buffer's length is    *)
(* always StaticLen doubled some times (LenOK), so the doubling either     *)
(* reaches the length asked for or wraps to 0, which is noticed.  The      *)
(* pointers of a queue lead through the nodes of its history, each once    *)
(* (Linked); a pass with removals is followed node by node (Midway).       *)
(***************************************************************************)
EXTENDS SocketIo, Containers, SeqLemmas, FiniteSetTheorems

-----------------------------------------------------------------------------
(* One socket and its peer. *)

\* Consecutive numbers: the shape of every piece of a stream.
LEMMA NumbersAre ==
    ASSUME NEW a \in Nat, NEW b \in Nat, a <= b + 1
    PROVE  /\ Numbers(a, b) \in Seq(Nat) /\ Len(Numbers(a, b)) = b - a + 1
           /\ \A i \in 1 .. b - a + 1 : Numbers(a, b)[i] = a + i - 1
<1>1. b - a + 1 \in Nat /\ \A i \in 1 .. b - a + 1 : a + i - 1 \in Nat
  OBVIOUS
<1> QED BY <1>1 DEF Numbers

LEMMA NumbersNone ==
    ASSUME NEW a \in Nat
    PROVE  Numbers(a + 1, a) = <<>>
<1>1. Numbers(a + 1, a) \in Seq(Nat) /\ Len(Numbers(a + 1, a)) = 0
  BY NumbersAre
<1> QED BY <1>1

\* A sequence that has the numbers is the sequence of the numbers.
LEMMA NumbersFrom ==
    ASSUME NEW s \in Seq(Nat), NEW a \in Nat, NEW b \in Nat, a <= b + 1, Len(s) = b - a + 1,
           \A i \in 1 .. Len(s) : s[i] = a + i - 1
    PROVE  s = Numbers(a, b)
<1> DEFINE t == Numbers(a, b)
<1>1. t \in Seq(Nat) /\ Len(t) = b - a + 1 /\ \A i \in 1 .. b - a + 1 : t[i] = a + i - 1
  BY NumbersAre
<1> HIDE DEF t
<1>2. s = t
  BY <1>1, SeqEqual
<1> QED BY <1>2 DEF t

LEMMA NumbersJoin ==
    ASSUME NEW a \in Nat, NEW b \in Nat, NEW d \in Nat, NEW c \in Nat, a <= b + 1, d = b + 1, b <= c
    PROVE  Cat(Numbers(a, b), Numbers(d, c)) = Numbers(a, c)
<1> DEFINE s == Numbers(a, b)
           t == Numbers(d, c)
<1>1. s \in Seq(Nat) /\ Len(s) = b - a + 1 /\ \A i \in 1 .. b - a + 1 : s[i] = a + i - 1
  BY NumbersAre
<1>2. t \in Seq(Nat) /\ Len(t) = c - b /\ \A i \in 1 .. c - b : t[i] = b + i
  <2>1. d <= c + 1 /\ c - d + 1 = c - b /\ \A i \in Int : d + i - 1 = b + i
    OBVIOUS
  <2>2. t \in Seq(Nat) /\ Len(t) = c - d + 1 /\ \A i \in 1 .. c - d + 1 : t[i] = d + i - 1
    BY <2>1, NumbersAre
  <2> QED BY <2>1, <2>2
<1> HIDE DEF s, t
<1>2a. s \in Seq(Nat) /\ t \in Seq(Nat)
  BY <1>1, <1>2
<1> DEFINE u == s \o t
<1>2b. /\ u \in Seq(Nat) /\ Len(u) = Len(s) + Len(t)
       /\ \A i \in 1 .. Len(s) + Len(t) : u[i] = IF i <= Len(s) THEN s[i] ELSE t[i - Len(s)]
  BY <1>2a
<1> HIDE DEF u
<1>3. u \in Seq(Nat) /\ Len(u) = c - a + 1
      /\ \A i \in 1 .. c - a + 1 : u[i] = IF i <= b - a + 1 THEN s[i] ELSE t[i - (b - a + 1)]
  <2>1. Len(s) + Len(t) = c - a + 1
    BY <1>1, <1>2
  <2> QED BY <1>1, <1>2b, <2>1
<1>4. \A i \in 1 .. c - a + 1 : u[i] = a + i - 1
  <2> SUFFICES ASSUME NEW i \in 1 .. c - a + 1 PROVE u[i] = a + i - 1
    OBVIOUS
  <2>1. CASE i <= b - a + 1
    BY <1>1, <1>3, <2>1
  <2>2. CASE ~(i <= b - a + 1)
    <3>1. i - (b - a + 1) \in 1 .. c - b /\ b + (i - (b - a + 1)) = a + i - 1
      BY <2>2
    <3> QED BY <1>1, <1>2, <1>3, <2>2, <3>1
  <2> QED BY <2>1, <2>2
<1>4a. a <= c + 1
  OBVIOUS
<1>5. u = Numbers(a, c)
  BY <1>3, <1>4, <1>4a, NumbersFrom
<1> QED BY <1>5 DEF Cat, s, t, u

\* Part of a buffer with the numbers from a + 1 on.
Cut(a, b, i, j) == SubSeq(Numbers(a + 1, b), i + 1, j) = Numbers(a + i + 1, a + j)

LEMMA NumbersPart ==
    ASSUME NEW a \in Nat, NEW b \in Nat, NEW i \in Nat, NEW j \in Nat, a <= b, i <= j, j <= b - a
    PROVE  Cut(a, b, i, j)
<1> DEFINE s == Numbers(a + 1, b)
           t == SubSeq(s, i + 1, j)
<1>1. s \in Seq(Nat) /\ Len(s) = b - a /\ \A k \in 1 .. b - a : s[k] = a + k
  <2>1. a + 1 \in Nat /\ a + 1 <= b + 1 /\ b - (a + 1) + 1 = b - a /\ \A k \in Int : (a + 1) + k - 1 = a + k
    OBVIOUS
  <2>2. s \in Seq(Nat) /\ Len(s) = b - (a + 1) + 1 /\ \A k \in 1 .. b - (a + 1) + 1 : s[k] = (a + 1) + k - 1
    BY <2>1, NumbersAre
  <2> QED BY <2>1, <2>2
<1> HIDE DEF s
<1>2. t \in Seq(Nat) /\ Len(t) = j - i /\ \A k \in 1 .. j - i : t[k] = s[i + k]
  BY <1>1
<1> HIDE DEF t
<1>3. \A k \in 1 .. j - i : t[k] = (a + i + 1) + k - 1
  <2> SUFFICES ASSUME NEW k \in 1 .. j - i PROVE t[k] = (a + i + 1) + k - 1
    OBVIOUS
  <2>1. i + k \in 1 .. b - a /\ a + (i + k) = (a + i + 1) + k - 1
    OBVIOUS
  <2> QED BY <1>1, <1>2, <2>1
<1>4. a + i + 1 \in Nat /\ a + j \in Nat /\ a + i + 1 <= (a + j) + 1 /\ (a + j) - (a + i + 1) + 1 = j - i
  OBVIOUS
<1>5. t = Numbers(a + i + 1, a + j)
  BY <1>2, <1>3, <1>4, NumbersFrom, ZenonT(60)
<1>6. SubSeq(Numbers(a + 1, b), i + 1, j) = Numbers(a + i + 1, a + j)
  BY <1>5 DEF t, s
<1> QED BY <1>6 DEF Cut

SslOK(s) == s \in [wnum : Nat, pend : Seq(Nat), rest : Seq(Nat)]

\* The next m bytes of src after the first b.
Piece(src, b, m) == [i \in 1 .. m |-> IF b + i <= Len(src) THEN src[b + i] ELSE 0]

LEMMA PieceIs ==
    ASSUME NEW n \in Nat, NEW top \in Nat, NEW b \in Nat, NEW m \in Nat, n + b + m <= top
    PROVE  /\ Piece(Numbers(n + 1, top), b, m) = Numbers(n + b + 1, n + b + m)
           /\ Piece(Numbers(n + 1, top), b, m) \in Seq(Nat) /\ Len(Piece(Numbers(n + 1, top), b, m)) = m
<1> DEFINE s == Numbers(n + 1, top)
           t == Piece(s, b, m)
<1>1. s \in Seq(Nat) /\ Len(s) = top - n /\ \A k \in 1 .. top - n : s[k] = n + k
  <2>1. n + 1 \in Nat /\ n + 1 <= top + 1 /\ top - (n + 1) + 1 = top - n /\ \A k \in Int : (n + 1) + k - 1 = n + k
    OBVIOUS
  <2>2. s \in Seq(Nat) /\ Len(s) = top - (n + 1) + 1 /\ \A k \in 1 .. top - (n + 1) + 1 : s[k] = (n + 1) + k - 1
    BY <2>1, NumbersAre
  <2> QED BY <2>1, <2>2
<1> HIDE DEF s
<1>2. \A i \in 1 .. m : b + i \in 1 .. top - n
  OBVIOUS
<1>3. t = [i \in 1 .. m |-> s[b + i]]
  BY <1>1, <1>2 DEF Piece
<1>4. \A i \in 1 .. m : s[b + i] = n + (b + i)
  BY <1>1, <1>2
<1> HIDE DEF t
<1>4a. t = [i \in 1 .. m |-> n + (b + i)]
  BY <1>3, <1>4
<1>4b. \A i \in 1 .. m : n + (b + i) \in Nat
  OBVIOUS
<1>5. t \in Seq(Nat) /\ Len(t) = m /\ \A i \in 1 .. m : t[i] = n + (b + i)
  BY <1>4a, <1>4b
<1>6. n + b + 1 \in Nat /\ n + b + m \in Nat /\ n + b + 1 <= (n + b + m) + 1 /\ m = (n + b + m) - (n + b + 1) + 1
      /\ \A i \in 1 .. m : n + (b + i) = (n + b + 1) + i - 1
  OBVIOUS
<1>7. t = Numbers(n + b + 1, n + b + m)
  BY <1>5, <1>6, NumbersFrom
<1> QED BY <1>5, <1>7 DEF t, s

\* Of the application's bytes the first n are confirmed; OpenSSL has handed
\* the first wnum of the bytes after them to the peer, which has got g, and
\* holds pend.
Handed(g, n, s) ==
    /\ g = Numbers(1, n + s.wnum)
    /\ s.pend = Numbers(n + s.wnum + 1, n + s.wnum + Len(s.pend))
    /\ n + s.wnum + Len(s.pend) <= made

\* A record goes out, and perhaps more after it.
LEMMA HandOut ==
    ASSUME NEW top \in Nat, NEW n \in Nat, NEW w \in Nat, NEW l \in Nat, NEW j \in Nat,
           w + l <= j, n + j <= top
    PROVE  Cat(Numbers(1, n + w), Cat(Numbers(n + w + 1, n + w + l), Piece(Numbers(n + 1, top), w + l, j - (w + l))))
             = Numbers(1, n + j)
<1> DEFINE g == Numbers(1, n + w)
           p == Numbers(n + w + 1, n + w + l)
           q == Piece(Numbers(n + 1, top), w + l, j - (w + l))
<1>3. w + l \in Nat /\ j - (w + l) \in Nat /\ n + (w + l) + (j - (w + l)) <= top
  OBVIOUS
<1>4. q = Numbers(n + (w + l) + 1, n + (w + l) + (j - (w + l)))
  BY <1>3, PieceIs
<1> HIDE DEF q
<1>5. q = Numbers((n + w + l) + 1, n + j)
  <2>1. n + (w + l) + 1 = (n + w + l) + 1 /\ n + (w + l) + (j - (w + l)) = n + j
    OBVIOUS
  <2> QED BY <1>4, <2>1
<1> DEFINE x == n + w
           x1 == x + 1
           y == n + w + l
           y1 == y + 1
           z == n + j
<1>6. /\ x \in Nat /\ y \in Nat /\ z \in Nat /\ x <= y /\ y <= z /\ x <= z
      /\ x1 \in Nat /\ y1 \in Nat /\ x1 = x + 1 /\ y1 = y + 1 /\ 1 <= x + 1 /\ x1 <= y + 1
  OBVIOUS
<1>7. g = Numbers(1, x) /\ p = Numbers(x1, y) /\ q = Numbers(y1, z)
  BY <1>5
<1> HIDE DEF g, p, x, x1, y, y1, z
<1>8. Cat(p, q) = Numbers(x1, z)
  BY <1>6, <1>7, NumbersJoin
<1>9. Cat(g, Cat(p, q)) = Numbers(1, z)
  BY <1>6, <1>7, <1>8, NumbersJoin
<1> QED BY <1>9 DEF g, p, q, z

LEMMA MakeHanded ==
    ASSUME made \in Nat, NEW n \in Nat, NEW w \in Nat, NEW m \in Nat, n + w + m <= made,
           NEW x, x.wnum = w, x.pend = Numbers(n + w + 1, n + w + m)
    PROVE  Handed(Numbers(1, n + w), n, x) /\ Len(x.pend) = m
<1> DEFINE t == Numbers(n + w + 1, n + w + m)
<1>1. n + w + 1 \in Nat /\ n + w + m \in Nat /\ n + w + 1 <= (n + w + m) + 1 /\ (n + w + m) - (n + w + 1) + 1 = m
  OBVIOUS
<1>2. Len(t) = m
  BY <1>1, NumbersAre, SMTT(60)
<1> HIDE DEF t
<1>3. Len(x.pend) = m
  BY <1>2 DEF t
<1> QED BY <1>3 DEF Handed

\* The ways SSL_write may end.
SslDone(s, src, k, r) ==
    r = [err |-> "ok", num |-> k, out |-> s.pend \o Piece(src, s.wnum + Len(s.pend), k - (s.wnum + Len(s.pend))),
         ssl |-> [s EXCEPT !.wnum = 0, !.pend = <<>>]]
SslBlocked(s, src, k, j, r) ==
    r = [err |-> "WANT_WRITE", num |-> 0,
         out |-> IF j <= s.wnum THEN <<>>
                 ELSE s.pend \o Piece(src, s.wnum + Len(s.pend), j - (s.wnum + Len(s.pend))),
         ssl |-> [s EXCEPT !.wnum = j,
                           !.pend = IF j = s.wnum /\ s.pend # <<>> THEN s.pend
                                    ELSE Piece(src, j, Min({RecSize, k - j}))]]
SslStops(s, k, j) ==
    \/ j = s.wnum
    \/ j \in (s.wnum + Len(s.pend)) .. k - 1 /\ j > s.wnum

LEMMA SslOutcomes ==
    ASSUME NEW s, NEW src, NEW k, ~(k < s.wnum + Len(s.pend)), NEW r \in SslWrite(s, src, k)
    PROVE  \/ SslDone(s, src, k, r)
           \/ \E j : SslStops(s, k, j) /\ SslBlocked(s, src, k, j, r)
           \/ \E e \in {"WANT_READ", "ZERO_RETURN", "SYSCALL"} : r = [err |-> e, num |-> 0, out |-> <<>>, ssl |-> s]
<1> DEFINE begun   == s.wnum + Len(s.pend)
           upto(j) == Piece(src, begun, j - begun)
           flushed(j) == IF j <= s.wnum THEN <<>> ELSE s.pend \o upto(j)
           stops   == {s.wnum} \cup {j \in begun .. k - 1 : (j - begun) % RecSize = 0 /\ j > s.wnum}
           rec(j)  == IF j = s.wnum /\ s.pend # <<>> THEN s.pend ELSE Piece(src, j, Min({RecSize, k - j}))
<1>1. r \in {[err |-> "ok", num |-> k, out |-> s.pend \o upto(k),
               ssl |-> [s EXCEPT !.wnum = 0, !.pend = <<>>]]}
             \cup {[err |-> "WANT_WRITE", num |-> 0, out |-> flushed(j),
                    ssl |-> [s EXCEPT !.wnum = j, !.pend = rec(j)]] : j \in stops}
             \cup {[err |-> "WANT_READ", num |-> 0, out |-> <<>>, ssl |-> s]}
             \cup {[err |-> e, num |-> 0, out |-> <<>>, ssl |-> s] : e \in {"ZERO_RETURN", "SYSCALL"}}
  BY DEF SslWrite, Piece
<1>2. CASE r = [err |-> "ok", num |-> k, out |-> s.pend \o upto(k), ssl |-> [s EXCEPT !.wnum = 0, !.pend = <<>>]]
  BY <1>2 DEF SslDone
<1>3. CASE \E j \in stops : r = [err |-> "WANT_WRITE", num |-> 0, out |-> flushed(j),
                                 ssl |-> [s EXCEPT !.wnum = j, !.pend = rec(j)]]
  <2>1. PICK j \in stops : r = [err |-> "WANT_WRITE", num |-> 0, out |-> flushed(j),
                                 ssl |-> [s EXCEPT !.wnum = j, !.pend = rec(j)]]
    BY <1>3
  <2>2. SslBlocked(s, src, k, j, r)
    BY <2>1, Zenon DEF SslBlocked
  <2>3. SslStops(s, k, j)
    BY DEF SslStops
  <2> QED BY <2>2, <2>3
<1>4. CASE \E e \in {"WANT_READ", "ZERO_RETURN", "SYSCALL"} : r = [err |-> e, num |-> 0, out |-> <<>>, ssl |-> s]
  BY <1>4
<1> HIDE DEF stops, flushed, rec, upto, begun
<1> QED BY <1>1, <1>2, <1>3, <1>4, Zenon

\* The bytes after the first n.
Ahead(n) == Numbers(n + 1, made)

\* What SSL_write leaves behind, however it ends, when it has the bytes of the
\* calls before it.
SslAfter(r, g, n, s, k) ==
    /\ SslOK(r.ssl) /\ r.ssl.rest = s.rest /\ r.out \in Seq(Nat)
    /\ r.num \in Nat /\ n + r.num <= made /\ (r.err # "ok" => r.num = 0)
    /\ Handed(Cat(g, r.out), n + r.num, r.ssl)
    /\ TlsAgain(r.err) => r.num = 0 /\ r.ssl.wnum + Len(r.ssl.pend) <= k

LEMMA SslStep ==
    ASSUME made \in Nat, NEW g, g \in Seq(Nat), NEW n \in Nat, NEW s, SslOK(s), Handed(g, n, s),
           NEW k \in Nat, s.wnum + Len(s.pend) <= k, n + k <= made, NEW r \in SslWrite(s, Ahead(n), k)
    PROVE  SslAfter(r, g, n, s, k)
<1>0. PICK src : src = Ahead(n)
  OBVIOUS
<1>0a. src = Numbers(n + 1, made) /\ r \in SslWrite(s, src, k)
  BY <1>0 DEF Ahead
<1> USE DEF SslAfter
<1>1. PICK w : w = s.wnum
  OBVIOUS
<1>2. PICK p : p = s.pend
  OBVIOUS
<1>3. PICK l : l = Len(s.pend)
  OBVIOUS
<1>4. w \in Nat /\ p \in Seq(Nat) /\ l \in Nat /\ l = Len(p) /\ s.rest \in Seq(Nat)
      /\ s = [wnum |-> w, pend |-> p, rest |-> s.rest]
  BY <1>1, <1>2, <1>3 DEF SslOK
<1>5. w + l <= k /\ n + w + l <= made
  <2>1. w + l <= k
    BY <1>1, <1>3
  <2>2. n + w + l <= made
    BY <1>1, <1>3 DEF Handed
  <2> QED BY <2>1, <2>2
<1>6. g = Numbers(1, n + w) /\ p = Numbers(n + w + 1, n + w + l)
  BY <1>1, <1>2, <1>3 DEF Handed
<1>7. ~(k < s.wnum + Len(s.pend))
  BY <1>1, <1>3, <1>4, <1>5
<1>8. \/ SslDone(s, src, k, r)
      \/ \E j : SslStops(s, k, j) /\ SslBlocked(s, src, k, j, r)
      \/ \E e \in {"WANT_READ", "ZERO_RETURN", "SYSCALL"} : r = [err |-> e, num |-> 0, out |-> <<>>, ssl |-> s]
  BY <1>0a, <1>7, SslOutcomes
<1>9. ASSUME NEW j \in Nat, w + l <= j, j <= k
      PROVE  Cat(g, Cat(p, Piece(src, w + l, j - (w + l)))) = Numbers(1, n + j)
  <2>1. n + j <= made
    BY <1>9
  <2> QED BY <1>4, <1>6, <1>9, <2>1, HandOut, <1>0a, SMTT(60)
<1>4n. w \in Nat /\ l \in Nat
  BY <1>4
<1>9a. ASSUME NEW j \in Nat, w + l <= j, j <= k
       PROVE  Cat(p, Piece(src, w + l, j - (w + l))) \in Seq(Nat)
  <2>1. n + (w + l) + (j - (w + l)) <= made /\ w + l \in Nat /\ j - (w + l) \in Nat
    BY <1>4n, <1>9a
  <2> DEFINE q == Piece(src, w + l, j - (w + l))
  <2>2. q \in Seq(Nat)
    BY <2>1, <1>0a, PieceIs
  <2> HIDE DEF q
  <2>3. Cat(p, q) \in Seq(Nat)
    BY <1>4, <2>2 DEF Cat
  <2> QED BY <2>3 DEF q
<1>10. CASE SslDone(s, src, k, r)
  <2> DEFINE x == [s EXCEPT !.wnum = 0, !.pend = <<>>]
  <2>1. r.err = "ok" /\ r.num = k /\ r.out = Cat(p, Piece(src, w + l, k - (w + l))) /\ r.ssl = x
    BY <1>1, <1>2, <1>3, <1>10 DEF SslDone, Cat
  <2>2. SslOK(x) /\ x.wnum = 0 /\ x.pend = <<>> /\ x.rest = s.rest
    <3>1. <<>> \in Seq(Nat)
      OBVIOUS
    <3>2. PICK u : u = <<>>
      OBVIOUS
    <3>3. x = [s EXCEPT !.wnum = 0, !.pend = u] /\ u \in Seq(Nat)
      BY <3>1, <3>2
    <3> HIDE DEF x
    <3>4. SslOK(x) /\ x.wnum = 0 /\ x.pend = u /\ x.rest = s.rest
      BY <1>4, <3>3 DEF SslOK
    <3> QED BY <3>2, <3>4
  <2> HIDE DEF x
  <2>3. Cat(g, r.out) = Numbers(1, n + k)
    BY <1>5, <1>9, <2>1
  <2>4. n + k \in Nat /\ (n + k) + 0 + 0 <= made /\ (n + k) + 0 = n + k /\ (n + k) + 0 + 0 = n + k
    OBVIOUS
  <2>5. x.pend = Numbers((n + k) + 0 + 1, (n + k) + 0 + 0)
    <3>1. Numbers((n + k) + 1, n + k) = <<>>
      BY <2>4, NumbersNone
    <3> QED BY <2>2, <2>4, <3>1
  <2>6. Handed(Numbers(1, (n + k) + 0), n + k, x)
    BY <2>2, <2>4, <2>5, MakeHanded
  <2>7. r.out \in Seq(Nat)
    BY <1>5, <1>9a, <2>1
  <2> QED BY <2>1, <2>2, <2>3, <2>4, <2>6, <2>7 DEF TlsAgain
<1>11. CASE \E j : SslStops(s, k, j) /\ SslBlocked(s, src, k, j, r)
  <2>1. PICK j : SslStops(s, k, j) /\ SslBlocked(s, src, k, j, r)
    BY <1>11
  <2>2. j = w \/ (j \in w + l .. k - 1 /\ j > w)
    BY <1>1, <1>3, <2>1 DEF SslStops
  <2>3. j \in Nat /\ w <= j /\ j <= k /\ (j # w => w + l <= j /\ j > w)
    BY <1>4, <1>5, <2>2, SMTT(60)
  <2> DEFINE m == Min({RecSize, k - j})
             y == IF j = w /\ p # <<>> THEN p ELSE Piece(src, j, m)
             x == [s EXCEPT !.wnum = j, !.pend = y]
             o == IF j <= w THEN <<>> ELSE Cat(p, Piece(src, w + l, j - (w + l)))
  <2>4. r.err = "WANT_WRITE" /\ r.num = 0 /\ r.out = o /\ r.ssl = x
    BY <1>1, <1>2, <1>3, <2>1 DEF SslBlocked, Cat
  <2>5. m \in Nat /\ m <= k - j
    <3>1. RecSize \in Nat /\ k - j \in Nat
      BY <2>3, SocketIoAssumption
    <3>2. PICK d : d = k - j
      OBVIOUS
    <3>3. Min({RecSize, d}) = IF RecSize <= d THEN RecSize ELSE d
      BY <3>1, <3>2, MinOfTwo
    <3> QED BY <3>1, <3>2, <3>3
  <2> HIDE DEF m
  <2>6. Cat(g, o) = Numbers(1, n + j)
    <3>1. CASE j = w
      <4>1. o = <<>>
        BY <2>3, <3>1
      <4>2. Cat(g, <<>>) = g
        BY DEF Cat
      <4> QED BY <1>6, <3>1, <4>1, <4>2
    <3>2. CASE j # w
      <4>1. o = Cat(p, Piece(src, w + l, j - (w + l)))
        BY <1>4, <2>3, <3>2
      <4> QED BY <1>9, <2>3, <3>2, <4>1
    <3> QED BY <3>1, <3>2
  <2>6a. o \in Seq(Nat)
    BY <1>9a, <2>3
  <2>7. y \in Seq(Nat) /\ y = Numbers(n + j + 1, n + j + Len(y)) /\ n + j + Len(y) <= made /\ j + Len(y) <= k
    <3>1. CASE j = w /\ p # <<>>
      BY <1>4, <1>5, <1>6, <3>1
    <3>2. CASE ~(j = w /\ p # <<>>)
      <4>1. n + j + m <= made /\ j + m <= k
        BY <2>3, <2>5
      <4>2. Piece(src, j, m) = Numbers(n + j + 1, n + j + m) /\ Piece(src, j, m) \in Seq(Nat) /\ Len(Piece(src, j, m)) = m
        BY <2>3, <2>5, <4>1, <1>0a, PieceIs
      <4> QED BY <3>2, <4>1, <4>2
    <3> QED BY <3>1, <3>2
  <2> HIDE DEF y, o
  <2>8. SslOK(x) /\ x.wnum = j /\ x.pend = y /\ x.rest = s.rest
    BY <1>4, <2>3, <2>7 DEF SslOK
  <2> HIDE DEF x
  <2>9. Len(y) \in Nat
    BY <2>7
  <2>10. Handed(Numbers(1, n + j), n, x)
    BY <2>3, <2>7, <2>8, <2>9, MakeHanded
  <2>11. n + 0 = n
    OBVIOUS
  <2> QED BY <2>4, <2>6, <2>6a, <2>7, <2>8, <2>10, <2>11
<1>12. CASE \E e \in {"WANT_READ", "ZERO_RETURN", "SYSCALL"} : r = [err |-> e, num |-> 0, out |-> <<>>, ssl |-> s]
  <2>1. r.err # "ok" /\ r.num = 0 /\ r.out = <<>> /\ r.ssl = s
    BY <1>12
  <2>2. Cat(g, <<>>) = g
    BY DEF Cat
  <2>3. n + 0 = n /\ n <= made
    BY <1>4, <1>5
  <2>4. s.wnum + Len(s.pend) <= k
    OBVIOUS
  <2> QED BY <2>1, <2>2, <2>3, <2>4
<1> QED BY <1>8, <1>10, <1>11, <1>12

\* The loop of vtm_socket_tls_write between two calls of SSL_write.
TurnOK(t) ==
    /\ t.written \in Nat /\ sent + t.written <= made /\ t.out \in Seq(Nat) /\ t.want \in Nat
    /\ SslOK(t.ssl) /\ t.ssl.rest = ssl.rest
    /\ Handed(Cat(peerGot, t.out), sent + t.written, t.ssl)
    /\ sk.buffers /\ t.want > 0 =>
         /\ t.ssl.wnum + Len(t.ssl.pend) <= t.want
         /\ sent + t.written + t.want <= made

LEMMA TurnStep ==
    ASSUME made \in Nat, sent \in Nat, peerGot \in Seq(Nat), sk.buffers \in BOOLEAN,
           NEW u, TurnOK(u), NEW t \in WriteTurn(u)
    PROVE  TurnOK(t)
<1> DEFINE len == made - sent
           n == sent + u.written
           k == IF sk.buffers /\ u.want > 0 THEN u.want ELSE len - u.written
<1>0. /\ u.written \in Nat /\ n <= made /\ u.out \in Seq(Nat) /\ u.want \in Nat
      /\ SslOK(u.ssl) /\ u.ssl.rest = ssl.rest
      /\ Handed(Cat(peerGot, u.out), n, u.ssl)
      /\ sk.buffers /\ u.want > 0 => u.ssl.wnum + Len(u.ssl.pend) <= u.want /\ n + u.want <= made
  BY DEF TurnOK
<1>1. CASE u.err # "ok" \/ u.written >= len
  <2>1. t = u
    BY <1>1 DEF WriteTurn
  <2> QED BY <2>1
<1>2. CASE ~(u.err # "ok" \/ u.written >= len)
  <2> DEFINE src == Numbers(n + 1, made)
             a == u.written
  <2>1. SubSeq(Numbers(sent + 1, made), a + 1, len) = src
    <3>1. a \in Nat /\ len \in Nat /\ a <= len /\ sent <= made /\ sent + len = made
      BY <1>0
    <3>2. SubSeq(Numbers(sent + 1, made), a + 1, len) = Numbers(sent + a + 1, sent + len)
      <4> HIDE DEF a, len
      <4>1. len <= made - sent
        BY DEF len
      <4>2. Cut(sent, made, a, len)
        BY <3>1, <4>1, NumbersPart
      <4> QED BY <4>2 DEF Cut
    <3> QED BY <3>1, <3>2
  <2>2. PICK r \in SslWrite(u.ssl, src, k) :
             t = [written |-> a + r.num, out |-> u.out \o r.out, ssl |-> r.ssl, err |-> r.err,
                  want |-> IF sk.buffers /\ TlsAgain(r.err) THEN k
                           ELSE IF sk.buffers THEN 0 ELSE u.want]
    BY <1>2, <2>1 DEF WriteTurn
  <2>3. n \in Nat /\ u.ssl.wnum \in Nat /\ Len(u.ssl.pend) \in Nat /\ n + u.ssl.wnum + Len(u.ssl.pend) <= made
    <3>1. n \in Nat
      BY <1>0
    <3>2. u.ssl.wnum \in Nat /\ u.ssl.pend \in Seq(Nat)
      BY <1>0 DEF SslOK
    <3>3. Len(u.ssl.pend) \in Nat
      BY <3>2
    <3>4. n + u.ssl.wnum + Len(u.ssl.pend) <= made
      <4> HIDE DEF n
      <4> QED BY <1>0 DEF Handed
    <3> QED BY <3>1, <3>2, <3>3, <3>4
  <2>4. k \in Nat /\ u.ssl.wnum + Len(u.ssl.pend) <= k /\ n + k <= made
    <3>1. CASE sk.buffers /\ u.want > 0
      BY <1>0, <3>1
    <3>2. CASE ~(sk.buffers /\ u.want > 0)
      <4>1. k = len - a
        BY <3>2
      <4>2. len - a = made - n
        BY <1>0
      <4>3. k = made - n
        BY <4>1, <4>2
      <4> HIDE DEF k, n, a
      <4>4. made - n \in Nat
        BY <1>0, <2>3
      <4> QED BY <2>3, <4>3, <4>4, SMTT(60)
    <3> QED BY <3>1, <3>2
  <2> DEFINE g == Cat(peerGot, u.out)
  <2>5. g \in Seq(Nat)
    BY <1>0 DEF Cat
  <2> HIDE DEF g, k, n, src
  <2>5a. PICK v : v = u.ssl
    OBVIOUS
  <2>5b. SslOK(v) /\ Handed(g, n, v) /\ v.wnum + Len(v.pend) <= k /\ r \in SslWrite(v, Ahead(n), k)
    BY <1>0, <2>2, <2>4, <2>5a DEF g, src, Ahead
  <2>5c. SslAfter(r, g, n, v, k)
    BY <2>3, <2>4, <2>5, <2>5b, SslStep
  <2>6. /\ SslOK(r.ssl) /\ r.ssl.rest = u.ssl.rest /\ r.out \in Seq(Nat)
        /\ r.num \in Nat /\ n + r.num <= made
        /\ Handed(Cat(g, r.out), n + r.num, r.ssl)
        /\ TlsAgain(r.err) => r.num = 0 /\ r.ssl.wnum + Len(r.ssl.pend) <= k
    BY <2>5a, <2>5c DEF SslAfter
  <2>7. t.written = a + r.num /\ t.out = u.out \o r.out /\ t.ssl = r.ssl /\ t.err = r.err
        /\ t.want = IF sk.buffers /\ TlsAgain(r.err) THEN k ELSE IF sk.buffers THEN 0 ELSE u.want
    BY <2>2
  <2>8. a + r.num \in Nat /\ sent + (a + r.num) = n + r.num
    BY <1>0, <2>6, SMTT(60) DEF n
  <2>9. Cat(peerGot, u.out \o r.out) = Cat(g, r.out) /\ u.out \o r.out \in Seq(Nat)
    <3>1. PICK x : x = u.out
      OBVIOUS
    <3>2. PICK y : y = r.out
      OBVIOUS
    <3>3. x \in Seq(Nat) /\ y \in Seq(Nat)
      BY <1>0, <2>6, <3>1, <3>2
    <3>4. peerGot \o (x \o y) = (peerGot \o x) \o y /\ x \o y \in Seq(Nat)
      BY <3>3, SMTT(60)
    <3> QED BY <3>1, <3>2, <3>4 DEF Cat, g
  <2>10. t.want \in Nat
    BY <1>0, <2>4, <2>7
  <2>11. ASSUME sk.buffers, t.want > 0
         PROVE  t.ssl.wnum + Len(t.ssl.pend) <= t.want /\ sent + t.written + t.want <= made
    <3>1. TlsAgain(r.err) /\ t.want = k
      BY <2>7, <2>11
    <3>2. sent + (a + r.num) = n
      BY <2>3, <2>6, <2>8, <3>1
    <3> QED BY <2>4, <2>6, <2>7, <3>1, <3>2
  <2>12. Handed(Cat(peerGot, t.out), sent + t.written, t.ssl)
    BY <2>6, <2>7, <2>8, <2>9
  <2>13. t.written \in Nat /\ sent + t.written <= made /\ t.out \in Seq(Nat)
         /\ SslOK(t.ssl) /\ t.ssl.rest = ssl.rest
    BY <1>0, <2>6, <2>7, <2>8, <2>9
  <2> QED BY <2>10, <2>11, <2>12, <2>13 DEF TurnOK
<1> QED BY <1>1, <1>2

-----------------------------------------------------------------------------
(* The bytes that come from the peer. *)

\* A sequence is its first k elements and the others.
LEMMA SplitAt ==
    ASSUME NEW s \in Seq(Nat), NEW k \in Nat, k <= Len(s)
    PROVE  /\ SubSeq(s, 1, k) \in Seq(Nat) /\ SubSeq(s, k + 1, Len(s)) \in Seq(Nat)
           /\ s = Cat(SubSeq(s, 1, k), SubSeq(s, k + 1, Len(s)))
<1> DEFINE a == SubSeq(s, 1, k)
           b == SubSeq(s, k + 1, Len(s))
<1>1. a \in Seq(Nat) /\ Len(a) = k /\ \A i \in 1 .. k : a[i] = s[i]
  OBVIOUS
<1>2. b \in Seq(Nat) /\ Len(b) = Len(s) - k /\ \A i \in 1 .. Len(s) - k : b[i] = s[k + i]
  OBVIOUS
<1> HIDE DEF a, b
<1>2a. a \in Seq(Nat) /\ b \in Seq(Nat)
  BY <1>1, <1>2
<1> DEFINE c == a \o b
<1>3. c \in Seq(Nat) /\ Len(c) = Len(a) + Len(b)
      /\ \A i \in 1 .. Len(a) + Len(b) : c[i] = IF i <= Len(a) THEN a[i] ELSE b[i - Len(a)]
  BY <1>2a
<1> HIDE DEF c
<1>4. Len(c) = Len(s) /\ \A i \in 1 .. Len(s) : c[i] = IF i <= k THEN a[i] ELSE b[i - k]
  <2>1. PICK l : l = Len(s)
    OBVIOUS
  <2>2. l \in Nat /\ Len(a) = k /\ Len(b) = l - k
    BY <1>1, <1>2, <2>1
  <2>3. Len(a) + Len(b) = l
    BY <2>2
  <2> QED BY <1>3, <2>1, <2>2, <2>3
<1>5. \A i \in 1 .. Len(s) : c[i] = s[i]
  <2> SUFFICES ASSUME NEW i \in 1 .. Len(s) PROVE c[i] = s[i]
    OBVIOUS
  <2>1. CASE i <= k
    BY <1>1, <1>4, <2>1
  <2>2. CASE ~(i <= k)
    <3>1. i - k \in 1 .. Len(s) - k /\ k + (i - k) = i
      BY <2>2
    <3> QED BY <1>2, <1>4, <2>2, <3>1
  <2> QED BY <2>1, <2>2
<1>6. s = c
  BY <1>3, <1>4, <1>5, SeqEqual
<1> QED BY <1>1, <1>2, <1>6 DEF a, b, c, Cat

\* What was read, the socket's buffer, the rest of a record, the records.
Line(a, b, c, d) == Cat(Cat(Cat(a, b), c), d)
Numbered(x) == x = Numbers(1, Len(x))

LEMMA CatNat ==
    ASSUME NEW a \in Seq(Nat), NEW b \in Seq(Nat)
    PROVE  Cat(a, b) \in Seq(Nat) /\ Len(Cat(a, b)) = Len(a) + Len(b)
BY DEF Cat

LEMMA CatNone ==
    ASSUME NEW a \in Seq(Nat)
    PROVE  Cat(a, <<>>) = a /\ Cat(<<>>, a) = a
BY DEF Cat

LEMMA CatJoin ==
    ASSUME NEW a \in Seq(Nat), NEW b \in Seq(Nat), NEW c \in Seq(Nat)
    PROVE  Cat(Cat(a, b), c) = Cat(a, Cat(b, c))
BY CatSame

LEMMA LineLen ==
    ASSUME NEW a \in Seq(Nat), NEW b \in Seq(Nat), NEW c \in Seq(Nat), NEW d \in Seq(Nat)
    PROVE  Line(a, b, c, d) \in Seq(Nat) /\ Len(Line(a, b, c, d)) = Len(a) + Len(b) + Len(c) + Len(d)
<1>1. Cat(a, b) \in Seq(Nat) /\ Len(Cat(a, b)) = Len(a) + Len(b)
  BY CatNat
<1>2. Cat(Cat(a, b), c) \in Seq(Nat) /\ Len(Cat(Cat(a, b), c)) = Len(Cat(a, b)) + Len(c)
  BY <1>1, CatNat
<1>3. Cat(Cat(Cat(a, b), c), d) \in Seq(Nat) /\ Len(Cat(Cat(Cat(a, b), c), d)) = Len(Cat(Cat(a, b), c)) + Len(d)
  BY <1>2, CatNat
<1> QED BY <1>1, <1>2, <1>3 DEF Line

\* The first bytes of what comes next are read: out of the records, out of
\* the rest of a record, or out of the socket's buffer.
LEMMA LineMoves ==
    ASSUME NEW a \in Seq(Nat), NEW p \in Seq(Nat), NEW q \in Seq(Nat), NEW c \in Seq(Nat), NEW d \in Seq(Nat)
    PROVE  /\ Line(a, Cat(p, q), c, d) = Line(Cat(a, p), q, c, d)
           /\ Line(a, <<>>, Cat(p, q), d) = Line(Cat(a, p), <<>>, q, d)
           /\ Line(a, <<>>, Cat(p, q), d) = Line(Cat(a, p), q, <<>>, d)
           /\ Line(a, <<>>, <<>>, Cat(p, q)) = Line(Cat(a, p), <<>>, <<>>, q)
           /\ Line(a, <<>>, <<>>, Cat(p, d)) = Line(a, <<>>, p, d)
<1>1. Cat(a, Cat(p, q)) = Cat(Cat(a, p), q)
  BY CatJoin
<1>2. Cat(a, <<>>) = a /\ Cat(Cat(a, p), <<>>) = Cat(a, p) /\ Cat(Cat(Cat(a, p), q), <<>>) = Cat(Cat(a, p), q)
  <2>1. Cat(a, p) \in Seq(Nat)
    BY CatNat
  <2>2. Cat(Cat(a, p), q) \in Seq(Nat)
    BY <2>1, CatNat
  <2> QED BY <2>1, <2>2, CatNone
<1>3. Cat(a, Cat(p, d)) = Cat(Cat(a, p), d)
  BY CatJoin
<1> QED BY <1>1, <1>2, <1>3 DEF Line

\* The records as one stretch of bytes.
Waiting(s) == FlattenSeq(s)

LEMMA WaitingIs ==
    ASSUME NEW s \in Seq(Seq(Nat))
    PROVE  /\ Waiting(s) \in Seq(Nat)
           /\ s # <<>> => /\ Head(s) \in Seq(Nat) /\ Tail(s) \in Seq(Seq(Nat))
                          /\ Waiting(s) = Cat(Head(s), Waiting(Tail(s)))
<1>1. Waiting(s) \in Seq(Nat)
  BY FlattenType DEF Waiting
<1>2. ASSUME s # <<>> PROVE Head(s) \in Seq(Nat) /\ Tail(s) \in Seq(Seq(Nat))
  BY <1>2
<1>3. ASSUME s # <<>> PROVE Waiting(s) = Cat(Head(s), Waiting(Tail(s)))
  BY <1>3, FlattenCons DEF Waiting, Cat
<1> QED BY <1>1, <1>2, <1>3

LEMMA WaitingMore ==
    ASSUME NEW s \in Seq(Seq(Nat)), NEW x \in Seq(Nat)
    PROVE  Append(s, x) \in Seq(Seq(Nat)) /\ Waiting(Append(s, x)) = Cat(Waiting(s), x)
<1>1. Append(s, x) \in Seq(Seq(Nat))
  OBVIOUS
<1> QED BY <1>1, FlattenAppend DEF Waiting, Cat

LEMMA WaitingFew ==
    ASSUME NEW x \in Seq(Nat)
    PROVE  /\ <<>> \in Seq(Seq(Nat)) /\ Waiting(<<>>) = <<>>
           /\ <<x>> \in Seq(Seq(Nat)) /\ Waiting(<<x>>) = x
<1>1. <<>> \in Seq(Seq(Nat)) /\ <<x>> \in Seq(Seq(Nat))
  OBVIOUS
<1> QED BY <1>1, FlattenEmpty, FlattenOne DEF Waiting

-----------------------------------------------------------------------------
(* The invariant. *)

SkOK(s) ==
    /\ s \in [tls : BOOLEAN, flags : {s.flags}, buffers : BOOLEAN, recvBuf : Seq(Nat), sendWant : Nat,
              fd : {"none", "open", "closed"}]
    /\ s.buffers => s.tls
    /\ ~s.buffers => s.recvBuf = <<>>
    /\ s.fd = "none" => ~s.tls

\* A plain socket has no use for OpenSSL.
PlainOK(s, x) == ~s.tls => x.wnum = 0 /\ x.pend = <<>> /\ x.rest = <<>>

\* A call that is to be repeated covers what OpenSSL has begun, and the caller
\* has the bytes for it.
AgainOK(s, x, n, top) ==
    s.buffers /\ s.sendWant > 0 => x.wnum + Len(x.pend) <= s.sendWant /\ n + s.sendWant <= top

NotedOK(h) == h \in [lost : Nat, leaked : BOOLEAN, peerGone : BOOLEAN]
LineOK == noted.lost = 0 => Numbered(Line(got, sk.recvBuf, ssl.rest, Waiting(arriving)))

\* The parts the steps of one direction leave alone.
Counts == made \in Nat /\ sent \in Nat /\ peerGot \in Seq(Nat)
Reads == got \in Seq(Nat) /\ arriving \in Seq(Seq(Nat)) /\ NotedOK(noted)
WriteInv == Counts /\ Handed(peerGot, sent, ssl) /\ AgainOK(sk, ssl, sent, made)
ReadInv == Reads /\ LineOK
IoInv == SkOK(sk) /\ SslOK(ssl) /\ PlainOK(sk, ssl) /\ WriteInv /\ ReadInv

LEMMA IoInitInv == SocketIoInit => IoInv
<1> SUFFICES ASSUME SocketIoInit PROVE IoInv
  OBVIOUS
<1>0. <<>> \in Seq(Nat) /\ <<>> \in Seq(Seq(Nat))
  OBVIOUS
<1>1. PICK e : e = <<>>
  OBVIOUS
<1>2. e \in Seq(Nat)
  BY <1>0, <1>1
<1>3. sk = [tls |-> FALSE, flags |-> {}, buffers |-> FALSE, recvBuf |-> e, sendWant |-> 0, fd |-> "none"]
  BY <1>1 DEF SocketIoInit, NewSocket
<1>4. SkOK(sk)
  BY <1>1, <1>2, <1>3 DEF SkOK
<1>5. ssl = [wnum |-> 0, pend |-> e, rest |-> e]
  BY <1>1 DEF SocketIoInit
<1>6. SslOK(ssl) /\ PlainOK(sk, ssl) /\ ssl.wnum = 0 /\ ssl.pend = <<>> /\ ssl.rest = <<>>
  BY <1>1, <1>2, <1>5 DEF SslOK, PlainOK
<1>7. Counts /\ Reads
  BY <1>0 DEF SocketIoInit, Counts, Reads, NotedOK
<1>8. Numbers(1, 0) = <<>>
  <2>1. Numbers(0 + 1, 0) = <<>>
    BY NumbersNone
  <2> QED BY <2>1
<1>9. Handed(peerGot, sent, ssl)
  <2>1. 0 \in Nat /\ 0 + 0 + 0 <= made /\ ssl.pend = Numbers(0 + 0 + 1, 0 + 0 + 0) /\ peerGot = Numbers(1, 0 + 0)
        /\ sent = 0 /\ made \in Nat
    BY <1>6, <1>8 DEF SocketIoInit
  <2>2. Handed(Numbers(1, 0 + 0), 0, ssl)
    BY <1>6, <2>1, MakeHanded
  <2> QED BY <2>1, <2>2
<1>10. AgainOK(sk, ssl, sent, made)
  BY <1>3 DEF AgainOK
<1>11. LineOK
  <2>1. got = <<>> /\ sk.recvBuf = <<>> /\ ssl.rest = <<>> /\ Waiting(arriving) = <<>>
    <3>1. got = <<>> /\ arriving = <<>>
      BY DEF SocketIoInit
    <3>2. sk.recvBuf = <<>>
      BY <1>1, <1>3
    <3>3. Waiting(<<>>) = <<>>
      BY <1>0, WaitingFew
    <3> QED BY <1>6, <3>1, <3>2, <3>3
  <2>2. Line(<<>>, <<>>, <<>>, <<>>) = <<>>
    BY <1>0, CatNone DEF Line
  <2>3. Len(<<>>) = 0
    OBVIOUS
  <2> QED BY <1>8, <2>1, <2>2, <2>3 DEF LineOK, Numbered
<1> QED BY <1>4, <1>6, <1>7, <1>9, <1>10, <1>11 DEF IoInv, WriteInv, ReadInv

\* The fields of the socket the bytes depend on.
SameBytes(s, x) ==
    x.tls = s.tls /\ x.buffers = s.buffers /\ x.recvBuf = s.recvBuf /\ x.sendWant = s.sendWant

\* New flags alone.
LEMMA FlagsOnly ==
    ASSUME NEW s, SkOK(s), NEW f
    PROVE  SkOK([s EXCEPT !.flags = f]) /\ SameBytes(s, [s EXCEPT !.flags = f])
           /\ [s EXCEPT !.flags = f].fd = s.fd
BY DEF SkOK, SameBytes

LEMMA CallFlags ==
    ASSUME NEW op, NEW new, SkOK(sk)
    PROVE  SkOK(AfterCall(op, new)) /\ SameBytes(sk, AfterCall(op, new))
<1>1. \E f : AfterCall(op, new) = [sk EXCEPT !.flags = f]
  BY DEF AfterCall
<1> QED BY <1>1, FlagsOnly

LEMMA SocketKept ==
    ASSUME IoInv, SkOK(sk'), SameBytes(sk, sk'), UNCHANGED <<ssl, made, sent, peerGot, arriving, got>>,
           NotedOK(noted'), noted'.lost = noted.lost
    PROVE  IoInv'
<1>1. SslOK(ssl') /\ PlainOK(sk', ssl')
  BY DEF IoInv, PlainOK, SameBytes, SslOK
<1>2. WriteInv'
  BY DEF IoInv, WriteInv, Counts, Handed, AgainOK, SameBytes
<1>3. ReadInv'
  BY DEF IoInv, ReadInv, Reads, LineOK, SameBytes
<1> QED BY <1>1, <1>2, <1>3 DEF IoInv

-----------------------------------------------------------------------------
(* The steps that move no bytes. *)

\* A socket that was none before.
LEMMA NewKept ==
    ASSUME IoInv, NEW tls \in BOOLEAN, NEW f, sk.fd = "none",
           sk' = NewSocket(tls) \/ sk' = [NewSocket(tls) EXCEPT !.flags = f],
           UNCHANGED <<ssl, made, sent, peerGot, arriving, got, noted>>
    PROVE  IoInv'
<1>1. PICK u : u = <<>>
  OBVIOUS
<1>2. u \in Seq(Nat)
  BY <1>1
<1>3. PICK h : sk' = [tls |-> tls, flags |-> h, buffers |-> FALSE, recvBuf |-> u, sendWant |-> 0, fd |-> "open"]
  BY <1>1 DEF NewSocket
<1>4. SkOK(sk') /\ ~sk'.buffers /\ sk'.recvBuf = <<>>
  BY <1>1, <1>2, <1>3 DEF SkOK
<1>5. ~sk.tls /\ sk.recvBuf = <<>>
  BY DEF IoInv, SkOK
<1>6. SslOK(ssl') /\ PlainOK(sk', ssl')
  BY <1>5 DEF IoInv, PlainOK
<1>7. WriteInv'
  BY <1>4 DEF IoInv, WriteInv, Counts, Handed, AgainOK
<1>8. ReadInv'
  BY <1>4, <1>5 DEF IoInv, ReadInv, Reads, LineOK
<1> QED BY <1>4, <1>6, <1>7, <1>8 DEF IoInv

LEMMA AcceptStep ==
    ASSUME IoInv, NEW tls \in BOOLEAN, NEW step, SockAccept(tls, step)
    PROVE  IoInv'
<1>0. NotedOK(noted') /\ noted'.lost = noted.lost
  BY DEF SockAccept, IoInv, ReadInv, Reads, NotedOK
<1>1. CASE step # "ok"
  <2>1. sk' = sk /\ UNCHANGED <<ssl, made, sent, peerGot, arriving, got>>
    BY <1>1 DEF SockAccept
  <2>2. SkOK(sk') /\ SameBytes(sk, sk')
    BY <2>1 DEF IoInv, SameBytes
  <2> QED BY <1>0, <2>1, <2>2, SocketKept
<1>2. CASE step = "ok"
  <2>1. sk' = NewSocket(tls) /\ sk.fd = "none" /\ UNCHANGED <<ssl, made, sent, peerGot, arriving, got, noted>>
    BY <1>2 DEF SockAccept
  <2> QED BY <2>1, NewKept
<1> QED BY <1>1, <1>2

LEMMA ConnectStep ==
    ASSUME IoInv, NEW tls \in BOOLEAN, NEW e, Connect(tls, e)
    PROVE  IoInv'
<1>1. PICK f : sk' = [NewSocket(tls) EXCEPT !.flags = f]
  BY DEF Connect
<1>2. sk.fd = "none" /\ UNCHANGED <<ssl, made, sent, peerGot, arriving, got, noted>>
  BY DEF Connect
<1> QED BY <1>1, <1>2, NewKept

\* Going back to blocking is the one step that loses bytes.
LEMMA NonblockingStep ==
    ASSUME IoInv, NEW on \in BOOLEAN, SetNonblocking(on)
    PROVE  IoInv'
<1>0. SkOK(sk) /\ noted \in [lost : Nat, leaked : BOOLEAN, peerGone : BOOLEAN]
      /\ UNCHANGED <<ssl, made, sent, peerGot, arriving, got>>
  BY DEF SetNonblocking, IoInv, ReadInv, Reads, NotedOK
<1>1. sk.recvBuf \in Seq(Nat)
  BY <1>0 DEF SkOK
<1>2. PICK l : l = Len(sk.recvBuf)
  OBVIOUS
<1>3. l \in Nat /\ (l = 0 <=> sk.recvBuf = <<>>)
  BY <1>1, <1>2
<1>4. NotedOK(noted') /\ noted'.lost = noted.lost + l
  BY <1>0, <1>2, <1>3 DEF SetNonblocking, NotedOK
<1>5. ~sk.buffers => l = 0
  BY <1>0, <1>3 DEF SkOK
<1>6. CASE ~sk.tls
  <2>1. sk' = sk /\ l = 0
    BY <1>0, <1>5, <1>6 DEF SetNonblocking, SkOK
  <2>2. SkOK(sk') /\ SameBytes(sk, sk') /\ noted'.lost = noted.lost
    BY <1>0, <1>4, <2>1 DEF SameBytes
  <2> QED BY <1>0, <1>4, <2>2, SocketKept
<1>7. CASE sk.tls
  <2>1. PICK u : u = <<>>
    OBVIOUS
  <2>2. u \in Seq(Nat)
    BY <2>1
  <2>3. sk' = [sk EXCEPT !.buffers = TRUE, !.recvBuf = u, !.sendWant = 0]
        \/ sk' = [sk EXCEPT !.buffers = FALSE, !.recvBuf = u]
    BY <1>7, <2>1 DEF SetNonblocking
  <2>4. /\ SkOK(sk') /\ sk'.recvBuf = u /\ sk'.tls = sk.tls
        /\ (sk'.buffers => sk'.sendWant = 0)
    <3>1. CASE sk' = [sk EXCEPT !.buffers = TRUE, !.recvBuf = u, !.sendWant = 0]
      <4>1. PICK x : x = [sk EXCEPT !.buffers = TRUE, !.recvBuf = u, !.sendWant = 0]
        OBVIOUS
      <4>2. SkOK(x) /\ x.recvBuf = u /\ x.tls = sk.tls /\ x.sendWant = 0
        BY <1>0, <1>7, <2>2, <4>1 DEF SkOK
      <4> QED BY <3>1, <4>1, <4>2
    <3>2. CASE sk' = [sk EXCEPT !.buffers = FALSE, !.recvBuf = u]
      <4>1. PICK x : x = [sk EXCEPT !.buffers = FALSE, !.recvBuf = u]
        OBVIOUS
      <4>2. /\ x \in [tls : BOOLEAN, flags : {x.flags}, buffers : BOOLEAN, recvBuf : Seq(Nat),
                      sendWant : Nat, fd : {"none", "open", "closed"}]
            /\ x.recvBuf = u /\ x.tls = sk.tls /\ x.buffers = FALSE /\ x.fd = sk.fd
        BY <1>0, <2>2, <4>1 DEF SkOK
      <4>3. SkOK(x)
        BY <1>0, <2>1, <4>2 DEF SkOK
      <4> QED BY <3>2, <4>1, <4>2, <4>3
    <3> QED BY <2>3, <3>1, <3>2
  <2>5. SslOK(ssl') /\ PlainOK(sk', ssl')
    BY <1>0, <2>4 DEF IoInv, PlainOK
  <2>6. WriteInv'
    BY <1>0, <2>4 DEF IoInv, WriteInv, Counts, Handed, AgainOK
  <2>7. Reads'
    BY <1>0, <1>4 DEF IoInv, ReadInv, Reads
  <2>8. LineOK'
    <3>1. noted'.lost = 0 => noted.lost = 0 /\ l = 0
      BY <1>0, <1>3, <1>4
    <3>2. noted'.lost = 0 => sk'.recvBuf = sk.recvBuf
      BY <1>3, <2>1, <2>4, <3>1
    <3> QED BY <1>0, <3>1, <3>2 DEF IoInv, ReadInv, LineOK
  <2> QED BY <2>4, <2>5, <2>6, <2>7, <2>8 DEF IoInv, ReadInv
<1> QED BY <1>6, <1>7

LEMMA CloseStep ==
    ASSUME IoInv, CloseSocket
    PROVE  IoInv'
<1>0. SkOK(sk) /\ UNCHANGED <<ssl, made, sent, peerGot, arriving, got>> /\ noted' = noted
      /\ NotedOK(noted)
  BY DEF CloseSocket, NoBytes, IoInv, ReadInv, Reads
<1>1. PICK f : sk' = [sk EXCEPT !.flags = f, !.fd = "closed"]
  BY DEF CloseSocket
<1>2. PICK x : x = [sk EXCEPT !.flags = f, !.fd = "closed"]
  OBVIOUS
<1>3. SkOK(x) /\ SameBytes(sk, x)
  BY <1>0, <1>2 DEF SkOK, SameBytes
<1> QED BY <1>0, <1>1, <1>2, <1>3, SocketKept

\* The calls that only leave flags.
LEMMA FlagSteps ==
    ASSUME IoInv, NEW f, sk' = [sk EXCEPT !.flags = f],
           UNCHANGED <<ssl, made, sent, peerGot, arriving, got, noted>>
    PROVE  IoInv'
<1>1. SkOK(sk') /\ SameBytes(sk, sk')
  BY FlagsOnly DEF IoInv
<1>2. NotedOK(noted')
  BY DEF IoInv, ReadInv, Reads
<1> QED BY <1>1, <1>2, SocketKept

LEMMA ReadNoneSteps ==
    ASSUME IoInv, NEW new, ReadFlags(new), NoBytes
    PROVE  IoInv'
<1>1. PICK f : sk' = [sk EXCEPT !.flags = f]
  BY DEF ReadFlags, AfterCall
<1> QED BY <1>1, FlagSteps DEF NoBytes

LEMMA PeerClosesStep ==
    ASSUME IoInv, PeerCloses
    PROVE  IoInv'
<1>1. SkOK(sk') /\ SameBytes(sk, sk') /\ UNCHANGED <<ssl, made, sent, peerGot, arriving, got>>
  BY DEF PeerCloses, IoInv, SameBytes
<1>2. NotedOK(noted') /\ noted'.lost = noted.lost
  BY DEF PeerCloses, IoInv, ReadInv, Reads, NotedOK
<1> QED BY <1>1, <1>2, SocketKept

-----------------------------------------------------------------------------
(* Writing. *)

LEMMA ProduceStep ==
    ASSUME IoInv, Produce
    PROVE  IoInv'
<1>1. made' = made + 1 /\ UNCHANGED <<sk, ssl, sent, peerGot, arriving, got, noted>>
      /\ made \in Nat
  BY DEF Produce, IoInv, WriteInv, Counts
<1>2. SkOK(sk') /\ SslOK(ssl') /\ PlainOK(sk', ssl') /\ ReadInv'
  BY <1>1 DEF IoInv, ReadInv, Reads, LineOK
<1>3. Counts'
  BY <1>1 DEF IoInv, WriteInv, Counts
<1>4. ssl.wnum \in Nat /\ Len(ssl.pend) \in Nat /\ sent \in Nat /\ sk.sendWant \in Nat
  <2>1. ssl.wnum \in Nat /\ ssl.pend \in Seq(Nat) /\ sent \in Nat /\ sk.sendWant \in Nat
    BY DEF IoInv, WriteInv, Counts, SslOK, SkOK
  <2> QED BY <2>1
<1>5. Handed(peerGot, sent, ssl)'
  <2>1. sent + ssl.wnum + Len(ssl.pend) <= made
    BY DEF IoInv, WriteInv, Handed
  <2>2. sent + ssl.wnum + Len(ssl.pend) <= made + 1
    BY <1>1, <1>4, <2>1
  <2> QED BY <1>1, <2>2 DEF IoInv, WriteInv, Handed
<1>6. AgainOK(sk, ssl, sent, made)'
  BY <1>1, <1>4 DEF IoInv, WriteInv, AgainOK
<1> QED BY <1>2, <1>3, <1>5, <1>6 DEF IoInv, WriteInv

LEMMA PlainWriteStep ==
    ASSUME IoInv, NEW k \in Nat, NEW e, PlainWrite(k, e)
    PROVE  IoInv'
<1>1. /\ ~sk.tls /\ k <= made - sent /\ sent' = sent + k
      /\ peerGot' = peerGot \o Numbers(sent + 1, sent + k)
      /\ UNCHANGED <<ssl, made, arriving, got, noted>>
  BY DEF PlainWrite
<1>2. made \in Nat /\ sent \in Nat /\ SkOK(sk) /\ SslOK(ssl)
  BY DEF IoInv, WriteInv, Counts
<1>3. SkOK(sk') /\ SameBytes(sk, sk')
  BY <1>2, CallFlags DEF PlainWrite
<1>4. ssl.wnum = 0 /\ ssl.pend = <<>> /\ ~sk.buffers
  BY <1>1, <1>2 DEF IoInv, PlainOK, SkOK
<1>5. peerGot = Numbers(1, sent)
  <2>1. peerGot = Numbers(1, sent + 0)
    BY <1>4 DEF IoInv, WriteInv, Handed
  <2>2. sent + 0 = sent
    BY <1>2
  <2> QED BY <2>1, <2>2
<1>6. peerGot' = Numbers(1, sent + k)
  <2>1. PICK d : d = sent + 1
    OBVIOUS
  <2>2. PICK z : z = sent + k
    OBVIOUS
  <2>3. d \in Nat /\ z \in Nat /\ 1 <= sent + 1 /\ d = sent + 1 /\ sent <= z /\ 1 \in Nat
    BY <1>2, <2>1, <2>2
  <2>4. Cat(Numbers(1, sent), Numbers(d, z)) = Numbers(1, z)
    BY <1>2, <2>3, NumbersJoin
  <2> QED BY <1>1, <1>5, <2>1, <2>2, <2>4 DEF Cat
<1>7. Counts'
  <2>1. PICK z : z = sent + k
    OBVIOUS
  <2>2. z \in Nat /\ 1 <= z + 1
    BY <1>2, <2>1
  <2>3. Numbers(1, z) \in Seq(Nat)
    BY <2>2, NumbersAre
  <2> QED BY <1>1, <1>2, <1>6, <2>1, <2>2, <2>3 DEF Counts
<1>8. Handed(peerGot, sent, ssl)'
  <2>1. PICK z : z = sent + k
    OBVIOUS
  <2>2. z \in Nat /\ z + 0 + 0 <= made /\ z + 0 = z /\ z + 0 + 1 = z + 1 /\ z + 0 + 0 = z
    BY <1>1, <1>2, <2>1
  <2>3. Numbers(z + 1, z) = <<>>
    BY <2>2, NumbersNone
  <2>4. Len(<<>>) = 0
    OBVIOUS
  <2> QED BY <1>1, <1>4, <1>6, <2>1, <2>2, <2>3, <2>4 DEF Handed
<1>9. AgainOK(sk', ssl', sent', made')
  BY <1>3, <1>4 DEF AgainOK, SameBytes
<1>10. PlainOK(sk', ssl') /\ ReadInv' /\ SslOK(ssl')
  BY <1>1, <1>2, <1>3 DEF IoInv, PlainOK, SameBytes, ReadInv, Reads, LineOK
<1> QED BY <1>3, <1>7, <1>8, <1>9, <1>10 DEF IoInv, WriteInv

LEMMA TlsWriteStep ==
    ASSUME IoInv, TlsWrite
    PROVE  IoInv'
<1> DEFINE first == [written |-> 0, out |-> <<>>, ssl |-> ssl, err |-> "ok", want |-> sk.sendWant]
<1>0. /\ sk.tls /\ UNCHANGED <<made, arriving, got, noted>> /\ SkOK(sk) /\ SslOK(ssl)
      /\ made \in Nat /\ sent \in Nat /\ peerGot \in Seq(Nat) /\ sk.buffers \in BOOLEAN /\ sk.sendWant \in Nat
  BY DEF TlsWrite, IoInv, WriteInv, Counts, SkOK
<1>1a. PICK t \in UNION {WriteTurn(u) : u \in WriteTurn(first)} :
          /\ ssl' = t.ssl /\ peerGot' = peerGot \o t.out /\ sent' = sent + t.written
          /\ sk' = [AfterCall("WRITE", IF Ok(t.err) THEN {} ELSE TlsFlags(t.err, "WRITE"))
                      EXCEPT !.sendWant = t.want]
  BY Zenon DEF TlsWrite
<1>1. PICK u \in WriteTurn(first) : t \in WriteTurn(u)
  BY Zenon
<1>2. TurnOK(first)
  <2>1. PICK o : o = <<>>
    OBVIOUS
  <2>2. o \in Seq(Nat) /\ Cat(peerGot, o) = peerGot
    BY <1>0, <2>1, CatNone
  <2>3. first.written = 0 /\ first.out = o /\ first.ssl = ssl /\ first.want = sk.sendWant
    BY <2>1
  <2> HIDE DEF first
  <2>4. sent + 0 = sent /\ sent <= made
    <3>1. ssl.wnum \in Nat /\ ssl.pend \in Seq(Nat)
      BY <1>0 DEF SslOK
    <3>2. Len(ssl.pend) \in Nat
      BY <3>1
    <3>3. sent + ssl.wnum + Len(ssl.pend) <= made
      BY DEF IoInv, WriteInv, Handed
    <3> QED BY <1>0, <3>1, <3>2, <3>3
  <2>5. Handed(peerGot, sent, ssl) /\ AgainOK(sk, ssl, sent, made)
    BY DEF IoInv, WriteInv
  <2> QED BY <1>0, <2>2, <2>3, <2>4, <2>5 DEF TurnOK, AgainOK
<1> HIDE DEF first
<1>3. TurnOK(u)
  BY <1>0, <1>1, <1>2, TurnStep
<1>4. TurnOK(t)
  BY <1>0, <1>1, <1>3, TurnStep
<1>5. PICK x : x = AfterCall("WRITE", IF Ok(t.err) THEN {} ELSE TlsFlags(t.err, "WRITE"))
  OBVIOUS
<1>6. SkOK(x) /\ SameBytes(sk, x)
  BY <1>0, <1>5, CallFlags
<1>7. t.written \in Nat /\ sent + t.written <= made /\ t.out \in Seq(Nat) /\ t.want \in Nat
      /\ SslOK(t.ssl) /\ t.ssl.rest = ssl.rest /\ Handed(Cat(peerGot, t.out), sent + t.written, t.ssl)
  BY <1>4 DEF TurnOK
<1>8. PICK y : y = [x EXCEPT !.sendWant = t.want]
  OBVIOUS
<1>9. SkOK(y) /\ y.tls = sk.tls /\ y.buffers = sk.buffers /\ y.recvBuf = sk.recvBuf /\ y.sendWant = t.want
  BY <1>6, <1>7, <1>8 DEF SkOK, SameBytes
<1>10. sk' = y
  BY <1>1a, <1>5, <1>8
<1>11. SslOK(ssl') /\ PlainOK(sk', ssl')
  BY <1>0, <1>1a, <1>7, <1>9, <1>10 DEF PlainOK
<1>12. Counts'
  <2>1. Cat(peerGot, t.out) \in Seq(Nat)
    BY <1>0, <1>7, CatNat
  <2> QED BY <1>0, <1>1a, <1>7, <2>1 DEF Counts, Cat
<1>13. Handed(peerGot, sent, ssl)'
  BY <1>0, <1>1a, <1>7 DEF Handed, Cat
<1>14. AgainOK(sk', ssl', sent', made')
  BY <1>0, <1>1a, <1>4, <1>9, <1>10 DEF AgainOK, TurnOK
<1>15. ReadInv'
  BY <1>0, <1>1a, <1>7, <1>9, <1>10 DEF IoInv, ReadInv, Reads, LineOK
<1> QED BY <1>9, <1>10, <1>11, <1>12, <1>13, <1>14, <1>15 DEF IoInv, WriteInv

-----------------------------------------------------------------------------
(* Reading. *)

\* A read leaves the other direction alone.
LEMMA WritingKept ==
    ASSUME IoInv, SkOK(sk'), SslOK(ssl'), sk'.tls = sk.tls, sk'.buffers = sk.buffers, sk'.sendWant = sk.sendWant,
           ssl'.wnum = ssl.wnum, ssl'.pend = ssl.pend, UNCHANGED <<made, sent, peerGot>>
    PROVE  WriteInv'
BY DEF IoInv, WriteInv, Counts, Handed, AgainOK

LEMMA PeerSendsStep ==
    ASSUME IoInv, NEW k \in Nat, PeerSends(k)
    PROVE  IoInv'
<1>0. /\ UNCHANGED <<sk, ssl, made, sent, peerGot, got, noted>>
      /\ SkOK(sk) /\ SslOK(ssl) /\ PlainOK(sk, ssl) /\ got \in Seq(Nat) /\ arriving \in Seq(Seq(Nat))
      /\ NotedOK(noted) /\ noted.lost \in Nat /\ LineOK
  BY DEF PeerSends, IoInv, ReadInv, Reads, NotedOK
<1>1. sk.recvBuf \in Seq(Nat) /\ ssl.rest \in Seq(Nat)
  BY <1>0 DEF SkOK, SslOK
<1>2. PICK d : d = Waiting(arriving)
  OBVIOUS
<1>3. d \in Seq(Nat)
  BY <1>0, <1>2, WaitingIs
<1>4. PICK a : a = Arrived
  OBVIOUS
<1>5. a = Len(got) + Len(sk.recvBuf) + Len(ssl.rest) + Len(d) + noted.lost
  BY <1>2, <1>4 DEF Arrived, Waiting
<1>6. a \in Nat
  <2>1. Len(got) \in Nat /\ Len(sk.recvBuf) \in Nat /\ Len(ssl.rest) \in Nat /\ Len(d) \in Nat
    BY <1>0, <1>1, <1>3
  <2>2. noted.lost \in Nat
    BY <1>0
  <2>3. ASSUME NEW i \in Nat, NEW j \in Nat, NEW m \in Nat, NEW n \in Nat, NEW o \in Nat
        PROVE  i + j + m + n + o \in Nat
    OBVIOUS
  <2> QED BY <1>5, <2>1, <2>2, <2>3, Zenon
<1>7. PICK b : b = a + 1
  OBVIOUS
<1>8. PICK c : c = a + k
  OBVIOUS
<1>9. b \in Nat /\ c \in Nat /\ b <= c + 1 /\ a <= c /\ 1 <= a + 1
  BY <1>6, <1>7, <1>8
<1>10. PICK n : n = Numbers(b, c)
  OBVIOUS
<1>11. n \in Seq(Nat)
  BY <1>9, <1>10, NumbersAre
<1>12. arriving' = Append(arriving, n)
  BY <1>4, <1>7, <1>8, <1>10 DEF PeerSends
<1>13. arriving' \in Seq(Seq(Nat)) /\ Waiting(arriving') = Cat(d, n)
  BY <1>0, <1>2, <1>11, <1>12, WaitingMore
<1>14. LineOK'
  <2> SUFFICES ASSUME noted.lost = 0
               PROVE  Numbered(Line(got, sk.recvBuf, ssl.rest, Cat(d, n)))
    BY <1>0, <1>13 DEF LineOK
  <2>1. PICK x : x = Cat(Cat(got, sk.recvBuf), ssl.rest)
    OBVIOUS
  <2>2. x \in Seq(Nat)
    BY <1>0, <1>1, <2>1, CatNat
  <2>3. PICK y : y = Cat(x, d)
    OBVIOUS
  <2>4. y \in Seq(Nat) /\ y = Line(got, sk.recvBuf, ssl.rest, d)
    BY <1>3, <2>1, <2>2, <2>3, CatNat DEF Line
  <2>5. Len(y) = Len(got) + Len(sk.recvBuf) + Len(ssl.rest) + Len(d)
    <3>1. PICK r : r = sk.recvBuf
      OBVIOUS
    <3>2. PICK s : s = ssl.rest
      OBVIOUS
    <3>3. r \in Seq(Nat) /\ s \in Seq(Nat) /\ y = Line(got, r, s, d)
      BY <1>1, <2>4, <3>1, <3>2
    <3>4. Len(Line(got, r, s, d)) = Len(got) + Len(r) + Len(s) + Len(d)
      <4>1. got \in Seq(Nat)
        BY <1>0
      <4> QED BY <1>3, <3>3, <4>1, LineLen
    <3> QED BY <3>1, <3>2, <3>3, <3>4
  <2>6. Len(y) = a
    <3>1. Len(y) \in Nat
      BY <2>4
    <3> QED BY <1>5, <2>5, <3>1
  <2>7. y = Numbers(1, a)
    BY <1>0, <1>2, <2>4, <2>6 DEF LineOK, Numbered
  <2>8. Cat(y, n) = Numbers(1, c)
    BY <1>6, <1>7, <1>9, <1>10, <2>7, NumbersJoin
  <2>9. Line(got, sk.recvBuf, ssl.rest, Cat(d, n)) = Cat(y, n)
    BY <1>3, <1>11, <2>1, <2>2, <2>3, CatJoin DEF Line
  <2>10. Len(Numbers(1, c)) = c
    <3>1. Len(Numbers(1, c)) = c - 1 + 1
      BY <1>9, NumbersAre
    <3> QED BY <1>9, <3>1
  <2> QED BY <2>8, <2>9, <2>10 DEF Numbered
<1>15. WriteInv'
  BY <1>0, WritingKept
<1> QED BY <1>0, <1>13, <1>14, <1>15 DEF IoInv, ReadInv, Reads

\* A read that has moved the first bytes of the line.
LEMMA ReadKept ==
    ASSUME IoInv, SkOK(sk'), SslOK(ssl'), sk'.tls = sk.tls, sk'.buffers = sk.buffers, sk'.sendWant = sk.sendWant,
           ssl'.wnum = ssl.wnum, ssl'.pend = ssl.pend, UNCHANGED <<made, sent, peerGot, noted>>,
           got' \in Seq(Nat), arriving' \in Seq(Seq(Nat)), ~sk.tls => ssl' = ssl,
           Line(got', sk'.recvBuf, ssl'.rest, Waiting(arriving')) = Line(got, sk.recvBuf, ssl.rest, Waiting(arriving))
    PROVE  IoInv'
<1>1. WriteInv'
  BY WritingKept
<1>2. LineOK'
  BY DEF IoInv, ReadInv, LineOK
<1>3. Reads'
  BY DEF IoInv, ReadInv, Reads
<1>4. PlainOK(sk', ssl')
  BY DEF IoInv, PlainOK
<1> QED BY <1>1, <1>2, <1>3, <1>4 DEF IoInv, ReadInv

LEMMA PlainReadStep ==
    ASSUME IoInv, NEW len \in Nat, PlainRead(len)
    PROVE  IoInv'
<1> DEFINE all == Waiting(arriving)
<1>0. /\ ~sk.tls /\ UNCHANGED <<ssl, made, sent, peerGot, noted>>
      /\ SkOK(sk) /\ SslOK(ssl) /\ got \in Seq(Nat) /\ arriving \in Seq(Seq(Nat)) /\ PlainOK(sk, ssl)
  BY DEF PlainRead, IoInv, ReadInv, Reads
<1>1. SkOK(sk') /\ SameBytes(sk, sk')
  BY <1>0, CallFlags DEF PlainRead, ReadFlags
<1>2. sk.recvBuf = <<>> /\ sk'.recvBuf = <<>> /\ ssl.rest = <<>> /\ ssl'.rest = <<>>
  BY <1>0, <1>1 DEF SkOK, PlainOK, SameBytes
<1>3. all \in Seq(Nat)
  BY <1>0, WaitingIs
<1>4. PICK k \in 1 .. Min({len, Len(all)}) :
              /\ got' = got \o SubSeq(all, 1, k)
              /\ arriving' = IF k = Len(all) THEN <<>> ELSE <<SubSeq(all, k + 1, Len(all))>>
  BY DEF PlainRead, Waiting
<1> HIDE DEF all
<1>5. k \in Nat /\ k <= Len(all)
  <2>1. PICK l : l = Len(all)
    OBVIOUS
  <2>2. l \in Nat
    BY <1>3, <2>1
  <2>3. Min({len, l}) = IF len <= l THEN len ELSE l
    BY <2>2, MinOfTwo
  <2> QED BY <1>4, <2>1, <2>2, <2>3
<1>6. PICK p : p = SubSeq(all, 1, k)
  OBVIOUS
<1>7. PICK q : q = SubSeq(all, k + 1, Len(all))
  OBVIOUS
<1>8. p \in Seq(Nat) /\ q \in Seq(Nat) /\ all = Cat(p, q)
  BY <1>3, <1>5, <1>6, <1>7, SplitAt
<1>9. got' = Cat(got, p) /\ got' \in Seq(Nat)
  BY <1>0, <1>4, <1>6, <1>8, CatNat DEF Cat
<1>10. arriving' \in Seq(Seq(Nat)) /\ Waiting(arriving') = q
  <2>1. CASE k = Len(all)
    <3>1. Len(q) = 0
      BY <1>3, <1>5, <1>7, <2>1
    <3>2. q = <<>>
      BY <1>8, <3>1
    <3> QED BY <1>4, <1>8, <2>1, <3>2, WaitingFew
  <2>2. CASE k # Len(all)
    BY <1>4, <1>7, <1>8, <2>2, WaitingFew
  <2> QED BY <2>1, <2>2
<1>11. Line(got, <<>>, <<>>, Cat(p, q)) = Line(Cat(got, p), <<>>, <<>>, q)
  BY <1>0, <1>8, LineMoves
<1>12. Line(got', sk'.recvBuf, ssl'.rest, Waiting(arriving')) = Line(got, sk.recvBuf, ssl.rest, Waiting(arriving))
  BY <1>2, <1>8, <1>9, <1>10, <1>11 DEF all
<1> QED BY <1>0, <1>1, <1>9, <1>10, <1>12, ReadKept DEF SameBytes

\* SSL_read gives the rest of a record or the next record; what is left of the
\* line behind it.
LEMMA SourceIs ==
    ASSUME ssl.rest \in Seq(Nat), arriving \in Seq(Seq(Nat)), Source # <<>>, NEW r, Drained(r), SslOK(ssl)
    PROVE  /\ Source \in Seq(Nat) /\ arriving' \in Seq(Seq(Nat)) /\ Waiting(arriving') \in Seq(Nat)
           /\ \A a \in Seq(Nat) : Line(a, <<>>, ssl.rest, Waiting(arriving)) = Line(a, <<>>, Source, Waiting(arriving'))
<1>1. CASE ssl.rest # <<>>
  <2>1. Source = ssl.rest /\ arriving' = arriving
    BY <1>1 DEF Source, Drained
  <2> QED BY <2>1, WaitingIs
<1>2. CASE ssl.rest = <<>>
  <2>1. arriving # <<>> /\ Source = Head(arriving) /\ arriving' = Tail(arriving)
    BY <1>2 DEF Source, Drained
  <2>2. PICK h : h = Head(arriving)
    OBVIOUS
  <2>3. PICK d : d = Waiting(arriving')
    OBVIOUS
  <2>4. h \in Seq(Nat) /\ arriving' \in Seq(Seq(Nat)) /\ Waiting(arriving) = Cat(h, d)
    BY <2>1, <2>2, <2>3, WaitingIs
  <2>5. d \in Seq(Nat)
    BY <2>3, <2>4, WaitingIs
  <2>6. ASSUME NEW a \in Seq(Nat) PROVE Line(a, <<>>, <<>>, Cat(h, d)) = Line(a, <<>>, h, d)
    BY <2>4, <2>5, LineMoves
  <2> QED BY <1>2, <2>1, <2>2, <2>3, <2>4, <2>5, <2>6
<1> QED BY <1>1, <1>2

\* The number of bytes a read gives.
LEMMA ReadLength ==
    ASSUME NEW s \in Seq(Nat), NEW len \in Nat
    PROVE  Min({len, Len(s)}) \in Nat /\ Min({len, Len(s)}) <= Len(s)
<1>1. PICK l : l = Len(s)
  OBVIOUS
<1>2. l \in Nat
  BY <1>1
<1>3. Min({len, l}) = IF len <= l THEN len ELSE l
  BY <1>2, MinOfTwo
<1> QED BY <1>1, <1>2, <1>3

LEMMA DrainedIs ==
    ASSUME SslOK(ssl), NEW r \in Seq(Nat), Drained(r)
    PROVE  SslOK(ssl') /\ ssl'.wnum = ssl.wnum /\ ssl'.pend = ssl.pend /\ ssl'.rest = r
BY DEF SslOK, Drained

LEMMA TlsReadStep ==
    ASSUME IoInv, NEW len \in Nat, TlsRead(len)
    PROVE  IoInv'
<1>1. PICK k : k = Min({len, Len(Source)})
  OBVIOUS
<1>2. /\ sk.tls /\ ~sk.buffers /\ Source # <<>> /\ got' = got \o SubSeq(Source, 1, k)
      /\ Drained(SubSeq(Source, k + 1, Len(Source))) /\ UNCHANGED <<made, sent, peerGot, noted>>
      /\ ReadFlags({})
  BY <1>1 DEF TlsRead
<1>3. /\ SkOK(sk) /\ SslOK(ssl) /\ got \in Seq(Nat) /\ arriving \in Seq(Seq(Nat))
      /\ ssl.rest \in Seq(Nat)
  BY DEF IoInv, ReadInv, Reads, SslOK
<1>4. SkOK(sk') /\ SameBytes(sk, sk')
  BY <1>2, <1>3, CallFlags DEF ReadFlags
<1>5. sk.recvBuf = <<>> /\ sk'.recvBuf = <<>>
  BY <1>2, <1>3, <1>4 DEF SkOK, SameBytes
<1>6. PICK s : s = Source
  OBVIOUS
<1>7. PICK d : d = Waiting(arriving')
  OBVIOUS
<1>8. s \in Seq(Nat) /\ arriving' \in Seq(Seq(Nat)) /\ d \in Seq(Nat)
      /\ Line(got, <<>>, ssl.rest, Waiting(arriving)) = Line(got, <<>>, s, d)
  BY <1>2, <1>3, <1>6, <1>7, SourceIs
<1>9. PICK p : p = SubSeq(s, 1, k)
  OBVIOUS
<1>10. PICK q : q = SubSeq(s, k + 1, Len(s))
  OBVIOUS
<1>11. k \in Nat /\ k <= Len(s)
  BY <1>1, <1>6, <1>8, ReadLength
<1>12. p \in Seq(Nat) /\ q \in Seq(Nat) /\ s = Cat(p, q)
  BY <1>8, <1>9, <1>10, <1>11, SplitAt
<1>13. got' = Cat(got, p) /\ Drained(q)
  BY <1>2, <1>6, <1>9, <1>10 DEF Cat
<1>14. got' \in Seq(Nat)
  BY <1>3, <1>12, <1>13, CatNat
<1>15. SslOK(ssl') /\ ssl'.wnum = ssl.wnum /\ ssl'.pend = ssl.pend /\ ssl'.rest = q
  BY <1>3, <1>12, <1>13, DrainedIs
<1>16. Line(got, <<>>, Cat(p, q), d) = Line(Cat(got, p), <<>>, q, d)
  BY <1>3, <1>8, <1>12, LineMoves
<1>17. Line(got', sk'.recvBuf, ssl'.rest, Waiting(arriving')) = Line(got, sk.recvBuf, ssl.rest, Waiting(arriving))
  BY <1>5, <1>7, <1>8, <1>12, <1>13, <1>15, <1>16
<1> QED BY <1>2, <1>4, <1>8, <1>14, <1>15, <1>17, ReadKept DEF SameBytes

LEMMA TlsReadBufStep ==
    ASSUME IoInv, NEW len \in Nat, TlsReadBuf(len)
    PROVE  IoInv'
<1> DEFINE data == IF sk.recvBuf # <<>> THEN sk.recvBuf ELSE Source
<1>1. PICK k : k = Min({len, Len(data)})
  OBVIOUS
<1>2. /\ sk.tls /\ sk.buffers /\ data # <<>> /\ got' = got \o SubSeq(data, 1, k)
      /\ IF sk.recvBuf # <<>> THEN UNCHANGED <<ssl, arriving>> ELSE Drained(<<>>)
      /\ sk' = [AfterCall("READ", {}) EXCEPT !.recvBuf = SubSeq(data, k + 1, Len(data))]
      /\ UNCHANGED <<made, sent, peerGot, noted>>
  BY <1>1 DEF TlsReadBuf
<1>3. /\ SkOK(sk) /\ SslOK(ssl) /\ got \in Seq(Nat) /\ arriving \in Seq(Seq(Nat))
      /\ ssl.rest \in Seq(Nat) /\ sk.recvBuf \in Seq(Nat)
  BY DEF IoInv, ReadInv, Reads, SslOK, SkOK
<1>4. PICK x : x = AfterCall("READ", {})
  OBVIOUS
<1>5. SkOK(x) /\ SameBytes(sk, x)
  BY <1>3, <1>4, CallFlags
<1>6. ASSUME NEW q \in Seq(Nat), sk' = [x EXCEPT !.recvBuf = q]
      PROVE  SkOK(sk') /\ sk'.tls = sk.tls /\ sk'.buffers = sk.buffers /\ sk'.sendWant = sk.sendWant
             /\ sk'.recvBuf = q
  <2>1. PICK y : y = [x EXCEPT !.recvBuf = q]
    OBVIOUS
  <2>2. SkOK(y) /\ y.tls = sk.tls /\ y.buffers = sk.buffers /\ y.sendWant = sk.sendWant /\ y.recvBuf = q
    BY <1>2, <1>5, <2>1 DEF SkOK, SameBytes
  <2> QED BY <1>6, <2>1, <2>2
<1>7. PICK s : s = data
  OBVIOUS
<1>8. PICK p : p = SubSeq(s, 1, k)
  OBVIOUS
<1>9. PICK q : q = SubSeq(s, k + 1, Len(s))
  OBVIOUS
<1>10. got' = Cat(got, p) /\ sk' = [x EXCEPT !.recvBuf = q]
  BY <1>2, <1>4, <1>7, <1>8, <1>9 DEF Cat
<1>11. ASSUME s \in Seq(Nat)
       PROVE  p \in Seq(Nat) /\ q \in Seq(Nat) /\ s = Cat(p, q) /\ got' \in Seq(Nat)
  <2>1. k \in Nat /\ k <= Len(s)
    BY <1>1, <1>7, <1>11, ReadLength
  <2>2. p \in Seq(Nat) /\ q \in Seq(Nat) /\ s = Cat(p, q)
    BY <1>8, <1>9, <1>11, <2>1, SplitAt
  <2>3. got' \in Seq(Nat)
    BY <1>3, <1>10, <2>2, CatNat
  <2> QED BY <2>2, <2>3
<1>12. CASE sk.recvBuf # <<>>
  <2>1. s = sk.recvBuf /\ UNCHANGED <<ssl, arriving>>
    BY <1>2, <1>7, <1>12
  <2>2. p \in Seq(Nat) /\ q \in Seq(Nat) /\ s = Cat(p, q) /\ got' \in Seq(Nat)
    BY <1>3, <1>11, <2>1
  <2>3. SkOK(sk') /\ sk'.tls = sk.tls /\ sk'.buffers = sk.buffers /\ sk'.sendWant = sk.sendWant
        /\ sk'.recvBuf = q
    BY <1>6, <1>10, <2>2
  <2>4. PICK d : d = Waiting(arriving)
    OBVIOUS
  <2>5. d \in Seq(Nat)
    BY <1>3, <2>4, WaitingIs
  <2>6. PICK c : c = ssl.rest
    OBVIOUS
  <2>7. Line(got, Cat(p, q), c, d) = Line(Cat(got, p), q, c, d)
    BY <1>3, <2>2, <2>5, <2>6, LineMoves
  <2>8. Line(got', sk'.recvBuf, ssl'.rest, Waiting(arriving')) = Line(got, sk.recvBuf, ssl.rest, Waiting(arriving))
    BY <1>10, <2>1, <2>2, <2>3, <2>4, <2>6, <2>7
  <2>9. SslOK(ssl') /\ ssl' = ssl /\ arriving' \in Seq(Seq(Nat))
    BY <1>3, <2>1
  <2> QED BY <1>2, <2>2, <2>3, <2>8, <2>9, ReadKept
<1>13. CASE sk.recvBuf = <<>>
  <2>1. PICK e : e = <<>>
    OBVIOUS
  <2>2. s = Source /\ Source # <<>> /\ Drained(e) /\ e \in Seq(Nat)
    BY <1>2, <1>7, <1>13, <2>1
  <2>3. PICK d : d = Waiting(arriving')
    OBVIOUS
  <2>4. s \in Seq(Nat) /\ arriving' \in Seq(Seq(Nat)) /\ d \in Seq(Nat)
        /\ Line(got, <<>>, ssl.rest, Waiting(arriving)) = Line(got, <<>>, s, d)
    BY <1>3, <2>2, <2>3, SourceIs
  <2>5. p \in Seq(Nat) /\ q \in Seq(Nat) /\ s = Cat(p, q) /\ got' \in Seq(Nat)
    BY <1>11, <2>4
  <2>6. SkOK(sk') /\ sk'.tls = sk.tls /\ sk'.buffers = sk.buffers /\ sk'.sendWant = sk.sendWant
        /\ sk'.recvBuf = q
    BY <1>6, <1>10, <2>5
  <2>7. SslOK(ssl') /\ ssl'.wnum = ssl.wnum /\ ssl'.pend = ssl.pend /\ ssl'.rest = <<>>
    BY <1>3, <2>1, <2>2, DrainedIs
  <2>8. Line(got, <<>>, Cat(p, q), d) = Line(Cat(got, p), q, <<>>, d)
    BY <1>3, <2>4, <2>5, LineMoves
  <2>9. Line(got', sk'.recvBuf, ssl'.rest, Waiting(arriving')) = Line(got, sk.recvBuf, ssl.rest, Waiting(arriving))
    BY <1>10, <1>13, <2>3, <2>4, <2>5, <2>6, <2>7, <2>8
  <2> QED BY <1>2, <2>4, <2>5, <2>6, <2>7, <2>9, ReadKept
<1> QED BY <1>12, <1>13

LEMMA IoStepInv == IoInv /\ [SocketIoNext]_ioVars => IoInv'
<1> SUFFICES ASSUME IoInv, [SocketIoNext]_ioVars PROVE IoInv'
  OBVIOUS
<1>1. CASE UNCHANGED ioVars
  <2>1. SkOK(sk') /\ SameBytes(sk, sk') /\ NotedOK(noted')
    BY <1>1 DEF ioVars, IoInv, SameBytes, ReadInv, Reads
  <2> QED BY <1>1, <2>1, SocketKept DEF ioVars
<1>2. ASSUME NEW tls \in BOOLEAN, NEW step \in AcceptSteps(TRUE), SockAccept(tls, step) PROVE IoInv'
  BY <1>2, AcceptStep
<1>3. ASSUME NEW tls \in BOOLEAN, NEW e \in Errnos \cup {"ok", "HANDSHAKE"}, Connect(tls, e) PROVE IoInv'
  BY <1>3, ConnectStep
<1>4. ASSUME NEW on \in BOOLEAN, SetNonblocking(on) PROVE IoInv'
  BY <1>4, NonblockingStep
<1>5. CASE SetAuto
  BY <1>5, FlagSteps DEF SetAuto
<1>6. CASE Produce \/ TlsWrite \/ PeerCloses \/ CloseSocket
  BY <1>6, ProduceStep, TlsWriteStep, PeerClosesStep, CloseStep
<1>7. ASSUME NEW k \in 0 .. MaxBytes, NEW e \in Errnos, PlainWrite(k, e) PROVE IoInv'
  BY <1>7, PlainWriteStep
<1>8. ASSUME NEW k \in 1 .. RecSize, PeerSends(k) PROVE IoInv'
  BY <1>8, PeerSendsStep
<1>9. ASSUME NEW len \in 1 .. ReadLen, PlainRead(len) \/ TlsRead(len) \/ TlsReadBuf(len) PROVE IoInv'
  BY <1>9, PlainReadStep, TlsReadStep, TlsReadBufStep
<1>10. ASSUME NEW e \in Errnos \cup {"eof"}, PlainReadNone(e) PROVE IoInv'
  <2>1. PICK new : ReadFlags(new) /\ NoBytes
    BY <1>10 DEF PlainReadNone
  <2> QED BY <2>1, ReadNoneSteps
<1>11. ASSUME NEW e, TlsReadNone(e) PROVE IoInv'
  BY <1>11, ReadNoneSteps DEF TlsReadNone
<1>12. ASSUME NEW e, Shutdown(e) PROVE IoInv'
  BY <1>12, FlagSteps DEF Shutdown
<1>13. ASSUME NEW e, SetOption(e) PROVE IoInv'
  BY <1>13, FlagSteps DEF SetOption
<1>14. CASE SocketIoNext
  BY <1>2, <1>3, <1>4, <1>5, <1>6, <1>7, <1>8, <1>9, <1>10, <1>11, <1>12, <1>13, <1>14, Zenon DEF SocketIoNext
<1> QED BY <1>1, <1>14

LEMMA IoInvIntact == IoInv => BytesIntact
<1> SUFFICES ASSUME IoInv PROVE BytesIntact
  OBVIOUS
<1>0. /\ made \in Nat /\ sent \in Nat /\ Handed(peerGot, sent, ssl) /\ AgainOK(sk, ssl, sent, made)
      /\ got \in Seq(Nat) /\ arriving \in Seq(Seq(Nat)) /\ LineOK /\ SslOK(ssl) /\ SkOK(sk)
  BY DEF IoInv, WriteInv, ReadInv, Counts, Reads
<1>1. PICK w : w = ssl.wnum
  OBVIOUS
<1>2. PICK l : l = Len(ssl.pend)
  OBVIOUS
<1>3. w \in Nat /\ l \in Nat
  <2>1. ssl.wnum \in Nat /\ ssl.pend \in Seq(Nat)
    BY <1>0 DEF SslOK
  <2> QED BY <1>1, <1>2, <2>1
<1>4. peerGot = Numbers(1, sent + w) /\ sent + w + l <= made
  BY <1>0, <1>1, <1>2 DEF Handed
<1>5. Len(peerGot) = sent + w
  <2>1. PICK z : z = sent + w
    OBVIOUS
  <2>2. z \in Nat /\ 1 <= z + 1
    BY <1>0, <1>3, <2>1
  <2>3. Len(Numbers(1, z)) = z - 1 + 1
    BY <2>2, NumbersAre
  <2> QED BY <1>4, <2>1, <2>2, <2>3
<1>6. peerGot = Numbers(1, Len(peerGot)) /\ sent <= Len(peerGot) /\ Len(peerGot) <= made
  <2>1. peerGot = Numbers(1, Len(peerGot))
    BY <1>4, <1>5
  <2>2. sent <= sent + w /\ sent + w <= made
    BY <1>0, <1>3, <1>4
  <2> QED BY <1>5, <2>1, <2>2
<1>7. ASSUME noted.lost = 0
      PROVE  got \o sk.recvBuf \o ssl.rest \o FlattenSeq(arriving) = Numbers(1, Arrived)
  <2>1. PICK b : b = sk.recvBuf
    OBVIOUS
  <2>2. PICK c : c = ssl.rest
    OBVIOUS
  <2>3. PICK d : d = Waiting(arriving)
    OBVIOUS
  <2>4. b \in Seq(Nat) /\ c \in Seq(Nat) /\ d \in Seq(Nat)
    BY <1>0, <2>1, <2>2, <2>3, WaitingIs DEF SkOK, SslOK
  <2>5. Len(Line(got, b, c, d)) = Len(got) + Len(b) + Len(c) + Len(d) /\ Line(got, b, c, d) \in Seq(Nat)
    BY <1>0, <2>4, LineLen
  <2>6. Arrived = Len(got) + Len(b) + Len(c) + Len(d) + 0
    BY <1>7, <2>1, <2>2, <2>3 DEF Arrived, Waiting
  <2>7. PICK z : z = Len(Line(got, b, c, d))
    OBVIOUS
  <2>8. z \in Nat
    BY <2>5, <2>7
  <2>9. Arrived = z
    BY <2>5, <2>6, <2>7, <2>8
  <2>10. Line(got, b, c, d) = Numbers(1, z)
    BY <1>0, <1>7, <2>1, <2>2, <2>3, <2>7 DEF LineOK, Numbered
  <2>11. Line(got, b, c, d) = got \o sk.recvBuf \o ssl.rest \o FlattenSeq(arriving)
    BY <2>1, <2>2, <2>3 DEF Line, Cat, Waiting
  <2> QED BY <2>9, <2>10, <2>11
<1>8. ASSUME sk.buffers, sk.sendWant > 0
      PROVE  sk.sendWant \in ssl.wnum + Len(ssl.pend) .. made - sent
  <2>1. w + l <= sk.sendWant /\ sent + sk.sendWant <= made
    BY <1>0, <1>1, <1>2, <1>8 DEF AgainOK
  <2>2. sk.sendWant \in Nat
    BY <1>0 DEF SkOK
  <2>3. sk.sendWant \in w + l .. made - sent
    BY <1>0, <1>3, <2>1, <2>2
  <2> QED BY <1>1, <1>2, <2>3
<1> QED BY <1>6, <1>7, <1>8, Zenon DEF BytesIntact

\* Both directions of a plain or a TLS socket carry what was put in, for every
\* record size, buffer length and number of bytes: whatever stops a write and
\* however often it is repeated with more bytes, the peer gets each byte once
\* and in order (vtm_socket_plain_write, the loop of vtm_socket_tls_write and
\* its sendWant), and reads by way of the socket's buffer or not give the peer's
\* bytes in order unless the buffer was freed with bytes in it.
THEOREM BytesStayIntact == SocketIoSpec => []BytesIntact
<1>1. SocketIoInit => IoInv
  BY IoInitInv
<1>2. IoInv /\ [SocketIoNext]_ioVars => IoInv'
  BY IoStepInv
<1>3. IoInv => BytesIntact
  BY IoInvIntact
<1> QED BY <1>1, <1>2, <1>3, PTL DEF SocketIoSpec

-----------------------------------------------------------------------------
(* The list. *)

\* A size_t that is doubled wraps at most once.
LEMMA WrapOnce ==
    ASSUME NEW a \in Nat, NEW m \in Nat, a < 2 * (m + 1)
    PROVE  a % (m + 1) = IF a <= m THEN a ELSE a - (m + 1)
<1>1. CASE a <= m
  BY <1>1
<1>2. CASE ~(a <= m)
  <2>1. a = (a - (m + 1)) + 1 * (m + 1) /\ a - (m + 1) \in 0 .. m
    BY <1>2
  <2> QED BY <1>2, <2>1
<1> QED BY <1>1, <1>2

\* vtm_list_grow makes room: the size it leaves is larger than the old one.
LEMMA GrownLarger ==
    ASSUME NEW l, l.size \in 1 .. SizeMax, l.size # SizeMax
    PROVE  ListDoubled(l) \in 1 .. SizeMax /\ ListDoubled(l) > l.size
<1>1. PICK s : s = l.size
  OBVIOUS
<1>2. s \in 1 .. SizeMax /\ s # SizeMax /\ SizeMax \in Nat
  BY <1>1, ContainersAssumption
<1>3. PICK a : a = s * 2
  OBVIOUS
<1>4. a \in Nat /\ a = s + s /\ a < 2 * (SizeMax + 1)
  BY <1>2, <1>3
<1>5. a % (SizeMax + 1) = IF a <= SizeMax THEN a ELSE a - (SizeMax + 1)
  BY <1>2, <1>4, WrapOnce
<1>6. ListDoubled(l) = IF a % (SizeMax + 1) < s THEN SizeMax ELSE a % (SizeMax + 1)
  BY <1>1, <1>3 DEF ListDoubled
<1>7. PICK n : n = a % (SizeMax + 1)
  OBVIOUS
<1>8. PICK d : d = ListDoubled(l)
  OBVIOUS
<1>9. n = (IF a <= SizeMax THEN a ELSE a - (SizeMax + 1)) /\ d = IF n < s THEN SizeMax ELSE n
  BY <1>5, <1>6, <1>7, <1>8
<1>10. d \in 1 .. SizeMax /\ d > s
  BY <1>2, <1>4, <1>9
<1> QED BY <1>1, <1>8, <1>10

Slots == Objects \cup {Cast(t, v) : t \in ListTypes, v \in Objects}
Once(s) == \A i, j \in 1 .. Len(s) : s[i] = s[j] => i = j

LiOK(l) ==
    /\ l \in [type : ListTypes, fnFree : BOOLEAN, array : Seq(Slots), used : Nat, size : 1 .. SizeMax,
              lost : BOOLEAN]
    /\ l.fnFree => l.type = "POINTER"
\* The slots in use are the entries, and the slots are written without gaps.
Shows(l, s) ==
    ~l.lost => /\ l.used = Len(s) /\ l.used <= l.size /\ l.used <= Len(l.array)
               /\ \A i \in 1 .. l.used : l.array[i] = s[i]
\* No object is in the list twice, and those in it are alive.
Kept(l, s, o) == l.type = "POINTER" => Once(s) /\ ToSet(s) \subseteq o.live
ListInv ==
    /\ LiOK(li) /\ liRef \in Seq(Slots) /\ objs \in [live : SUBSET Objects, doubly : {FALSE}]
    /\ Shows(li, liRef) /\ Kept(li, liRef, objs)

LEMMA ListInitInv == ListInit => ListInv
<1> SUFFICES ASSUME ListInit PROVE ListInv
  OBVIOUS
<1>0. PICK e : e = <<>>
  OBVIOUS
<1>1. e \in Seq(Slots) /\ Len(e) = 0
  BY <1>0
<1>2. PICK t \in ListTypes, f \in BOOLEAN, n \in ListSizes :
          li = [type |-> t, fnFree |-> f, array |-> e, used |-> 0, size |-> n, lost |-> FALSE]
  BY <1>0 DEF ListInit, NewList
<1>3. li.fnFree => li.type = "POINTER"
  BY DEF ListInit
<1>4. n \in 1 .. SizeMax
  BY ContainersAssumption
<1>5. LiOK(li)
  BY <1>1, <1>2, <1>3, <1>4 DEF LiOK
<1>6. liRef = e /\ objs = [live |-> {}, doubly |-> FALSE]
  BY <1>0 DEF ListInit
<1>7. Shows(li, liRef)
  BY <1>1, <1>2, <1>4, <1>6 DEF Shows
<1>8. Once(e) /\ ToSet(e) = {}
  BY <1>1 DEF Once, ToSet
<1> QED BY <1>1, <1>5, <1>6, <1>7, <1>8 DEF ListInv, Kept

\* One entry behind the others.
LEMMA AppendIs ==
    ASSUME NEW S, NEW s \in Seq(S), NEW v \in S
    PROVE  /\ Append(s, v) \in Seq(S) /\ Len(Append(s, v)) = Len(s) + 1
           /\ \A i \in 1 .. Len(s) : Append(s, v)[i] = s[i]
           /\ Append(s, v)[Len(s) + 1] = v
OBVIOUS

LEMMA WriteSlotShows ==
    ASSUME NEW l, LiOK(l), ~l.lost, NEW s \in Seq(Slots), NEW v \in Slots, l.used = Len(s), l.used < l.size,
           l.used <= Len(l.array), \A i \in 1 .. l.used : l.array[i] = s[i]
    PROVE  LiOK(WriteSlot(l, v)) /\ WriteSlot(l, v).type = l.type /\ Shows(WriteSlot(l, v), Append(s, v))
<1>1. PICK a : a = IF l.used < Len(l.array) THEN [l.array EXCEPT ![l.used + 1] = v] ELSE Append(l.array, v)
  OBVIOUS
<1>2. PICK u : u = l.used
  OBVIOUS
<1>3. PICK b : b = l.array
  OBVIOUS
<1>4. u \in Nat /\ b \in Seq(Slots) /\ u <= Len(b) /\ u = Len(s) /\ u < l.size
  BY <1>2, <1>3 DEF LiOK
<1>5. a \in Seq(Slots) /\ u + 1 <= Len(a) /\ a[u + 1] = v /\ \A i \in 1 .. u : a[i] = b[i]
  <2>1. CASE u < Len(b)
    <3>1. a = [b EXCEPT ![u + 1] = v]
      BY <1>1, <1>2, <1>3, <2>1
    <3>2. u + 1 \in 1 .. Len(b)
      BY <1>4, <2>1
    <3>3. a \in Seq(Slots) /\ Len(a) = Len(b)
      BY <1>4, <3>1, <3>2
    <3>4. a[u + 1] = v /\ \A i \in 1 .. u : a[i] = b[i]
      BY <1>4, <3>1, <3>2
    <3> QED BY <1>4, <2>1, <3>3, <3>4
  <2>2. CASE ~(u < Len(b))
    <3>1. a = Append(b, v) /\ u = Len(b)
      BY <1>1, <1>2, <1>3, <1>4, <2>2
    <3> QED BY <1>4, <3>1, AppendIs
  <2> QED BY <2>1, <2>2
<1>6. PICK w : w = WriteSlot(l, v)
  OBVIOUS
<1>7. w = [l EXCEPT !.array = a, !.used = u + 1]
  BY <1>1, <1>2, <1>6 DEF WriteSlot
<1>8. LiOK(w) /\ w.type = l.type /\ w.used = u + 1 /\ w.array = a /\ w.size = l.size
  <2>1. PICK z : z = u + 1
    OBVIOUS
  <2>2. z \in Nat /\ w = [l EXCEPT !.array = a, !.used = z] /\ a \in Seq(Slots)
    BY <1>4, <1>5, <1>7, <2>1
  <2>3. LiOK(w) /\ w.type = l.type /\ w.used = z /\ w.array = a /\ w.size = l.size
    BY <2>2 DEF LiOK
  <2> QED BY <2>1, <2>3
<1>9. PICK t : t = Append(s, v)
  OBVIOUS
<1>10. Len(t) = u + 1 /\ t[u + 1] = v /\ \A i \in 1 .. u : t[i] = s[i]
  BY <1>4, <1>9, AppendIs
<1>11. \A i \in 1 .. u + 1 : a[i] = t[i]
  <2> SUFFICES ASSUME NEW i \in 1 .. u + 1 PROVE a[i] = t[i]
    OBVIOUS
  <2>1. i \in 1 .. u \/ i = u + 1
    BY <1>4
  <2>2. CASE i \in 1 .. u
    <3>1. b[i] = s[i]
      BY <1>2, <1>3, <2>2
    <3> QED BY <1>5, <1>10, <2>2, <3>1
  <2> QED BY <1>5, <1>10, <2>1, <2>2
<1>12. u + 1 <= l.size
  <2>1. l.size \in Nat
    BY DEF LiOK
  <2> QED BY <1>4, <2>1
<1>13. Shows(w, t)
  BY <1>5, <1>8, <1>10, <1>11, <1>12 DEF Shows
<1> QED BY <1>6, <1>8, <1>9, <1>13

LEMMA GrownList ==
    ASSUME NEW l, LiOK(l), ~l.lost, l.used <= l.size, NEW g \in ListGrown(l)
    PROVE  /\ LiOK(g) /\ g.type = l.type /\ g.used = l.used /\ g.array = l.array
           /\ ~g.lost => g.used < g.size
<1>0. l.used \in Nat /\ l.size \in 1 .. SizeMax
  BY DEF LiOK
<1>1. CASE l.used < l.size
  <2>1. g = l
    BY <1>1 DEF ListGrown
  <2> QED BY <1>1, <2>1
<1>2. CASE ~(l.used < l.size)
  <2>1. l.size # SizeMax /\ \E x \in BOOLEAN : g = [l EXCEPT !.size = ListDoubled(l), !.lost = x]
    BY <1>2 DEF ListGrown
  <2>2. PICK x \in BOOLEAN : g = [l EXCEPT !.size = ListDoubled(l), !.lost = x]
    BY <2>1
  <2>3. ListDoubled(l) \in 1 .. SizeMax /\ ListDoubled(l) > l.size
    BY <1>0, <2>1, GrownLarger
  <2>4. PICK n : n = ListDoubled(l)
    OBVIOUS
  <2>5. LiOK(g) /\ g.type = l.type /\ g.used = l.used /\ g.array = l.array /\ g.size = n
    BY <2>2, <2>3, <2>4 DEF LiOK
  <2>6. l.used < n
    <3>1. l.used <= l.size /\ n > l.size /\ n \in 1 .. SizeMax /\ SizeMax \in Nat
      BY <2>3, <2>4, ContainersAssumption
    <3> QED BY <1>0, <3>1
  <2> QED BY <2>5, <2>6
<1> QED BY <1>1, <1>2

\* The entry at i left out of the first u of a sequence.
LacksAt(t, s, i, n) == \A j \in 1 .. n : t[j] = IF j <= i THEN s[j] ELSE s[j + 1]

LEMMA ConcatIs ==
    ASSUME NEW S, NEW a \in Seq(S), NEW b \in Seq(S)
    PROVE  /\ Cat(a, b) \in Seq(S) /\ Len(Cat(a, b)) = Len(a) + Len(b)
           /\ \A j \in 1 .. Len(a) : Cat(a, b)[j] = a[j]
           /\ \A j \in 1 .. Len(b) : Cat(a, b)[Len(a) + j] = b[j]
BY DEF Cat

LEMMA PartIs ==
    ASSUME NEW S, NEW s \in Seq(S), NEW i \in Nat, NEW j \in Nat, i <= j, j <= Len(s)
    PROVE  /\ SubSeq(s, i + 1, j) \in Seq(S) /\ Len(SubSeq(s, i + 1, j)) = j - i
           /\ \A k \in 1 .. j - i : SubSeq(s, i + 1, j)[k] = s[i + k]
OBVIOUS

LEMMA FirstIs ==
    ASSUME NEW S, NEW s \in Seq(S), NEW j \in Nat, j <= Len(s)
    PROVE  /\ SubSeq(s, 1, j) \in Seq(S) /\ Len(SubSeq(s, 1, j)) = j
           /\ \A k \in 1 .. j : SubSeq(s, 1, j)[k] = s[k]
OBVIOUS

\* The two halves of a sequence around one entry.
LEMMA JoinAround ==
    ASSUME NEW S, NEW s \in Seq(S), NEW i \in Nat, NEW u \in Nat, i < u, u <= Len(s)
    PROVE  /\ Cat(SubSeq(s, 1, i), SubSeq(s, i + 2, u)) \in Seq(S)
           /\ Len(Cat(SubSeq(s, 1, i), SubSeq(s, i + 2, u))) = u - 1
           /\ LacksAt(Cat(SubSeq(s, 1, i), SubSeq(s, i + 2, u)), s, i, u - 1)
<1>0. PICK a : a = SubSeq(s, 1, i)
  OBVIOUS
<1>1. PICK b : b = SubSeq(s, i + 2, u)
  OBVIOUS
<1>2. PICK l : l = Len(s)
  OBVIOUS
<1>3. l \in Nat /\ i <= l /\ i + 1 <= u /\ u <= l /\ i + 1 \in Nat /\ (i + 1) + 1 = i + 2
  BY <1>2
<1>4. a \in Seq(S) /\ Len(a) = i /\ \A k \in 1 .. i : a[k] = s[k]
  BY <1>0, <1>2, <1>3, FirstIs
<1>5. b \in Seq(S) /\ Len(b) = u - (i + 1) /\ \A k \in 1 .. u - (i + 1) : b[k] = s[(i + 1) + k]
  <2>1. PICK d : d = i + 1
    OBVIOUS
  <2>2. b = SubSeq(s, d + 1, u) /\ d \in Nat /\ d <= u
    BY <1>1, <1>3, <2>1
  <2>3. b \in Seq(S) /\ Len(b) = u - d /\ \A k \in 1 .. u - d : b[k] = s[d + k]
    BY <1>2, <1>3, <2>2, PartIs
  <2> QED BY <2>1, <2>3
<1>6. PICK c : c = Cat(a, b)
  OBVIOUS
<1>7. c \in Seq(S) /\ Len(c) = Len(a) + Len(b) /\ (\A j \in 1 .. Len(a) : c[j] = a[j])
      /\ \A j \in 1 .. Len(b) : c[Len(a) + j] = b[j]
  <2>1. a \in Seq(S) /\ b \in Seq(S)
    BY <1>4, <1>5
  <2> QED BY <1>6, <2>1 DEF Cat
<1>8. Len(c) = u - 1
  BY <1>4, <1>5, <1>7
<1>9. ASSUME NEW j \in 1 .. u - 1 PROVE c[j] = IF j <= i THEN s[j] ELSE s[j + 1]
  <2>1. CASE j <= i
    BY <1>4, <1>7, <2>1
  <2>2. CASE ~(j <= i)
    <3>1. PICK k : k = j - i
      OBVIOUS
    <3>2. k \in 1 .. u - (i + 1) /\ i + k = j /\ (i + 1) + k = j + 1
      BY <2>2, <3>1
    <3>3. c[i + k] = b[k] /\ b[k] = s[(i + 1) + k]
      BY <1>4, <1>5, <1>7, <3>2
    <3> QED BY <2>2, <3>2, <3>3
  <2> QED BY <2>1, <2>2
<1> QED BY <1>0, <1>1, <1>6, <1>7, <1>8, <1>9 DEF LacksAt

LEMMA RemoveAtIs ==
    ASSUME NEW S, NEW s \in Seq(S), NEW i \in Nat, i < Len(s)
    PROVE  /\ RemoveAt(s, i + 1) \in Seq(S) /\ Len(RemoveAt(s, i + 1)) = Len(s) - 1
           /\ LacksAt(RemoveAt(s, i + 1), s, i, Len(s) - 1)
<1>1. PICK u : u = Len(s)
  OBVIOUS
<1>2. u \in Nat /\ i < u /\ u <= Len(s)
  BY <1>1
<1>3. RemoveAt(s, i + 1) = Cat(SubSeq(s, 1, i), SubSeq(s, i + 2, u))
  <2>1. (i + 1) - 1 = i /\ (i + 1) + 1 = i + 2
    OBVIOUS
  <2> QED BY <1>1, <2>1 DEF RemoveAt, Cat
<1>4. PICK c : c = Cat(SubSeq(s, 1, i), SubSeq(s, i + 2, u))
  OBVIOUS
<1>5. c \in Seq(S) /\ Len(c) = u - 1 /\ LacksAt(c, s, i, u - 1)
  BY <1>2, <1>4, JoinAround
<1> QED BY <1>1, <1>3, <1>4, <1>5

\* The array after a removal keeps its length.
LEMMA ShiftedIs ==
    ASSUME NEW S, NEW s \in Seq(S), NEW i \in Nat, NEW u \in Nat, i < u, u <= Len(s)
    PROVE  /\ Cat(Cat(SubSeq(s, 1, i), SubSeq(s, i + 2, u)), SubSeq(s, u, Len(s))) \in Seq(S)
           /\ Len(Cat(Cat(SubSeq(s, 1, i), SubSeq(s, i + 2, u)), SubSeq(s, u, Len(s)))) = Len(s)
           /\ LacksAt(Cat(Cat(SubSeq(s, 1, i), SubSeq(s, i + 2, u)), SubSeq(s, u, Len(s))), s, i, u - 1)
<1>1. PICK c : c = Cat(SubSeq(s, 1, i), SubSeq(s, i + 2, u))
  OBVIOUS
<1>2. c \in Seq(S) /\ Len(c) = u - 1 /\ LacksAt(c, s, i, u - 1)
  BY <1>1, JoinAround
<1>3. PICK d : d = SubSeq(s, u, Len(s))
  OBVIOUS
<1>4. PICK l : l = Len(s)
  OBVIOUS
<1>5. d \in Seq(S) /\ Len(d) = l - (u - 1)
  <2>1. PICK v : v = u - 1
    OBVIOUS
  <2>2. v \in Nat /\ v <= l /\ l \in Nat /\ v + 1 = u
    BY <1>4, <2>1
  <2>3. d = SubSeq(s, v + 1, l)
    BY <1>3, <1>4, <2>2
  <2>4. d \in Seq(S) /\ Len(d) = l - v
    BY <1>4, <2>2, <2>3, PartIs
  <2> QED BY <2>1, <2>4
<1>6. PICK e : e = Cat(c, d)
  OBVIOUS
<1>7. e \in Seq(S) /\ Len(e) = Len(c) + Len(d) /\ \A j \in 1 .. Len(c) : e[j] = c[j]
  BY <1>2, <1>5, <1>6, ConcatIs
<1>8. Len(e) = l
  <2>1. l \in Nat
    BY <1>4
  <2> QED BY <1>2, <1>5, <1>7, <2>1
<1>9. LacksAt(e, s, i, u - 1)
  BY <1>2, <1>7 DEF LacksAt
<1> QED BY <1>1, <1>3, <1>4, <1>6, <1>7, <1>8, <1>9

\* A sequence without repetitions has as many elements as entries.
LEMMA OnceCount ==
    ASSUME NEW S, NEW s \in Seq(S), Once(s)
    PROVE  IsFiniteSet(ToSet(s)) /\ Cardinality(ToSet(s)) = Len(s)
<1>1. PICK n : n = Len(s)
  OBVIOUS
<1>2. n \in Nat /\ s \in [1 .. n -> S] /\ DOMAIN s = 1 .. n
  BY <1>1
<1>3. PICK T : T = ToSet(s)
  OBVIOUS
<1>4. s \in [1 .. n -> T] /\ (\A t \in T : \E i \in 1 .. n : s[i] = t)
      /\ \A i, j \in 1 .. n : s[i] = s[j] => i = j
  BY <1>1, <1>2, <1>3 DEF ToSet, Once
<1>5. ExistsBijection(1 .. n, T)
  <2>1. s \in Injection(1 .. n, T)
    BY <1>4 DEF Injection, IsInjective
  <2>2. s \in Surjection(1 .. n, T)
    BY <1>4, Zenon DEF Surjection
  <2>3. s \in Bijection(1 .. n, T)
    BY <2>1, <2>2, Zenon DEF Bijection
  <2> QED BY <2>3, Zenon DEF ExistsBijection
<1>6. 1 \in Int /\ n \in Int /\ IsFiniteSet(1 .. n) /\ Cardinality(1 .. n) = n
  <2>1. IsFiniteSet(1 .. n) /\ Cardinality(1 .. n) = IF 1 > n THEN 0 ELSE n - 1 + 1
    BY <1>2, FS_Interval
  <2> QED BY <1>2, <2>1
<1>7. IsFiniteSet(T) /\ Cardinality(T) = Cardinality(1 .. n)
  BY <1>5, <1>6, FS_Bijection
<1> QED BY <1>1, <1>3, <1>6, <1>7

LEMMA ListAddStep ==
    ASSUME ListInv, NEW v \in Objects, ListAdd(v)
    PROVE  ListInv'
<1>0. /\ LiOK(li) /\ ~li.lost /\ liRef \in Seq(Slots) /\ objs \in [live : SUBSET Objects, doubly : {FALSE}]
      /\ (li.type = "POINTER" => v \notin objs.live)
  BY DEF ListInv, ListAdd
<1>1. /\ li.used = Len(liRef) /\ li.used <= li.size /\ li.used <= Len(li.array)
      /\ \A i \in 1 .. li.used : li.array[i] = liRef[i]
  BY <1>0 DEF ListInv, Shows
<1>2. PICK x : x = IF li.type = "POINTER" THEN v ELSE Cast(li.type, v)
  OBVIOUS
<1>3. x \in Slots
  <2>1. li.type \in ListTypes
    BY <1>0 DEF LiOK
  <2> QED BY <1>2, <2>1 DEF Slots
<1>4. PICK l \in ListGrown(li) :
          IF l.lost THEN li' = l /\ UNCHANGED <<liRef, objs>>
          ELSE /\ li' = WriteSlot(l, x) /\ liRef' = Append(liRef, x)
               /\ objs' = [objs EXCEPT !.live = IF li.type = "POINTER" THEN @ \cup {v} ELSE @]
  BY <1>2 DEF ListAdd
<1>5. LiOK(l) /\ l.type = li.type /\ l.used = li.used /\ l.array = li.array /\ (~l.lost => l.used < l.size)
  BY <1>0, <1>1, GrownList
<1>6. CASE l.lost
  BY <1>4, <1>5, <1>6 DEF ListInv, Shows, Kept
<1>7. CASE ~l.lost
  <2>1. /\ li' = WriteSlot(l, x) /\ liRef' = Append(liRef, x)
        /\ objs' = [objs EXCEPT !.live = IF li.type = "POINTER" THEN @ \cup {v} ELSE @]
    BY <1>4, <1>7
  <2>2. l.used < l.size /\ l.used = Len(liRef) /\ l.used <= Len(l.array)
        /\ \A i \in 1 .. l.used : l.array[i] = liRef[i]
    BY <1>1, <1>5, <1>7
  <2>3. LiOK(li') /\ li'.type = l.type /\ Shows(li', liRef')
    BY <1>0, <1>3, <1>5, <1>7, <2>1, <2>2, WriteSlotShows
  <2>4. liRef' \in Seq(Slots) /\ objs' \in [live : SUBSET Objects, doubly : {FALSE}]
    <3>1. liRef' \in Seq(Slots)
      BY <1>0, <1>3, <2>1
    <3>2. PICK y : y = IF li.type = "POINTER" THEN objs.live \cup {v} ELSE objs.live
      OBVIOUS
    <3>3. y \in SUBSET Objects /\ objs' = [objs EXCEPT !.live = y]
      BY <1>0, <2>1, <3>2
    <3>4. objs' \in [live : SUBSET Objects, doubly : {FALSE}]
      BY <1>0, <3>3
    <3> QED BY <3>1, <3>4
  <2>5. ASSUME li.type = "POINTER"
        PROVE  Once(liRef') /\ ToSet(liRef') \subseteq objs'.live
    <3>1. x = v /\ objs'.live = objs.live \cup {v} /\ v \notin objs.live
      BY <1>0, <1>2, <2>1, <2>5
    <3>2. Once(liRef) /\ ToSet(liRef) \subseteq objs.live
      BY <2>5 DEF ListInv, Kept
    <3>3. PICK n : n = Len(liRef)
      OBVIOUS
    <3>4. PICK t : t = Append(liRef, x)
      OBVIOUS
    <3>5. n \in Nat /\ Len(t) = n + 1 /\ t[n + 1] = v /\ (\A i \in 1 .. n : t[i] = liRef[i])
          /\ DOMAIN t = 1 .. n + 1 /\ DOMAIN liRef = 1 .. n
      BY <1>0, <1>3, <3>1, <3>3, <3>4
    <3>6. \A i \in 1 .. n : t[i] \in ToSet(liRef)
      BY <3>5 DEF ToSet
    <3>7. \A i \in 1 .. n : t[i] # v
      BY <3>1, <3>2, <3>6
    <3>8. ToSet(t) \subseteq objs.live \cup {v}
      <4>1. \A i \in 1 .. n + 1 : i \in 1 .. n \/ i = n + 1
        BY <3>5
      <4> QED BY <3>2, <3>5, <3>6, <4>1 DEF ToSet
    <3>9. Once(t)
      <4> SUFFICES ASSUME NEW i \in 1 .. n + 1, NEW j \in 1 .. n + 1, t[i] = t[j] PROVE i = j
        BY <3>5 DEF Once
      <4>1. (i \in 1 .. n \/ i = n + 1) /\ (j \in 1 .. n \/ j = n + 1)
        BY <3>5
      <4>2. CASE i \in 1 .. n /\ j \in 1 .. n
        BY <3>2, <3>3, <3>5, <4>2 DEF Once
      <4> QED BY <3>5, <3>7, <4>1, <4>2
    <3> QED BY <2>1, <3>1, <3>4, <3>8, <3>9
  <2> QED BY <1>5, <2>3, <2>4, <2>5 DEF ListInv, Kept
<1> QED BY <1>6, <1>7

LEMMA ListRemoveStep ==
    ASSUME ListInv, NEW i \in Nat, ListRemove(i)
    PROVE  ListInv'
<1>0. /\ LiOK(li) /\ ~li.lost /\ liRef \in Seq(Slots) /\ objs' = objs
      /\ i < li.used /\ li.used \in Nat /\ li.array \in Seq(Slots)
  BY DEF ListInv, ListRemove, LiOK
<1>1. /\ li.used = Len(liRef) /\ li.used <= li.size /\ li.used <= Len(li.array)
      /\ \A k \in 1 .. li.used : li.array[k] = liRef[k]
  BY <1>0 DEF ListInv, Shows
<1>2. PICK u : u = li.used
  OBVIOUS
<1>3. PICK s : s = li.array
  OBVIOUS
<1>4. PICK a : a = Cat(Cat(SubSeq(s, 1, i), SubSeq(s, i + 2, u)), SubSeq(s, u, Len(s)))
  OBVIOUS
<1>5. li' = [li EXCEPT !.array = a, !.used = u - 1]
  BY <1>2, <1>3, <1>4 DEF ListRemove, Cat
<1>6. a \in Seq(Slots) /\ Len(a) = Len(s) /\ LacksAt(a, s, i, u - 1)
  <2>1. s \in Seq(Slots) /\ u \in Nat /\ i < u /\ u <= Len(s)
    BY <1>0, <1>1, <1>2, <1>3
  <2> QED BY <1>4, <2>1, ShiftedIs
<1>7. PICK r : r = RemoveAt(liRef, i + 1)
  OBVIOUS
<1>8. r \in Seq(Slots) /\ Len(r) = u - 1 /\ LacksAt(r, liRef, i, u - 1)
  BY <1>0, <1>1, <1>2, <1>7, RemoveAtIs
<1>9. liRef' = r
  BY <1>7 DEF ListRemove
<1>10. PICK w : w = u - 1
  OBVIOUS
<1>11. u \in Nat /\ w \in Nat /\ w + 1 = u /\ i \in Nat
  BY <1>0, <1>2, <1>10
<1>12. LiOK(li') /\ li'.array = a /\ li'.used = w /\ li'.size = li.size /\ li'.type = li.type /\ ~li'.lost
  <2>1. li' = [li EXCEPT !.array = a, !.used = w]
    BY <1>5, <1>10
  <2>2. a \in Seq(Slots) /\ w \in Nat
    BY <1>6, <1>11
  <2> QED BY <1>0, <2>1, <2>2 DEF LiOK
<1>13. \A k \in 1 .. w : a[k] = r[k]
  <2> SUFFICES ASSUME NEW k \in 1 .. w PROVE a[k] = r[k]
    OBVIOUS
  <2>1. k \in 1 .. u /\ k + 1 \in 1 .. u
    BY <1>11
  <2>2. s[k] = liRef[k] /\ s[k + 1] = liRef[k + 1]
    BY <1>1, <1>2, <1>3, <2>1
  <2> QED BY <1>6, <1>8, <1>10, <2>2 DEF LacksAt
<1>14. w <= li.size /\ w <= Len(a)
  <2>1. li.size \in Nat /\ Len(s) \in Nat
    BY <1>0, <1>3 DEF LiOK
  <2>2. u <= li.size /\ u <= Len(s)
    BY <1>1, <1>2, <1>3
  <2> QED BY <1>6, <1>11, <2>1, <2>2
<1>15. Shows(li', liRef')
  BY <1>8, <1>9, <1>10, <1>12, <1>13, <1>14 DEF Shows
<1>16. ASSUME li.type = "POINTER" PROVE Once(r) /\ ToSet(r) \subseteq objs.live
  <2>1. Once(liRef) /\ ToSet(liRef) \subseteq objs.live
    BY <1>16 DEF ListInv, Kept
  <2>2. Len(liRef) = u /\ DOMAIN liRef = 1 .. u /\ Len(r) = w /\ DOMAIN r = 1 .. w
    BY <1>0, <1>1, <1>2, <1>8, <1>10
  <2>3. \A k \in 1 .. w : r[k] = liRef[IF k <= i THEN k ELSE k + 1] /\ (IF k <= i THEN k ELSE k + 1) \in 1 .. u
    BY <1>8, <1>10, <1>11 DEF LacksAt
  <2>4. ToSet(r) \subseteq ToSet(liRef)
    BY <2>2, <2>3 DEF ToSet
  <2>5. ASSUME NEW k \in 1 .. w, NEW m \in 1 .. w, r[k] = r[m] PROVE k = m
    <3>1. (IF k <= i THEN k ELSE k + 1) = (IF m <= i THEN m ELSE m + 1)
      BY <2>1, <2>2, <2>3, <2>5 DEF Once
    <3> QED BY <1>11, <3>1
  <2> QED BY <2>1, <2>2, <2>4, <2>5 DEF Once
<1> QED BY <1>0, <1>8, <1>9, <1>12, <1>15, <1>16 DEF ListInv, Kept

\* vtm_list_clear frees every object once: each of them is alive and in the
\* list once.
LEMMA ListClearStep ==
    ASSUME ListInv, ListClear
    PROVE  ListInv'
<1>0. /\ LiOK(li) /\ ~li.lost /\ liRef \in Seq(Slots) /\ objs \in [live : SUBSET Objects, doubly : {FALSE}]
      /\ li' = [li EXCEPT !.used = 0] /\ liRef' = <<>> /\ li.array \in Seq(Slots)
  BY DEF ListInv, ListClear, LiOK
<1>1. /\ li.used = Len(liRef) /\ li.used <= Len(li.array)
      /\ \A i \in 1 .. li.used : li.array[i] = liRef[i]
  BY <1>0 DEF ListInv, Shows
<1>2. LiOK(li') /\ li'.used = 0 /\ li'.size \in 1 .. SizeMax /\ li'.type = li.type /\ li'.array = li.array
  BY <1>0 DEF LiOK
<1>3. liRef' \in Seq(Slots) /\ Len(liRef') = 0
  BY <1>0
<1>4. Shows(li', liRef')
  <2>1. Len(li.array) \in Nat
    BY <1>0
  <2> QED BY <1>2, <1>3, <2>1 DEF Shows
<1>5. Once(liRef') /\ ToSet(liRef') = {}
  BY <1>3 DEF Once, ToSet
<1>6. objs' \in [live : SUBSET Objects, doubly : {FALSE}]
  <2>1. CASE ~li.fnFree
    BY <1>0, <2>1 DEF ListClear
  <2>2. CASE li.fnFree
    <3>1. PICK s : s = SubSeq(li.array, 1, li.used)
      OBVIOUS
    <3>2. s \in Seq(Slots) /\ Len(s) = li.used /\ \A i \in 1 .. li.used : s[i] = li.array[i]
      BY <1>0, <1>1, <3>1, FirstIs DEF LiOK
    <3>3. s = liRef
      BY <1>0, <1>1, <3>2, SeqEqual
    <3>4. Once(s) /\ ToSet(s) \subseteq objs.live
      BY <1>0, <2>2, <3>3 DEF ListInv, Kept, LiOK
    <3>5. Cardinality(ToSet(s)) = Len(s) /\ ToSet(s) \cap objs.live = ToSet(s)
      BY <3>2, <3>4, OnceCount
    <3>6. objs' = [live   |-> objs.live \ ToSet(s),
                   doubly |-> objs.doubly \/ Cardinality(ToSet(s) \cap objs.live) # Len(s)]
      BY <2>2, <3>1 DEF ListClear
    <3>7. (objs.doubly \/ Cardinality(ToSet(s) \cap objs.live) # Len(s)) = FALSE
      BY <1>0, <3>5
    <3> QED BY <1>0, <3>6, <3>7
  <2> QED BY <2>1, <2>2
<1> QED BY <1>2, <1>3, <1>4, <1>5, <1>6 DEF ListInv, Kept

LEMMA ObjFreeStep ==
    ASSUME ListInv, NEW o, ObjFree(o)
    PROVE  ListInv'
<1>1. UNCHANGED <<li, liRef>> /\ o \notin ToSet(liRef) /\ objs' = [objs EXCEPT !.live = @ \ {o}]
  BY DEF ObjFree
<1>2. objs \in [live : SUBSET Objects, doubly : {FALSE}]
  BY DEF ListInv
<1>3. objs' \in [live : SUBSET Objects, doubly : {FALSE}] /\ objs'.live = objs.live \ {o}
  BY <1>1, <1>2
<1>4. Kept(li, liRef, objs)'
  BY <1>1, <1>3 DEF ListInv, Kept
<1>5. Shows(li, liRef)' /\ LiOK(li') /\ liRef' \in Seq(Slots)
  BY <1>1 DEF ListInv, Shows
<1> QED BY <1>3, <1>4, <1>5 DEF ListInv

\* An array list is the sequence of what was added and not removed, for every
\* initial size, every element type, every SIZE_MAX and any number of entries
\* (vtm_list_add, vtm_list_remove, vtm_list_clear, vtm_list_grow).
THEOREM ListIsSequence == ListSpec => []ListAsSequence
<1>1. ListInit => ListInv
  BY ListInitInv
<1>2. ListInv /\ [ListNext]_listVars => ListInv'
  <2> SUFFICES ASSUME ListInv, [ListNext]_listVars PROVE ListInv'
    OBVIOUS
  <2>1. CASE UNCHANGED listVars
    BY <2>1 DEF listVars, ListInv, Shows, Kept
  <2>2. ASSUME NEW v \in Objects, ListAdd(v) PROVE ListInv'
    BY <2>2, ListAddStep
  <2>3. ASSUME NEW i \in 0 .. MaxList, ListRemove(i) PROVE ListInv'
    BY <2>3, ListRemoveStep
  <2>4. CASE ListClear
    BY <2>4, ListClearStep
  <2>5. ASSUME NEW o \in Objects, ObjFree(o) PROVE ListInv'
    BY <2>5, ObjFreeStep
  <2> QED BY <2>1, <2>2, <2>3, <2>4, <2>5 DEF ListNext
<1>3. ListInv => ListAsSequence
  <2> SUFFICES ASSUME ListInv PROVE ListAsSequence
    OBVIOUS
  <2>1. li.used \in Nat /\ ~objs.doubly
    BY DEF ListInv, LiOK
  <2>2. \A i \in 1 .. li.used : ListGet(li, i - 1) = li.array[i]
    BY <2>1 DEF ListGet
  <2> QED BY <2>1, <2>2 DEF ListInv, Shows, Kept, ListAsSequence
<1> QED BY <1>1, <1>2, <1>3, PTL DEF ListSpec

-----------------------------------------------------------------------------
(* The buffer. *)

Table(p, n) == n \in 0 .. SizeMax /\ p \in [0 .. n -> 1 .. SizeMax + 1] /\ DoubledTo(p, n)

\* The lengths a buffer may have: StaticLen doubled, and still a size_t.
LenOK(l) == \E n, p : Table(p, n) /\ \E a \in 0 .. n - 1 : l = p[a]

LEMMA TableBelow ==
    ASSUME NEW n, NEW p, Table(p, n), NEW a \in 0 .. n - 1
    PROVE  p[a] \in 1 .. SizeMax /\ a + 1 \in 0 .. n /\ p[a + 1] = 2 * p[a]
<1>1. n \in Nat /\ SizeMax \in Nat /\ p \in [0 .. n -> 1 .. SizeMax + 1]
  BY ContainersAssumption DEF Table
<1>2. a \in 0 .. n /\ a + 1 \in 1 .. n /\ a + 1 \in 0 .. n /\ (a + 1) - 1 = a
  BY <1>1
<1>3. p[a + 1] = 2 * p[a]
  <2>1. \A i \in 1 .. n : p[i] = 2 * p[i - 1]
    BY DEF Table, DoubledTo
  <2> QED BY <1>2, <2>1
<1>4. p[a] \in 1 .. SizeMax + 1 /\ p[a + 1] \in 1 .. SizeMax + 1
  BY <1>1, <1>2
<1>5. PICK x : x = p[a]
  OBVIOUS
<1>6. x \in Nat /\ x >= 1 /\ 2 * x <= SizeMax + 1
  BY <1>1, <1>3, <1>4, <1>5
<1>7. x \in 1 .. SizeMax
  BY <1>1, <1>6
<1> QED BY <1>2, <1>3, <1>5, <1>7

LEMMA StaticLenOK == LenOK(StaticLen)
<1>1. PICK n \in 0 .. SizeMax : \E p \in [0 .. n -> 1 .. SizeMax + 1] : DoubledTo(p, n)
  BY BufAssumption
<1>2. PICK p \in [0 .. n -> 1 .. SizeMax + 1] : DoubledTo(p, n)
  BY <1>1
<1>3. n # 0
  <2>1. p[0] = StaticLen /\ p[n] = SizeMax + 1 /\ StaticLen \in 1 .. SizeMax /\ SizeMax \in Nat
    BY <1>2, ContainersAssumption DEF DoubledTo
  <2> QED BY <2>1
<1>4. 0 \in 0 .. n - 1
  BY <1>3, ContainersAssumption
<1>5. p[0] = StaticLen
  BY <1>2 DEF DoubledTo
<1> QED BY <1>1, <1>2, <1>4, <1>5 DEF LenOK, Table

\* The lengths the loop of vtm_buf_grow goes through, and where it stops.
Doubles(f, old) == f = [i \in 0 .. SizeMax |-> IF i = 0 THEN old ELSE (f[i - 1] * 2) % (SizeMax + 1)]
Stops(f, old, target, i) ==
    (f[i] >= target \/ f[i] < old) /\ \A j \in 0 .. i - 1 : f[j] < target /\ f[j] >= old

LEMMA BufDoubledIs ==
    ASSUME NEW old, NEW target
    PROVE  LET f == CHOOSE f : Doubles(f, old)
           IN  BufDoubled(old, target) = f[CHOOSE i \in 0 .. SizeMax : Stops(f, old, target, i)]
BY DEF BufDoubled, Doubles, Stops

\* As long as it does not wrap the loop walks along the table; then it is 0.
Walk(p, n, a) == [i \in 0 .. SizeMax |-> IF a + i < n THEN p[a + i] ELSE 0]

LEMMA WalkDoubles ==
    ASSUME NEW n, NEW p, Table(p, n), NEW a \in 0 .. n - 1
    PROVE  Doubles(Walk(p, n, a), p[a])
<1>0. n \in Nat /\ SizeMax \in Nat /\ p[n] = SizeMax + 1
  BY ContainersAssumption DEF Table, DoubledTo
<1>1. PICK g : g = Walk(p, n, a)
  OBVIOUS
<1>2. g = [i \in 0 .. SizeMax |-> IF a + i < n THEN p[a + i] ELSE 0]
  BY <1>1 DEF Walk
<1>3. \A i \in 0 .. SizeMax : g[i] = IF a + i < n THEN p[a + i] ELSE 0
  BY <1>2
<1>4. ASSUME NEW i \in 0 .. SizeMax
      PROVE  (IF a + i < n THEN p[a + i] ELSE 0) = IF i = 0 THEN p[a] ELSE (g[i - 1] * 2) % (SizeMax + 1)
  <2>1. CASE i = 0
    BY <1>0, <2>1
  <2>2. CASE i # 0
    <3>0. PICK b : b = a + (i - 1)
      OBVIOUS
    <3>1. i - 1 \in 0 .. SizeMax /\ b \in Nat /\ a + i = b + 1
      BY <1>0, <2>2, <3>0
    <3>2. g[i - 1] = IF b < n THEN p[b] ELSE 0
      BY <1>3, <3>0, <3>1
    <3>3. PICK x : x = g[i - 1]
      OBVIOUS
    <3>4. CASE ~(b < n)
      <4>1. x = 0 /\ ~(a + i < n)
        BY <1>0, <3>1, <3>2, <3>3, <3>4
      <4>2. (0 * 2) % (SizeMax + 1) = 0
        BY <1>0
      <4> QED BY <2>2, <3>3, <4>1, <4>2
    <3>5. CASE b < n
      <4>1. b \in 0 .. n - 1 /\ x = p[b]
        BY <1>0, <3>1, <3>2, <3>3, <3>5
      <4>2. p[b] \in 1 .. SizeMax /\ b + 1 \in 0 .. n /\ p[b + 1] = 2 * p[b]
        BY <4>1, TableBelow
      <4>3. PICK y : y = x * 2
        OBVIOUS
      <4>4. y \in Nat /\ y < 2 * (SizeMax + 1) /\ y = p[b + 1]
        BY <1>0, <4>1, <4>2, <4>3
      <4>5. y % (SizeMax + 1) = IF y <= SizeMax THEN y ELSE y - (SizeMax + 1)
        BY <1>0, <4>4, WrapOnce
      <4>6. CASE b + 1 < n
        <5>1. b + 1 \in 0 .. n - 1
          BY <1>0, <3>1, <4>6
        <5>2. p[b + 1] \in 1 .. SizeMax
          BY <5>1, TableBelow
        <5>3. y <= SizeMax
          BY <1>0, <4>4, <5>2
        <5> QED BY <2>2, <3>1, <3>3, <4>3, <4>4, <4>5, <4>6, <5>3
      <4>7. CASE ~(b + 1 < n)
        <5>1. b + 1 = n
          BY <1>0, <4>1, <4>7
        <5>2. y = SizeMax + 1
          BY <1>0, <4>4, <5>1
        <5>3. y % (SizeMax + 1) = 0
          BY <1>0, <4>5, <5>2
        <5> QED BY <2>2, <3>1, <3>3, <4>3, <4>7, <5>3
      <4> QED BY <4>6, <4>7
    <3> QED BY <3>4, <3>5
  <2> QED BY <2>1, <2>2
<1>5. g = [i \in 0 .. SizeMax |-> IF i = 0 THEN p[a] ELSE (g[i - 1] * 2) % (SizeMax + 1)]
  BY <1>2, <1>4, Zenon
<1> QED BY <1>1, <1>5 DEF Doubles

LEMMA DoublesUnique ==
    ASSUME NEW f, NEW g, NEW old, Doubles(f, old), Doubles(g, old)
    PROVE  \A i \in 0 .. SizeMax : f[i] = g[i]
<1>0. SizeMax \in Nat
  BY ContainersAssumption
<1> DEFINE Q == {i \in Nat : i <= SizeMax => f[i] = g[i]}
<1>1. 0 \in Q
  <2>1. 0 \in 0 .. SizeMax
    BY <1>0
  <2>2. f[0] = old /\ g[0] = old
    BY <2>1 DEF Doubles
  <2> QED BY <2>2
<1>2. ASSUME NEW i \in Nat, i \in Q PROVE i + 1 \in Q
  <2> SUFFICES ASSUME i + 1 <= SizeMax PROVE f[i + 1] = g[i + 1]
    OBVIOUS
  <2>1. f[i] = g[i]
    BY <1>0, <1>2
  <2>2. PICK k : k = i + 1
    OBVIOUS
  <2>3. k \in 0 .. SizeMax /\ k # 0 /\ k - 1 = i
    BY <1>0, <2>2
  <2>4. f[k] = (f[i] * 2) % (SizeMax + 1)
    <3>1. f[k] = IF k = 0 THEN old ELSE (f[k - 1] * 2) % (SizeMax + 1)
      BY <2>3, Zenon DEF Doubles
    <3> QED BY <2>3, <3>1
  <2>5. g[k] = (g[i] * 2) % (SizeMax + 1)
    <3>1. g[k] = IF k = 0 THEN old ELSE (g[k - 1] * 2) % (SizeMax + 1)
      BY <2>3, Zenon DEF Doubles
    <3> QED BY <2>3, <3>1
  <2> QED BY <2>1, <2>2, <2>4, <2>5
<1>3. Nat \subseteq Q
  <2> HIDE DEF Q
  <2> QED BY <1>1, <1>2, SetInduction
<1> QED BY <1>0, <1>3

\* vtm_buf_grow either sees that the length wrapped or leaves one that is large
\* enough.
LEMMA BufDoubledGrows ==
    ASSUME NEW old, LenOK(old), NEW target \in 0 .. SizeMax
    PROVE  /\ BufDoubled(old, target) \in Nat
           /\ BufDoubled(old, target) >= old => BufDoubled(old, target) >= target /\ LenOK(BufDoubled(old, target))
<1>0. PICK n, p : Table(p, n) /\ \E a \in 0 .. n - 1 : old = p[a]
  BY DEF LenOK
<1>1. PICK a \in 0 .. n - 1 : old = p[a]
  BY <1>0
<1>2. n \in 0 .. SizeMax /\ SizeMax \in Nat /\ Table(p, n)
  BY <1>0, ContainersAssumption DEF Table
<1>3. old \in 1 .. SizeMax
  BY <1>0, <1>1, TableBelow
<1>4. PICK g : g = Walk(p, n, a)
  OBVIOUS
<1>5. Doubles(g, old)
  BY <1>0, <1>1, <1>4, WalkDoubles
<1>6. PICK f : f = CHOOSE h : Doubles(h, old)
  OBVIOUS
<1>7. Doubles(f, old)
  BY <1>5, <1>6
<1>8. \A i \in 0 .. SizeMax : f[i] = g[i]
  BY <1>5, <1>7, DoublesUnique
<1>9. \A i \in 0 .. SizeMax : f[i] = IF a + i < n THEN p[a + i] ELSE 0
  BY <1>4, <1>8 DEF Walk
<1>10. \A i \in 0 .. SizeMax : f[i] \in Nat /\ (f[i] >= old => LenOK(f[i]))
  <2> SUFFICES ASSUME NEW i \in 0 .. SizeMax PROVE f[i] \in Nat /\ (f[i] >= old => LenOK(f[i]))
    OBVIOUS
  <2>1. CASE a + i < n
    <3>1. PICK b : b = a + i
      OBVIOUS
    <3>2. b \in 0 .. n - 1 /\ f[i] = p[b]
      BY <1>2, <1>9, <2>1, <3>1
    <3>3. p[b] \in 1 .. SizeMax
      BY <1>2, <3>2, TableBelow
    <3> QED BY <1>2, <3>2, <3>3 DEF LenOK
  <2>2. CASE ~(a + i < n)
    BY <1>2, <1>3, <1>9, <2>2
  <2> QED BY <2>1, <2>2
<1>11. \E i \in 0 .. SizeMax : Stops(f, old, target, i)
  <2> DEFINE T == {i \in 0 .. SizeMax : f[i] >= target \/ f[i] < old}
  <2>1. n - a \in T
    <3>1. n - a \in 0 .. SizeMax /\ ~(a + (n - a) < n)
      BY <1>2
    <3>2. f[n - a] = 0
      BY <1>9, <3>1
    <3> QED BY <1>3, <3>1, <3>2
  <2>2. T \subseteq Nat /\ T # {}
    BY <1>2, <2>1
  <2> HIDE DEF T
  <2>3. PICK i \in T : \A j \in T : i <= j
    BY <2>2, LeastNat
  <2>4. i \in 0 .. SizeMax /\ (f[i] >= target \/ f[i] < old)
    BY <2>3 DEF T
  <2>5. ASSUME NEW j \in 0 .. i - 1 PROVE f[j] < target /\ f[j] >= old
    <3>1. j \in 0 .. SizeMax /\ ~(i <= j)
      BY <1>2, <2>4
    <3>2. j \notin T
      BY <2>3, <3>1
    <3>3. ~(f[j] >= target \/ f[j] < old)
      BY <3>1, <3>2 DEF T
    <3>4. f[j] \in Nat
      BY <1>10, <3>1
    <3> QED BY <1>3, <3>3, <3>4
  <2> QED BY <2>4, <2>5 DEF Stops
<1>12. PICK k : k = CHOOSE i \in 0 .. SizeMax : Stops(f, old, target, i)
  OBVIOUS
<1>13. k \in 0 .. SizeMax /\ Stops(f, old, target, k)
  BY <1>11, <1>12
<1>14. BufDoubled(old, target) = f[k]
  BY <1>6, <1>12, BufDoubledIs
<1>15. f[k] >= target \/ f[k] < old
  BY <1>13 DEF Stops
<1>16. f[k] \in Nat /\ (f[k] >= old => LenOK(f[k]))
  BY <1>10, <1>13
<1>17. f[k] >= old => f[k] >= target
  BY <1>3, <1>15, <1>16
<1> QED BY <1>14, <1>16, <1>17

\* Every length of a buffer.
LEMMA LenBelow ==
    ASSUME NEW l, LenOK(l)
    PROVE  l \in 1 .. SizeMax
BY TableBelow DEF LenOK

Places == {"sdata", "heap", "NULL", "crash"}
BfOK(b) ==
    /\ b \in [order : Orders, place : Places, data : Seq({0, 1}), len : Nat, read : Nat, err : BOOLEAN]
    /\ LenOK(b.len) /\ Len(b.data) <= b.len /\ b.read <= Len(b.data)
    /\ b.place = "sdata" => b.len = StaticLen

\* Only the memory of the buffer has changed.
SameData(b, c) == c.order = b.order /\ c.data = b.data /\ c.read = b.read

\* However vtm_buf_ensure ends the bytes stay, and if it reports no error there
\* is room for n more.
LEMMA BufEnsuredIs ==
    ASSUME NEW b, BfOK(b), NEW n \in 0 .. SizeMax, NEW c \in BufEnsured(b, n)
    PROVE  BfOK(c) /\ SameData(b, c) /\ (~c.err => Len(b.data) + n <= c.len)
<1>0. PICK l : l = b.len
  OBVIOUS
<1>1. PICK u : u = Len(b.data)
  OBVIOUS
<1>2. /\ l \in 1 .. SizeMax /\ SizeMax \in Nat /\ u \in Nat /\ u <= l /\ LenOK(l)
      /\ b \in [order : Orders, place : Places, data : Seq({0, 1}), len : Nat, read : Nat, err : BOOLEAN]
  <2>1. SizeMax \in Nat /\ LenOK(b.len) /\ Len(b.data) <= b.len /\ b.data \in Seq({0, 1})
        /\ b \in [order : Orders, place : Places, data : Seq({0, 1}), len : Nat, read : Nat, err : BOOLEAN]
    BY ContainersAssumption DEF BfOK
  <2>2. Len(b.data) \in Nat
    BY <2>1
  <2> QED BY <1>0, <1>1, <2>1, <2>2, LenBelow
<1>3. CASE PutAvail(b, n)
  <2>1. c = b
    BY <1>3 DEF BufEnsured
  <2>2. PICK e : e = (u + n) % (SizeMax + 1)
    OBVIOUS
  <2>3. e <= l /\ e >= u
    BY <1>0, <1>1, <1>3, <2>2 DEF PutAvail, Used
  <2>4. PICK s : s = u + n
    OBVIOUS
  <2>5. s \in Nat /\ s < 2 * (SizeMax + 1)
    BY <1>2, <2>4
  <2>6. s % (SizeMax + 1) = IF s <= SizeMax THEN s ELSE s - (SizeMax + 1)
    BY <1>2, <2>5, WrapOnce
  <2>7. u + n <= l
    <3>1. e = IF s <= SizeMax THEN s ELSE s - (SizeMax + 1)
      BY <2>2, <2>4, <2>6
    <3> QED BY <1>2, <2>3, <2>4, <3>1
  <2> QED BY <1>0, <1>1, <2>1, <2>7 DEF SameData
<1>4. CASE ~PutAvail(b, n)
  <2>0. c \in BufGrown(b, n)
    BY <1>4 DEF BufEnsured
  <2>1. CASE b.err
    <3>1. c = b
      BY <2>0, <2>1 DEF BufGrown
    <3> QED BY <2>1, <3>1 DEF SameData
  <2>2. CASE ~b.err
    <3>1. PICK target : target = (l + n) % (SizeMax + 1)
      OBVIOUS
    <3>2. PICK new : new = BufDoubled(l, target)
      OBVIOUS
    <3>3. PICK failed : failed = [b EXCEPT !.err = TRUE]
      OBVIOUS
    <3>4. c \in IF target < l \/ new < l THEN {failed}
                ELSE {[b EXCEPT !.place = "heap", !.len = new],
                      [failed EXCEPT !.place = IF @ = "sdata" THEN "NULL" ELSE @]}
      BY <1>0, <2>0, <2>2, <3>1, <3>2, <3>3 DEF BufGrown
    <3>5. BfOK(failed) /\ SameData(b, failed) /\ failed.err /\ failed.len = l
      BY <1>0, <1>2, <3>3 DEF BfOK, SameData
    <3>6. PICK s : s = l + n
      OBVIOUS
    <3>7. s \in Nat /\ s < 2 * (SizeMax + 1)
      BY <1>2, <3>6
    <3>8. s % (SizeMax + 1) = IF s <= SizeMax THEN s ELSE s - (SizeMax + 1)
      BY <1>2, <3>7, WrapOnce
    <3>9. target = (IF s <= SizeMax THEN s ELSE s - (SizeMax + 1)) /\ target \in 0 .. SizeMax
      <4>1. target = IF s <= SizeMax THEN s ELSE s - (SizeMax + 1)
        BY <3>1, <3>6, <3>8
      <4> QED BY <1>2, <3>7, <4>1
    <3>10. new \in Nat /\ (new >= l => new >= target /\ LenOK(new))
      BY <1>2, <3>2, <3>9, BufDoubledGrows
    <3>11. CASE target < l \/ new < l
      BY <3>4, <3>5, <3>11
    <3>12. CASE ~(target < l \/ new < l)
      <4>1. target = l + n /\ new >= l
        BY <1>2, <3>6, <3>9, <3>10, <3>12
      <4>2. new >= l + n /\ LenOK(new) /\ new >= u + n /\ u <= new
        BY <1>2, <3>10, <4>1
      <4>3. CASE c = [b EXCEPT !.place = "heap", !.len = new]
        <5>1. /\ c.place = "heap" /\ c.len = new /\ SameData(b, c)
              /\ c \in [order : Orders, place : Places, data : Seq({0, 1}), len : Nat, read : Nat, err : BOOLEAN]
          BY <1>2, <3>10, <4>3 DEF SameData, Places
        <5>2. Len(c.data) = u /\ c.read <= Len(c.data)
          BY <1>1, <5>1 DEF SameData, BfOK
        <5>3. BfOK(c)
          BY <4>2, <5>1, <5>2 DEF BfOK
        <5> QED BY <1>1, <4>2, <5>1, <5>3
      <4>4. CASE c = [failed EXCEPT !.place = IF @ = "sdata" THEN "NULL" ELSE @]
        <5>1. PICK q : q = IF failed.place = "sdata" THEN "NULL" ELSE failed.place
          OBVIOUS
        <5>2. q \in Places /\ q # "sdata" /\ c = [failed EXCEPT !.place = q]
          BY <3>5, <4>4, <5>1 DEF BfOK, Places
        <5>3. BfOK(c) /\ SameData(b, c) /\ c.err
          BY <3>5, <5>2 DEF BfOK, SameData
        <5> QED BY <5>3
      <4> QED BY <3>4, <3>12, <4>3, <4>4
    <3> QED BY <3>11, <3>12
  <2> QED BY <2>1, <2>2
<1> QED BY <1>3, <1>4

-----------------------------------------------------------------------------
(* Bytes in two orders. *)

Bit == {0, 1}

LEMMA ReverseIs ==
    ASSUME NEW s \in Seq(Bit)
    PROVE  Reverse(s) \in Seq(Bit) /\ Len(Reverse(s)) = Len(s) /\ Reverse(Reverse(s)) = s
<1>1. PICK n : n = Len(s)
  OBVIOUS
<1>2. n \in Nat /\ s \in [1 .. n -> Bit]
  BY <1>1
<1>3. \A i \in 1 .. n : (n - i) + 1 \in 1 .. n /\ (n - ((n - i) + 1)) + 1 = i
  BY <1>2
<1>4. PICK t : t = Reverse(s)
  OBVIOUS
<1>5. t = [i \in 1 .. n |-> s[(n - i) + 1]]
  BY <1>1, <1>4 DEF Reverse
<1>6. t \in Seq(Bit) /\ Len(t) = n /\ \A i \in 1 .. n : t[i] = s[(n - i) + 1]
  BY <1>2, <1>3, <1>5
<1>7. PICK r : r = Reverse(t)
  OBVIOUS
<1>8. r = [i \in 1 .. n |-> t[(n - i) + 1]]
  BY <1>6, <1>7 DEF Reverse
<1>9. \A i \in 1 .. n : t[(n - i) + 1] = s[i]
  <2> SUFFICES ASSUME NEW i \in 1 .. n PROVE t[(n - i) + 1] = s[i]
    OBVIOUS
  <2>1. PICK j : j = (n - i) + 1
    OBVIOUS
  <2>2. j \in 1 .. n /\ (n - j) + 1 = i
    BY <1>2, <2>1
  <2> QED BY <1>6, <2>1, <2>2
<1>10. r \in Seq(Bit) /\ Len(r) = n /\ \A i \in 1 .. n : r[i] = s[i]
  BY <1>2, <1>8, <1>9
<1>11. r = s
  BY <1>1, <1>10, SeqEqual
<1> QED BY <1>1, <1>4, <1>6, <1>7, <1>11

\* What puto writes is the value in the order of the buffer, and geto turns it
\* into the order that is asked for.
LEMMA OrdersAgree ==
    ASSUME NEW v \in Seq(Bit), NEW own \in Orders, NEW other \in Orders
    PROVE  /\ (IF own = other THEN ValueBytes(v, other) ELSE Reverse(ValueBytes(v, other))) = ValueBytes(v, own)
           /\ ValueBytes(v, own) \in Seq(Bit) /\ Len(ValueBytes(v, own)) = Len(v)
<1>1. Reverse(v) \in Seq(Bit) /\ Len(Reverse(v)) = Len(v) /\ Reverse(Reverse(v)) = v
  BY ReverseIs
<1> QED BY <1>1 DEF ValueBytes, Orders

LEMMA GotAgrees ==
    ASSUME NEW v \in Seq(Bit), NEW own \in Orders, NEW other \in Orders
    PROVE  (IF own = other THEN v ELSE Reverse(v)) = ValueBytes(IF own = "BE" THEN v ELSE Reverse(v), other)
<1>1. Reverse(Reverse(v)) = v
  BY ReverseIs
<1> QED BY <1>1 DEF ValueBytes, Orders

-----------------------------------------------------------------------------
(* The unread part of the bytes. *)

Unread(d, r) == SubSeq(d, r + 1, Len(d))

LEMMA UnreadIs ==
    ASSUME NEW d \in Seq(Bit), NEW r \in Nat, r <= Len(d)
    PROVE  /\ Unread(d, r) \in Seq(Bit) /\ Len(Unread(d, r)) = Len(d) - r
           /\ \A i \in 1 .. Len(d) - r : Unread(d, r)[i] = d[r + i]
BY DEF Unread

LEMMA UnreadGrows ==
    ASSUME NEW d \in Seq(Bit), NEW r \in Nat, r <= Len(d), NEW x \in Seq(Bit)
    PROVE  Unread(Cat(d, x), r) = Cat(Unread(d, r), x)
<1>1. PICK e : e = Cat(d, x)
  OBVIOUS
<1>2. PICK l : l = Len(d)
  OBVIOUS
<1>3. PICK k : k = Len(x)
  OBVIOUS
<1>4. l \in Nat /\ k \in Nat /\ r <= l
  BY <1>2, <1>3
<1>5. e \in Seq(Bit) /\ Len(e) = l + k /\ \A i \in 1 .. l + k : e[i] = IF i <= l THEN d[i] ELSE x[i - l]
  BY <1>1, <1>2, <1>3 DEF Cat
<1>6. PICK a : a = Unread(d, r)
  OBVIOUS
<1>7. a \in Seq(Bit) /\ Len(a) = l - r /\ \A i \in 1 .. l - r : a[i] = d[r + i]
  BY <1>2, <1>6, UnreadIs
<1>8. PICK b : b = Cat(a, x)
  OBVIOUS
<1>9. b \in Seq(Bit) /\ Len(b) = Len(a) + k /\ \A i \in 1 .. Len(a) + k : b[i] = IF i <= Len(a) THEN a[i] ELSE x[i - Len(a)]
  <2>1. a \in Seq(Bit)
    BY <1>7
  <2> QED BY <1>3, <1>8, <2>1 DEF Cat
<1>10. PICK c : c = Unread(e, r)
  OBVIOUS
<1>11. c \in Seq(Bit) /\ Len(c) = (l + k) - r /\ \A i \in 1 .. (l + k) - r : c[i] = e[r + i]
  <2>1. r <= Len(e)
    BY <1>4, <1>5
  <2>2. c \in Seq(Bit) /\ Len(c) = Len(e) - r /\ \A i \in 1 .. Len(e) - r : c[i] = e[r + i]
    BY <1>5, <1>10, <2>1, UnreadIs
  <2> QED BY <1>5, <2>2
<1>12. Len(b) = Len(c)
  BY <1>4, <1>7, <1>9, <1>11
<1>13. ASSUME NEW i \in 1 .. Len(c) PROVE c[i] = b[i]
  <2>1. i \in 1 .. (l + k) - r /\ r + i \in 1 .. l + k
    BY <1>4, <1>11
  <2>2. c[i] = IF r + i <= l THEN d[r + i] ELSE x[(r + i) - l]
    BY <1>5, <1>11, <2>1
  <2>3. b[i] = IF i <= l - r THEN a[i] ELSE x[i - (l - r)]
    <3>1. i \in 1 .. Len(a) + k
      BY <1>9, <1>12
    <3> QED BY <1>7, <1>9, <3>1
  <2>4. CASE i <= l - r
    <3>1. r + i <= l /\ i \in 1 .. l - r
      BY <1>4, <2>1, <2>4
    <3> QED BY <1>7, <2>2, <2>3, <2>4, <3>1
  <2>5. CASE ~(i <= l - r)
    <3>1. ~(r + i <= l) /\ (r + i) - l = i - (l - r)
      BY <1>4, <2>1, <2>5
    <3> QED BY <2>2, <2>3, <2>5, <3>1
  <2> QED BY <2>4, <2>5
<1>14. c = b
  BY <1>9, <1>11, <1>12, <1>13, SeqEqual
<1> QED BY <1>1, <1>6, <1>8, <1>10, <1>14

\* What is got next, and what is unread behind it.
LEMMA UnreadSplit ==
    ASSUME NEW d \in Seq(Bit), NEW r \in Nat, NEW n \in Nat, r + n <= Len(d)
    PROVE  /\ SubSeq(d, r + 1, r + n) = SubSeq(Unread(d, r), 1, n)
           /\ SubSeq(d, r + 1, r + n) \in Seq(Bit)
           /\ SubSeq(Unread(d, r), n + 1, Len(Unread(d, r))) = Unread(d, r + n)
<1>0. PICK l : l = Len(d)
  OBVIOUS
<1>1. l \in Nat /\ r <= l /\ r + n <= l /\ r + n \in Nat /\ n <= l - r
  BY <1>0
<1>2. PICK a : a = Unread(d, r)
  OBVIOUS
<1>3. a \in Seq(Bit) /\ Len(a) = l - r /\ \A i \in 1 .. l - r : a[i] = d[r + i]
  BY <1>0, <1>1, <1>2, UnreadIs
<1>4. PICK s : s = SubSeq(d, r + 1, r + n)
  OBVIOUS
<1>5. s \in Seq(Bit) /\ Len(s) = n /\ \A i \in 1 .. n : s[i] = d[r + i]
  BY <1>0, <1>1, <1>4
<1>6. PICK t : t = SubSeq(a, 1, n)
  OBVIOUS
<1>7. t \in Seq(Bit) /\ Len(t) = n /\ \A i \in 1 .. n : t[i] = a[i]
  <2>1. a \in Seq(Bit) /\ n <= Len(a)
    BY <1>1, <1>3
  <2> QED BY <1>6, <2>1
<1>8. s = t
  <2>1. \A i \in 1 .. n : i \in 1 .. l - r
    BY <1>1
  <2>2. \A i \in 1 .. Len(s) : s[i] = t[i]
    BY <1>3, <1>5, <1>7, <2>1
  <2> QED BY <1>5, <1>7, <2>2, SeqEqual
<1>9. PICK b : b = Unread(a, n)
  OBVIOUS
<1>10. b \in Seq(Bit) /\ Len(b) = (l - r) - n /\ \A i \in 1 .. (l - r) - n : b[i] = a[n + i]
  <2>1. a \in Seq(Bit) /\ n <= Len(a) /\ Len(a) = l - r
    BY <1>1, <1>3
  <2>2. b \in Seq(Bit) /\ Len(b) = Len(a) - n /\ \A i \in 1 .. Len(a) - n : b[i] = a[n + i]
    BY <1>9, <2>1, UnreadIs
  <2> QED BY <2>1, <2>2
<1>11. PICK m : m = r + n
  OBVIOUS
<1>12. PICK c : c = Unread(d, m)
  OBVIOUS
<1>13. c \in Seq(Bit) /\ Len(c) = l - m /\ \A i \in 1 .. l - m : c[i] = d[m + i]
  BY <1>0, <1>1, <1>11, <1>12, UnreadIs
<1>14. b = c
  <2>1. (l - r) - n = l - m
    BY <1>1, <1>11
  <2>2. \A i \in 1 .. l - m : n + i \in 1 .. l - r /\ r + (n + i) = m + i
    BY <1>1, <1>11
  <2>3. \A i \in 1 .. l - m : b[i] = c[i]
    BY <1>3, <1>10, <1>13, <2>1, <2>2
  <2> QED BY <1>10, <1>13, <2>1, <2>3, SeqEqual
<1>15. b = SubSeq(a, n + 1, Len(a))
  BY <1>9 DEF Unread
<1> QED BY <1>2, <1>4, <1>5, <1>6, <1>8, <1>11, <1>12, <1>14, <1>15

-----------------------------------------------------------------------------
(* The steps of the buffer. *)

BufInv == BfOK(bf) /\ bfRef = Unread(bf.data, bf.read) /\ bfGot.got = bfGot.want

LEMMA BfParts ==
    ASSUME NEW b, BfOK(b)
    PROVE  /\ b.order \in Orders /\ b.data \in Seq(Bit) /\ b.len \in Nat /\ b.read \in Nat
           /\ Len(b.data) \in Nat /\ Len(b.data) <= b.len /\ b.read <= Len(b.data)
<1>1. b.order \in Orders /\ b.data \in Seq(Bit) /\ b.len \in Nat /\ b.read \in Nat
      /\ Len(b.data) <= b.len /\ b.read <= Len(b.data)
  BY DEF BfOK, Bit
<1>2. Len(b.data) \in Nat
  BY <1>1
<1> QED BY <1>1, <1>2

\* New bytes in the same memory.
Refilled(b, d, r, e) == [b EXCEPT !.data = d, !.read = r, !.err = e]

LEMMA BfNew ==
    ASSUME NEW b, BfOK(b), NEW d \in Seq(Bit), NEW r \in Nat, NEW e \in BOOLEAN, Len(d) <= b.len,
           r <= Len(d)
    PROVE  BfOK(Refilled(b, d, r, e)) /\ Refilled(b, d, r, e).data = d /\ Refilled(b, d, r, e).read = r
BY DEF BfOK, Bit, Refilled

\* The same record with one field or two named.
LEMMA BfFields ==
    ASSUME NEW b, BfOK(b), NEW d, NEW r
    PROVE  /\ [b EXCEPT !.data = d] = Refilled(b, d, b.read, b.err)
           /\ [b EXCEPT !.data = d, !.read = r] = Refilled(b, d, r, b.err)
           /\ b.err \in BOOLEAN
BY DEF BfOK, Refilled

LEMMA BufPutStep ==
    ASSUME BufInv, NEW v \in Seq(Bit), Len(v) \in 0 .. SizeMax, NEW src \in Orders, BufPut(v, src)
    PROVE  BufInv'
<1>0. BfOK(bf) /\ bfRef = Unread(bf.data, bf.read) /\ bfGot' = bfGot /\ bfGot.got = bfGot.want
  BY DEF BufInv, BufPut, Untouched
<1>1. PICK b \in BufEnsured(bf, Len(v)) :
          IF b.err THEN bf' = b /\ UNCHANGED bfRef
          ELSE LET s == ValueBytes(v, src)
               IN  IF b.place = "NULL" THEN bf' = [b EXCEPT !.place = "crash"] /\ UNCHANGED bfRef
                   ELSE /\ bf' = [b EXCEPT !.data = @ \o (IF b.order = src THEN s ELSE Reverse(s))]
                        /\ bfRef' = bfRef \o ValueBytes(v, bf.order)
  BY DEF BufPut
<1>2. BfOK(b) /\ SameData(bf, b) /\ (~b.err => Len(bf.data) + Len(v) <= b.len)
  BY <1>0, BufEnsuredIs
<1>3. CASE b.err
  BY <1>0, <1>1, <1>2, <1>3 DEF BufInv, SameData
<1>4. CASE ~b.err /\ b.place = "NULL"
  <2>1. bf' = [b EXCEPT !.place = "crash"] /\ UNCHANGED bfRef
    BY <1>1, <1>4
  <2>2. PICK c : c = [b EXCEPT !.place = "crash"]
    OBVIOUS
  <2>3. BfOK(c) /\ SameData(b, c)
    BY <1>2, <2>2 DEF BfOK, SameData, Places
  <2> QED BY <1>0, <1>2, <2>1, <2>2, <2>3 DEF BufInv, SameData
<1>5. CASE ~b.err /\ b.place # "NULL"
  <2>1. PICK x : x = ValueBytes(v, bf.order)
    OBVIOUS
  <2>2. bf.order \in Orders /\ bf.data \in Seq(Bit) /\ bf.read \in Nat /\ Len(bf.data) \in Nat
        /\ bf.read <= Len(bf.data)
    BY <1>0, BfParts
  <2>3. x \in Seq(Bit) /\ Len(x) = Len(v)
        /\ (IF bf.order = src THEN ValueBytes(v, src) ELSE Reverse(ValueBytes(v, src))) = x
    BY <2>1, <2>2, OrdersAgree
  <2>4. PICK d : d = Cat(bf.data, x)
    OBVIOUS
  <2>5. bf' = [b EXCEPT !.data = d] /\ bfRef' = Cat(bfRef, x)
    BY <1>1, <1>2, <1>5, <2>1, <2>3, <2>4 DEF SameData, Cat
  <2>6. d \in Seq(Bit) /\ Len(d) = Len(bf.data) + Len(x)
    <3>1. PICK z : z = bf.data
      OBVIOUS
    <3>2. z \in Seq(Bit) /\ x \in Seq(Bit)
      BY <2>2, <2>3, <3>1
    <3>3. Cat(z, x) \in Seq(Bit) /\ Len(Cat(z, x)) = Len(z) + Len(x)
      BY <3>2 DEF Cat
    <3> QED BY <2>4, <3>1, <3>3
  <2>7. bf' = Refilled(b, d, b.read, b.err) /\ b.err \in BOOLEAN
    BY <1>2, <2>5, BfFields
  <2>8. b.read = bf.read /\ b.order = bf.order
    BY <1>2 DEF SameData
  <2>9. Len(d) <= b.len /\ bf.read <= Len(d)
    <3>1. PICK k : k = Len(x)
      OBVIOUS
    <3>2. k \in Nat /\ Len(bf.data) + k <= b.len /\ Len(d) = Len(bf.data) + k
      BY <1>2, <1>5, <2>3, <2>6, <3>1
    <3> QED BY <2>2, <3>2
  <2>10. BfOK(bf') /\ bf'.data = d /\ bf'.read = bf.read
    <3>2. PICK q : q = b.read
      OBVIOUS
    <3>3. PICK e : e = b.err
      OBVIOUS
    <3>4. bf' = Refilled(b, d, q, e) /\ q \in Nat /\ e \in BOOLEAN /\ q <= Len(d) /\ q = bf.read
      BY <2>2, <2>7, <2>8, <2>9, <3>2, <3>3
    <3>5. BfOK(Refilled(b, d, q, e)) /\ Refilled(b, d, q, e).data = d /\ Refilled(b, d, q, e).read = q
      <4>1. /\ BfOK(b) /\ d \in Seq(Bit) /\ q \in Nat /\ e \in BOOLEAN /\ Len(d) <= b.len /\ q <= Len(d)
        BY <1>2, <2>6, <2>9, <3>4
      <4> QED BY <4>1, BfNew, ZenonT(60)
    <3> QED BY <3>4, <3>5
  <2>11. Unread(d, bf.read) = Cat(Unread(bf.data, bf.read), x)
    BY <2>2, <2>3, <2>4, UnreadGrows
  <2> QED BY <1>0, <2>5, <2>10, <2>11 DEF BufInv
<1> QED BY <1>3, <1>4, <1>5

LEMMA BufEnsureStep ==
    ASSUME BufInv, NEW n \in 0 .. SizeMax, BufEnsure(n)
    PROVE  BufInv'
<1>1. bf' \in BufEnsured(bf, n) /\ UNCHANGED <<bfRef, bfGot>>
  BY DEF BufEnsure, Untouched
<1>2. BfOK(bf') /\ SameData(bf, bf')
  BY <1>1, BufEnsuredIs DEF BufInv
<1> QED BY <1>1, <1>2 DEF BufInv, SameData

LEMMA BufGetStep ==
    ASSUME BufInv, NEW n \in Nat, NEW dst \in Orders, BufGet(n, dst)
    PROVE  BufInv'
<1>0. BfOK(bf) /\ bfRef = Unread(bf.data, bf.read)
  BY DEF BufInv
<1>1. PICK d : d = bf.data
  OBVIOUS
<1>2. PICK r : r = bf.read
  OBVIOUS
<1>3. bf.order \in Orders /\ d \in Seq(Bit) /\ r \in Nat /\ Len(d) \in Nat /\ r <= Len(d) /\ Len(d) <= bf.len
  BY <1>0, <1>1, <1>2, BfParts
<1>4. r + n <= Len(d)
  BY <1>1, <1>2 DEF BufGet, Used
<1>5. PICK s : s = SubSeq(d, r + 1, r + n)
  OBVIOUS
<1>6. s = SubSeq(bfRef, 1, n) /\ s \in Seq(Bit) /\ SubSeq(bfRef, n + 1, Len(bfRef)) = Unread(d, r + n)
  BY <1>0, <1>1, <1>2, <1>3, <1>4, <1>5, UnreadSplit, ZenonT(60)
<1>7. bfGot' = [got  |-> IF bf.order = dst THEN s ELSE Reverse(s),
                want |-> ValueBytes(IF bf.order = "BE" THEN s ELSE Reverse(s), dst)]
  BY <1>1, <1>2, <1>5, <1>6 DEF BufGet
<1>8. (IF bf.order = dst THEN s ELSE Reverse(s)) = ValueBytes(IF bf.order = "BE" THEN s ELSE Reverse(s), dst)
  <2>1. PICK o : o = bf.order
    OBVIOUS
  <2>2. o \in Orders /\ s \in Seq(Bit)
    BY <1>3, <1>6, <2>1
  <2>3. (IF o = dst THEN s ELSE Reverse(s)) = ValueBytes(IF o = "BE" THEN s ELSE Reverse(s), dst)
    BY <2>2, GotAgrees
  <2> QED BY <2>1, <2>3
<1>9. bfGot'.got = bfGot'.want
  BY <1>7, <1>8
<1>10. PICK m : m = r + n
  OBVIOUS
<1>11. m \in Nat /\ m <= Len(d)
  BY <1>3, <1>4, <1>10
<1>12. bf' = [bf EXCEPT !.read = m] /\ bfRef' = Unread(d, m)
  BY <1>2, <1>6, <1>10 DEF BufGet
<1>13. BfOK(bf') /\ bf'.data = d /\ bf'.read = m
  BY <1>0, <1>1, <1>11, <1>12 DEF BfOK
<1> QED BY <1>9, <1>12, <1>13 DEF BufInv

LEMMA BufDropSteps ==
    ASSUME BufInv, BufDiscard \/ BufMarkAll \/ BufClear
    PROVE  BufInv'
<1>0. BfOK(bf) /\ bfRef = Unread(bf.data, bf.read) /\ bfGot' = bfGot /\ bfGot.got = bfGot.want
  BY DEF BufInv, BufDiscard, BufMarkAll, BufClear, Untouched
<1>1. PICK d : d = bf.data
  OBVIOUS
<1>2. PICK r : r = bf.read
  OBVIOUS
<1>3. d \in Seq(Bit) /\ r \in Nat /\ Len(d) \in Nat /\ r <= Len(d) /\ Len(d) <= bf.len /\ bf.len \in Nat
  BY <1>0, <1>1, <1>2, BfParts
<1>4. CASE BufDiscard
  <2>1. PICK a : a = Unread(d, r)
    OBVIOUS
  <2>2. a \in Seq(Bit) /\ Len(a) = Len(d) - r
    BY <1>3, <2>1, UnreadIs
  <2>3. bf' = [bf EXCEPT !.data = a, !.read = 0] /\ bfRef' = a
    BY <1>0, <1>1, <1>2, <1>4, <2>1 DEF BufDiscard, Unread, Used
  <2>4. Len(a) <= bf.len /\ 0 <= Len(a)
    BY <1>3, <2>2
  <2>5. PICK e : e = bf.err
    OBVIOUS
  <2>6. bf' = Refilled(bf, a, 0, e) /\ e \in BOOLEAN
    BY <1>0, <2>3, <2>5, BfFields
  <2>7. PICK c : c = Refilled(bf, a, 0, e)
    OBVIOUS
  <2>8. BfOK(c) /\ c.data = a /\ c.read = 0
    BY <1>0, <2>2, <2>4, <2>6, <2>7, BfNew
  <2>9. Unread(a, 0) = a
    BY <2>2 DEF Unread
  <2> QED BY <1>0, <2>3, <2>6, <2>7, <2>8, <2>9 DEF BufInv
<1>5. CASE BufMarkAll
  <2>1. PICK l : l = Len(d)
    OBVIOUS
  <2>2. bf' = [bf EXCEPT !.read = l] /\ bfRef' = <<>>
    BY <1>1, <1>5, <2>1 DEF BufMarkAll, Used
  <2>3. BfOK(bf') /\ bf'.data = d /\ bf'.read = l
    BY <1>0, <1>1, <1>3, <2>1, <2>2 DEF BfOK
  <2>4. Unread(d, l) = <<>>
    BY <1>3, <2>1 DEF Unread
  <2> QED BY <1>0, <2>2, <2>3, <2>4 DEF BufInv
<1>6. CASE BufClear
  <2>1. PICK e : e = <<>>
    OBVIOUS
  <2>2. e \in Seq(Bit) /\ Len(e) = 0
    BY <2>1
  <2>3. PICK c : c = Refilled(bf, e, 0, FALSE)
    OBVIOUS
  <2>4. bf' = c /\ bfRef' = e
    BY <1>6, <2>1, <2>3 DEF BufClear, Refilled
  <2>5. BfOK(c) /\ c.data = e /\ c.read = 0
    <3>1. /\ BfOK(bf) /\ e \in Seq(Bit) /\ 0 \in Nat /\ FALSE \in BOOLEAN /\ Len(e) <= bf.len /\ 0 <= Len(e)
      BY <1>0, <1>3, <2>2
    <3> QED BY <2>3, <3>1, BfNew, ZenonT(60)
  <2>6. Unread(e, 0) = e
    BY <2>2 DEF Unread
  <2> QED BY <1>0, <2>4, <2>5, <2>6 DEF BufInv
<1> QED BY <1>4, <1>5, <1>6

LEMMA BufInitInv == BufInit => BufInv
<1> SUFFICES ASSUME BufInit PROVE BufInv
  OBVIOUS
<1>1. PICK e : e = <<>>
  OBVIOUS
<1>2. e \in Seq({0, 1}) /\ Len(e) = 0
  BY <1>1
<1>3. PICK o \in Orders : bf = [order |-> o, place |-> "sdata", data |-> e, len |-> StaticLen, read |-> 0, err |-> FALSE]
  BY <1>1 DEF BufInit, NewBuf
<1>4. LenOK(StaticLen) /\ StaticLen \in Nat
  BY StaticLenOK, ContainersAssumption
<1>5. BfOK(bf) /\ bf.data = e /\ bf.read = 0
  BY <1>2, <1>3, <1>4 DEF BfOK, Places
<1>6. Unread(e, 0) = e
  BY <1>2 DEF Unread
<1>7. bfRef = e /\ bfGot.got = bfGot.want
  BY <1>1 DEF BufInit
<1> QED BY <1>5, <1>6, <1>7 DEF BufInv

\* A buffer gives back the bytes that were put, in order and each once, for
\* every size of the static array and of a size_t: growing by doubling either
\* leaves room for what is put or is refused (vtm_buf_grow, vtm_buf_puto,
\* vtm_buf_geto, vtm_buf_discard_processed, vtm_buf_clear).
THEOREM BufIsBytes == BufSpec => []BufAsBytes
<1>1. BufInit => BufInv
  BY BufInitInv
<1>2. BufInv /\ [BufNext]_bufVars => BufInv'
  <2> SUFFICES ASSUME BufInv, [BufNext]_bufVars PROVE BufInv'
    OBVIOUS
  <2>1. CASE UNCHANGED bufVars
    BY <2>1 DEF bufVars, BufInv
  <2>2. ASSUME NEW a \in {0, 1}, NEW b \in {0, 1}, NEW o \in Orders, BufPut(<<a, b>>, o) PROVE BufInv'
    <3>1. PICK v : v = <<a, b>>
      OBVIOUS
    <3>2. v \in Seq(Bit) /\ Len(v) = 2
      BY <3>1 DEF Bit
    <3>3. Len(v) \in 0 .. SizeMax
      BY <3>2, ContainersAssumption
    <3> QED BY <2>2, <3>1, <3>2, <3>3, BufPutStep
  <2>3. ASSUME NEW a \in {0, 1}, BufPut(<<a>>, bf.order) PROVE BufInv'
    <3>1. PICK v : v = <<a>>
      OBVIOUS
    <3>2. v \in Seq(Bit) /\ Len(v) = 1
      BY <3>1 DEF Bit
    <3>3. Len(v) \in 0 .. SizeMax
      BY <3>2, ContainersAssumption
    <3>4. bf.order \in Orders
      BY BfParts DEF BufInv
    <3> QED BY <2>3, <3>1, <3>2, <3>3, <3>4, BufPutStep
  <2>4. ASSUME NEW n \in 1 .. StaticLen, BufEnsure(n) PROVE BufInv'
    <3>1. n \in 0 .. SizeMax
      BY ContainersAssumption
    <3> QED BY <2>4, <3>1, BufEnsureStep
  <2>5. ASSUME NEW n \in 1 .. 2, NEW o \in Orders, BufGet(n, o) PROVE BufInv'
    BY <2>5, BufGetStep
  <2>6. CASE BufDiscard \/ BufMarkAll \/ BufClear
    BY <2>6, BufDropSteps
  <2>7. CASE BufNext
    BY <2>2, <2>3, <2>4, <2>5, <2>6, <2>7, Zenon DEF BufNext
  <2> QED BY <2>1, <2>7
<1>3. BufInv => BufAsBytes
  <2> SUFFICES ASSUME BufInv PROVE BufAsBytes
    OBVIOUS
  <2>1. BfOK(bf) /\ bfRef = Unread(bf.data, bf.read) /\ bfGot.got = bfGot.want
    BY DEF BufInv
  <2>2. Len(bf.data) <= bf.len /\ bf.read <= Len(bf.data) /\ (bf.place = "sdata" => bf.len = StaticLen)
    BY <2>1 DEF BfOK
  <2> QED BY <2>1, <2>2 DEF BufAsBytes, Used, Unread
<1> QED BY <1>1, <1>2, <1>3, PTL DEF BufSpec

-----------------------------------------------------------------------------
(* The queue. *)

At(s, i) == IF i \in 1 .. Len(s) THEN s[i] ELSE NULL
QueueType == [head : Nat, tail : Nat, next : [QueueNodes -> Nat]]
\* The pointers of q lead through the nodes of s, in their order.
Linked(q, s) ==
    /\ s \in Seq(QueueNodes) /\ Once(s) /\ q \in QueueType
    /\ q.head = At(s, 1) /\ q.tail = At(s, Len(s))
    /\ \A i \in 1 .. Len(s) : q.next[s[i]] = At(s, i + 1)
QueueInv == adjacent \in BOOLEAN /\ (~adjacent => Linked(sq, sqRef))

LEMMA AtIs ==
    ASSUME NEW s \in Seq(QueueNodes)
    PROVE  /\ \A i \in 1 .. Len(s) : At(s, i) = s[i] /\ s[i] \in QueueNodes /\ s[i] \in Nat /\ s[i] # NULL
           /\ At(s, 0) = NULL /\ At(s, Len(s) + 1) = NULL /\ Len(s) \in Nat
           /\ \A i \in Nat : At(s, i) \in Nat
<1>1. QueueNodes \subseteq Nat \ {0}
  BY ContainersAssumption
<1>2. Len(s) \in Nat /\ \A i \in 1 .. Len(s) : s[i] \in QueueNodes
  OBVIOUS
<1>3. \A i \in 1 .. Len(s) : At(s, i) = s[i] /\ s[i] \in QueueNodes /\ s[i] \in Nat /\ s[i] # NULL
  BY <1>1, <1>2 DEF At, NULL
<1>4. At(s, 0) = NULL /\ At(s, Len(s) + 1) = NULL
  BY <1>2 DEF At
<1>5. \A i \in Nat : At(s, i) \in Nat
  <2> SUFFICES ASSUME NEW i \in Nat PROVE At(s, i) \in Nat
    OBVIOUS
  <2>1. CASE i \in 1 .. Len(s)
    BY <1>3, <2>1
  <2>2. CASE i \notin 1 .. Len(s)
    BY <2>2 DEF At, NULL
  <2> QED BY <2>1, <2>2
<1> QED BY <1>2, <1>3, <1>4, <1>5

\* The first k entries of s.
Start(s, k) == SubSeq(s, 1, k)

LEMMA StartIs ==
    ASSUME NEW s \in Seq(QueueNodes), NEW k \in 0 .. Len(s)
    PROVE  /\ Start(s, k) \in Seq(QueueNodes) /\ Len(Start(s, k)) = k
           /\ \A i \in 1 .. k : Start(s, k)[i] = s[i]
BY DEF Start

LEMMA StartMore ==
    ASSUME NEW s \in Seq(QueueNodes), NEW k \in Nat, k + 1 <= Len(s)
    PROVE  Append(Start(s, k), s[k + 1]) = Start(s, k + 1)
<1>1. PICK a : a = Start(s, k)
  OBVIOUS
<1>2. PICK b : b = Start(s, k + 1)
  OBVIOUS
<1>3. PICK v : v = s[k + 1]
  OBVIOUS
<1>4. a \in Seq(QueueNodes) /\ Len(a) = k /\ \A i \in 1 .. k : a[i] = s[i]
  BY <1>1, StartIs
<1>5. b \in Seq(QueueNodes) /\ Len(b) = k + 1 /\ \A i \in 1 .. k + 1 : b[i] = s[i]
  BY <1>2 DEF Start
<1>6. v \in QueueNodes
  BY <1>3
<1>7. PICK c : c = Append(a, v)
  OBVIOUS
<1>8. c \in Seq(QueueNodes) /\ Len(c) = k + 1 /\ (\A i \in 1 .. k : c[i] = a[i]) /\ c[k + 1] = v
  BY <1>4, <1>6, <1>7
<1>9. \A i \in 1 .. k + 1 : c[i] = b[i]
  <2> SUFFICES ASSUME NEW i \in 1 .. k + 1 PROVE c[i] = b[i]
    OBVIOUS
  <2>1. CASE i = k + 1
    BY <1>3, <1>5, <1>8, <2>1
  <2>2. CASE i # k + 1
    <3>1. i \in 1 .. k
      BY <2>2
    <3> QED BY <1>4, <1>5, <1>8, <3>1
  <2> QED BY <2>1, <2>2
<1>10. c = b
  BY <1>5, <1>8, <1>9, SeqEqual
<1> QED BY <1>1, <1>2, <1>3, <1>7, <1>10

\* One visit goes on to the next node, and stays behind the last.
LEMMA OnwardIs ==
    ASSUME NEW q, NEW s, Linked(q, s), NEW k \in 0 .. Len(s)
    PROVE  Onward(q, Start(s, k)) = IF k < Len(s) THEN Start(s, k + 1) ELSE s
<1>0. s \in Seq(QueueNodes) /\ Len(s) \in Nat /\ k \in Nat
  BY DEF Linked
<1>1. PICK p : p = Start(s, k)
  OBVIOUS
<1>2. p \in Seq(QueueNodes) /\ Len(p) = k /\ \A i \in 1 .. k : p[i] = s[i]
  BY <1>0, <1>1, StartIs
<1>3. PICK n : n = IF p = <<>> THEN q.head ELSE q.next[Last(p)]
  OBVIOUS
<1>4. n = At(s, k + 1)
  <2>1. CASE k = 0
    <3>1. p = <<>>
      BY <1>2, <2>1
    <3> QED BY <1>3, <2>1, <3>1 DEF Linked
  <2>2. CASE k # 0
    <3>1. p # <<>> /\ k \in 1 .. Len(s) /\ k \in 1 .. k
      BY <1>0, <1>2, <2>2
    <3>2. Last(p) = s[k]
      BY <1>2, <3>1 DEF Last
    <3>3. q.next[s[k]] = At(s, k + 1)
      BY <3>1 DEF Linked
    <3> QED BY <1>3, <3>1, <3>2, <3>3
  <2> QED BY <2>1, <2>2
<1>5. Onward(q, p) = IF n = NULL THEN p ELSE Append(p, n)
  BY <1>3 DEF Onward
<1>6. CASE k < Len(s)
  <2>1. k + 1 \in 1 .. Len(s) /\ k + 1 <= Len(s)
    BY <1>0, <1>6
  <2>2. n = s[k + 1] /\ n # NULL
    BY <1>0, <1>4, <2>1, AtIs
  <2>3. Append(p, n) = Start(s, k + 1)
    BY <1>0, <1>1, <2>1, <2>2, StartMore
  <2> QED BY <1>1, <1>5, <1>6, <2>2, <2>3
<1>7. CASE ~(k < Len(s))
  <2>1. k = Len(s)
    BY <1>0, <1>7
  <2>2. n = NULL
    BY <1>0, <1>4, <2>1, AtIs
  <2>3. p = s
    BY <1>0, <1>2, <2>1, SeqEqual
  <2> QED BY <1>1, <1>5, <1>7, <2>2, <2>3
<1> QED BY <1>6, <1>7

LEMMA LinkedLength ==
    ASSUME NEW q, NEW s, Linked(q, s)
    PROVE  Cardinality(QueueNodes) \in Nat /\ Len(s) <= Cardinality(QueueNodes)
<1>1. s \in Seq(QueueNodes) /\ Once(s) /\ IsFiniteSet(QueueNodes)
  BY ContainersAssumption DEF Linked
<1>2. Cardinality(ToSet(s)) = Len(s)
  BY <1>1, OnceCount
<1>3. ToSet(s) \subseteq QueueNodes
  BY <1>1 DEF ToSet
<1>4. Cardinality(QueueNodes) \in Nat
  BY <1>1, FS_CardinalityType
<1>5. Cardinality(ToSet(s)) <= Cardinality(QueueNodes)
  BY <1>1, <1>3, FS_Subset
<1> QED BY <1>2, <1>4, <1>5

\* Following the pointers gives the nodes of s.
Walks(f, q) == f = [i \in 0 .. Cardinality(QueueNodes) |-> IF i = 0 THEN <<>> ELSE Onward(q, f[i - 1])]
Visited(s, i) == IF i <= Len(s) THEN Start(s, i) ELSE s

LEMMA ChainWalks ==
    ASSUME NEW q
    PROVE  LET f == CHOOSE f : Walks(f, q) IN Chain(q) = f[Cardinality(QueueNodes)]
BY DEF Chain, Walks

LEMMA VisitedNext ==
    ASSUME NEW q, NEW s, Linked(q, s), NEW k \in Nat
    PROVE  Onward(q, Visited(s, k)) = Visited(s, k + 1)
<1>0. s \in Seq(QueueNodes) /\ Len(s) \in Nat
  BY DEF Linked
<1>1. CASE k < Len(s)
  <2>1. k \in 0 .. Len(s) /\ k <= Len(s) /\ k + 1 <= Len(s)
    BY <1>0, <1>1
  <2>2. Onward(q, Start(s, k)) = Start(s, k + 1)
    BY <1>1, <2>1, OnwardIs
  <2> QED BY <2>1, <2>2 DEF Visited
<1>2. CASE ~(k < Len(s))
  <2>1. PICK l : l = Len(s)
    OBVIOUS
  <2>2. l \in 0 .. Len(s) /\ ~(l < Len(s)) /\ ~(k + 1 <= Len(s))
    BY <1>0, <1>2, <2>1
  <2>3. Start(s, l) = s
    <3>1. Start(s, l) \in Seq(QueueNodes) /\ Len(Start(s, l)) = l /\ \A i \in 1 .. l : Start(s, l)[i] = s[i]
      BY <1>0, <2>2, StartIs
    <3> QED BY <1>0, <2>1, <3>1, SeqEqual
  <2>4. Onward(q, Start(s, l)) = s
    BY <2>2, OnwardIs
  <2>5. Visited(s, k) = s
    <3>1. CASE k <= Len(s)
      <4>1. k = l
        BY <1>0, <1>2, <2>1, <3>1
      <4> QED BY <2>3, <3>1, <4>1 DEF Visited
    <3>2. CASE ~(k <= Len(s))
      BY <3>2 DEF Visited
    <3> QED BY <3>1, <3>2
  <2>6. Visited(s, k + 1) = s
    BY <2>2 DEF Visited
  <2> QED BY <2>3, <2>4, <2>5, <2>6
<1> QED BY <1>1, <1>2

LEMMA ChainIs ==
    ASSUME NEW q, NEW s, Linked(q, s)
    PROVE  Chain(q) = s
<1>0. s \in Seq(QueueNodes) /\ Len(s) \in Nat
  BY DEF Linked
<1>1. PICK m : m = Cardinality(QueueNodes)
  OBVIOUS
<1>2. m \in Nat /\ Len(s) <= m
  BY <1>1, LinkedLength
<1>3. Visited(s, 0) = <<>>
  <2>1. 0 <= Len(s) /\ 0 \in 0 .. Len(s)
    BY <1>0
  <2>2. Start(s, 0) \in Seq(QueueNodes) /\ Len(Start(s, 0)) = 0
    BY <1>0, <2>1, StartIs
  <2>3. Start(s, 0) = <<>>
    BY <2>2
  <2> QED BY <2>1, <2>3 DEF Visited
<1>4. Visited(s, m) = s
  <2>1. CASE m = Len(s)
    <3>1. m \in 0 .. Len(s) /\ m <= Len(s)
      BY <1>0, <2>1
    <3>2. Start(s, m) \in Seq(QueueNodes) /\ Len(Start(s, m)) = m /\ \A i \in 1 .. m : Start(s, m)[i] = s[i]
      BY <1>0, <3>1, StartIs
    <3>3. Start(s, m) = s
      BY <1>0, <2>1, <3>2, SeqEqual
    <3> QED BY <3>1, <3>3 DEF Visited
  <2>2. CASE m # Len(s)
    <3>1. ~(m <= Len(s))
      BY <1>0, <1>2, <2>2
    <3> QED BY <3>1 DEF Visited
  <2> QED BY <2>1, <2>2
<1>5. \E f : Walks(f, q)
  <2> DEFINE g == [i \in 0 .. m |-> Visited(s, i)]
  <2>1. ASSUME NEW i \in 0 .. m
        PROVE  Visited(s, i) = IF i = 0 THEN <<>> ELSE Onward(q, g[i - 1])
    <3>1. CASE i = 0
      BY <1>3, <3>1
    <3>2. CASE i # 0
      <4>1. PICK j : j = i - 1
        OBVIOUS
      <4>2. j \in Nat /\ j \in 0 .. m /\ j + 1 = i
        BY <1>2, <3>2, <4>1
      <4>3. g[j] = Visited(s, j)
        BY <4>2
      <4>4. Onward(q, Visited(s, j)) = Visited(s, j + 1)
        BY <4>2, VisitedNext
      <4> HIDE DEF g
      <4> QED BY <3>2, <4>1, <4>2, <4>3, <4>4
    <3> QED BY <3>1, <3>2
  <2>2. g = [i \in 0 .. m |-> IF i = 0 THEN <<>> ELSE Onward(q, g[i - 1])]
    BY <2>1, Zenon
  <2> HIDE DEF g
  <2>3. Walks(g, q)
    BY <1>1, <2>2 DEF Walks
  <2> QED BY <2>3
<1>6. PICK f : f = CHOOSE h : Walks(h, q)
  OBVIOUS
<1>7. Walks(f, q) /\ Chain(q) = f[m]
  <2>1. Walks(f, q)
    BY <1>5, <1>6, Zenon
  <2>2. Chain(q) = f[m]
    BY <1>1, <1>6, ChainWalks
  <2> QED BY <2>1, <2>2
<1>8. ASSUME NEW i \in 0 .. m PROVE f[i] = IF i = 0 THEN <<>> ELSE Onward(q, f[i - 1])
  BY <1>1, <1>7, Zenon DEF Walks
<1> DEFINE Q == {i \in Nat : i <= m => f[i] = Visited(s, i)}
<1>9. 0 \in Q
  <2>1. 0 \in 0 .. m
    BY <1>2
  <2>2. f[0] = <<>>
    BY <1>8, <2>1
  <2> QED BY <1>3, <2>2
<1>10. ASSUME NEW i \in Nat, i \in Q PROVE i + 1 \in Q
  <2> SUFFICES ASSUME i + 1 <= m PROVE f[i + 1] = Visited(s, i + 1)
    OBVIOUS
  <2>1. f[i] = Visited(s, i)
    BY <1>2, <1>10
  <2>2. PICK k : k = i + 1
    OBVIOUS
  <2>3. k \in 0 .. m /\ k # 0 /\ k - 1 = i
    BY <1>2, <2>2
  <2>4. f[k] = Onward(q, f[i])
    <3>1. f[k] = IF k = 0 THEN <<>> ELSE Onward(q, f[k - 1])
      BY <1>8, <2>3
    <3> QED BY <2>3, <3>1
  <2>5. Onward(q, Visited(s, i)) = Visited(s, i + 1)
    BY VisitedNext
  <2> QED BY <2>1, <2>2, <2>4, <2>5
<1>11. Nat \subseteq Q
  <2> HIDE DEF Q
  <2> QED BY <1>9, <1>10, SetInduction
<1>12. f[m] = Visited(s, m)
  BY <1>2, <1>11
<1> QED BY <1>4, <1>7, <1>12

-----------------------------------------------------------------------------
(* A removal in a pass. *)

LEMMA AtWithout ==
    ASSUME NEW u \in Seq(QueueNodes), NEW t \in Seq(QueueNodes), NEW k \in Nat, k < Len(u),
           Len(t) = Len(u) - 1, LacksAt(t, u, k, Len(u) - 1), NEW j \in Nat, j # 0
    PROVE  At(t, j) = IF j <= k THEN At(u, j) ELSE At(u, j + 1)
<1>0. PICK l : l = Len(u)
  OBVIOUS
<1>1. l \in Nat /\ k < l /\ Len(t) = l - 1
  BY <1>0
<1>2. CASE j \in 1 .. l - 1
  <2>1. t[j] = IF j <= k THEN u[j] ELSE u[j + 1]
    BY <1>0, <1>2 DEF LacksAt
  <2>2. At(t, j) = t[j] /\ At(u, j) = u[j] /\ At(u, j + 1) = u[j + 1]
    BY <1>0, <1>1, <1>2 DEF At
  <2> QED BY <2>1, <2>2
<1>3. CASE j \notin 1 .. l - 1
  <2>1. j >= l /\ ~(j <= k) /\ j \notin 1 .. Len(t) /\ j + 1 \notin 1 .. Len(u)
    BY <1>0, <1>1, <1>3
  <2> QED BY <2>1 DEF At
<1> QED BY <1>2, <1>3

LEMMA OnceWithout ==
    ASSUME NEW u \in Seq(QueueNodes), NEW t \in Seq(QueueNodes), NEW k \in Nat, k < Len(u), Once(u),
           Len(t) = Len(u) - 1, LacksAt(t, u, k, Len(u) - 1)
    PROVE  Once(t)
<1>0. PICK l : l = Len(u)
  OBVIOUS
<1>1. l \in Nat /\ k < l /\ Len(t) = l - 1
  BY <1>0
<1>2. \A i \in 1 .. l - 1 : t[i] = IF i <= k THEN u[i] ELSE u[i + 1]
  BY <1>0 DEF LacksAt
<1>3. \A i, j \in 1 .. l : u[i] = u[j] => i = j
  BY <1>0 DEF Once
<1>4. \A i, j \in 1 .. l - 1 : t[i] = t[j] => i = j
  BY <1>1, <1>2, <1>3, SMTT(60)
<1> QED BY <1>1, <1>4 DEF Once

\* VTM_SQUEUE_REMOVE of a node with the node before it, or NULL for the first.
LEMMA RemovedLinked ==
    ASSUME NEW q, NEW u, Linked(q, u), NEW k \in Nat, k < Len(u)
    PROVE  Linked(SqRemoved(q, u[k + 1], At(u, k)), RemoveAt(u, k + 1))
<1>0. PICK l : l = Len(u)
  OBVIOUS
<1>1. u \in Seq(QueueNodes) /\ Once(u) /\ q \in QueueType /\ l \in Nat /\ k < l /\ k + 1 \in 1 .. l /\ l \in 1 .. l
  BY <1>0 DEF Linked
<1>2. PICK t : t = RemoveAt(u, k + 1)
  OBVIOUS
<1>3. t \in Seq(QueueNodes) /\ Len(t) = l - 1 /\ LacksAt(t, u, k, l - 1)
  BY <1>0, <1>1, <1>2, RemoveAtIs
<1>4. Once(t)
  BY <1>0, <1>1, <1>3, OnceWithout
<1>5. \A j \in Nat \ {0} : At(t, j) = IF j <= k THEN At(u, j) ELSE At(u, j + 1)
  BY <1>0, <1>1, <1>3, AtWithout
<1>6. PICK n : n = u[k + 1]
  OBVIOUS
<1>7. PICK p : p = At(u, k)
  OBVIOUS
<1>8. PICK r : r = SqRemoved(q, n, p)
  OBVIOUS
<1>9. /\ \A i \in 1 .. l : At(u, i) = u[i] /\ u[i] \in QueueNodes /\ u[i] # NULL
      /\ At(u, 0) = NULL /\ At(u, l + 1) = NULL /\ \A i \in Nat : At(u, i) \in Nat
  BY <1>0, <1>1, AtIs
<1>10. /\ q.head = At(u, 1) /\ q.tail = At(u, l) /\ \A i \in 1 .. l : q.next[u[i]] = At(u, i + 1)
       /\ q.next \in [QueueNodes -> Nat]
  BY <1>0 DEF Linked, QueueType
<1>11. /\ r.head = IF p = NULL THEN q.next[n] ELSE q.head
       /\ r.tail = IF n = q.tail THEN p ELSE q.tail
       /\ r.next = IF p = NULL THEN q.next ELSE [q.next EXCEPT ![p] = q.next[n]]
       /\ r = [head |-> r.head, tail |-> r.tail, next |-> r.next]
  BY <1>8 DEF SqRemoved
<1>12. n \in QueueNodes /\ q.next[n] = At(u, k + 2) /\ p \in Nat /\ (p = NULL <=> k = 0)
  <2>1. n \in QueueNodes
    BY <1>1, <1>6, <1>9
  <2>2. q.next[n] = At(u, k + 2)
    <3>1. (k + 1) + 1 = k + 2
      OBVIOUS
    <3>2. q.next[u[k + 1]] = At(u, (k + 1) + 1)
      BY <1>1, <1>10
    <3> QED BY <1>6, <3>1, <3>2
  <2>3. p \in Nat
    BY <1>7, <1>9
  <2>4. p = NULL <=> k = 0
    <3>1. CASE k = 0
      BY <1>7, <1>9, <3>1
    <3>2. CASE k # 0
      <4>1. k \in 1 .. l
        BY <1>1, <3>2
      <4> QED BY <1>7, <1>9, <3>2, <4>1
    <3> QED BY <3>1, <3>2
  <2> QED BY <2>1, <2>2, <2>3, <2>4
<1>13. r.head = At(t, 1)
  <2>1. At(t, 1) = IF 1 <= k THEN At(u, 1) ELSE At(u, 2)
    BY <1>5
  <2>2. CASE k = 0
    BY <1>11, <1>12, <2>1, <2>2
  <2>3. CASE k # 0
    BY <1>10, <1>11, <1>12, <2>1, <2>3
  <2> QED BY <2>2, <2>3
<1>14. r.tail = At(t, Len(t))
  <2>1. n = q.tail <=> k + 1 = l
    <3>1. q.tail = u[l] /\ (u[l] = u[k + 1] => l = k + 1)
      BY <1>0, <1>1, <1>9, <1>10 DEF Once
    <3> QED BY <1>6, <3>1
  <2>2. CASE l = 1
    <3>1. k = 0 /\ k + 1 = l
      BY <1>1, <2>2
    <3>2. r.tail = NULL
      BY <1>11, <1>12, <2>1, <3>1
    <3>3. Len(t) = 0
      BY <1>3, <2>2
    <3>4. At(t, 0) = NULL
      BY <1>3, AtIs
    <3> QED BY <3>2, <3>3, <3>4
  <2>3. CASE l # 1
    <3>1. PICK j : j = l - 1
      OBVIOUS
    <3>2. j \in Nat \ {0} /\ j + 1 = l /\ Len(t) = j /\ (j <= k <=> k + 1 = l) /\ (k + 1 = l => j = k)
      BY <1>1, <1>3, <2>3, <3>1
    <3>3. At(t, j) = IF j <= k THEN At(u, j) ELSE At(u, j + 1)
      BY <1>5, <3>2
    <3>4. CASE k + 1 = l
      BY <1>7, <1>11, <2>1, <3>2, <3>3, <3>4
    <3>5. CASE k + 1 # l
      BY <1>10, <1>11, <2>1, <3>2, <3>3, <3>5
    <3> QED BY <3>4, <3>5
  <2> QED BY <2>2, <2>3
<1>15. ASSUME NEW j \in 1 .. Len(t) PROVE r.next[t[j]] = At(t, j + 1)
  <2>1. /\ j \in Nat /\ j \in 1 .. l - 1 /\ j \in 1 .. l /\ j + 1 \in 1 .. l /\ j + 1 \in Nat \ {0}
        /\ (j + 1) + 1 = j + 2
    BY <1>1, <1>3
  <2>2. t[j] = IF j <= k THEN u[j] ELSE u[j + 1]
    BY <1>3, <2>1 DEF LacksAt
  <2>3. At(t, j + 1) = IF j + 1 <= k THEN At(u, j + 1) ELSE At(u, j + 2)
    BY <1>5, <2>1
  <2>4. q.next[u[j]] = At(u, j + 1) /\ q.next[u[j + 1]] = At(u, j + 2) /\ u[j] \in QueueNodes
        /\ u[j + 1] \in QueueNodes
    BY <1>9, <1>10, <2>1
  <2>5. CASE k = 0
    <3>1. ~(j <= k) /\ ~(j + 1 <= k)
      BY <2>1, <2>5
    <3> QED BY <1>11, <1>12, <2>2, <2>3, <2>4, <2>5, <3>1
  <2>6. CASE k # 0
    <3>1. k \in 1 .. l /\ p = u[k] /\ r.next = [q.next EXCEPT ![p] = q.next[n]] /\ p \in QueueNodes
      <4>1. k \in 1 .. l
        BY <1>1, <2>6
      <4> QED BY <1>7, <1>9, <1>11, <1>12, <2>6, <4>1
    <3>2. r.next[p] = At(u, k + 2)
      BY <1>10, <1>12, <3>1
    <3>3. \A i \in 1 .. l : i # k => r.next[u[i]] = q.next[u[i]]
      <4>1. \A i \in 1 .. l : u[i] = u[k] => i = k
        BY <1>0, <1>1, <3>1 DEF Once
      <4> QED BY <1>9, <1>10, <3>1, <4>1
    <3>4. CASE j = k
      <4>1. j <= k /\ ~(j + 1 <= k) /\ t[j] = p
        BY <2>1, <2>2, <3>1, <3>4
      <4> QED BY <2>3, <3>2, <3>4, <4>1
    <3>5. CASE j < k
      <4>1. j <= k /\ j + 1 <= k /\ j # k
        BY <1>1, <2>1, <3>5
      <4> QED BY <2>1, <2>2, <2>3, <2>4, <3>3, <4>1
    <3>6. CASE j > k
      <4>1. ~(j <= k) /\ ~(j + 1 <= k) /\ j + 1 # k
        BY <1>1, <2>1, <3>6
      <4> QED BY <2>1, <2>2, <2>3, <2>4, <3>3, <4>1
    <3> QED BY <2>1, <3>4, <3>5, <3>6
  <2> QED BY <2>5, <2>6
<1>16. r \in QueueType
  <2>1. r.head \in Nat /\ r.tail \in Nat
    <3>1. Len(t) \in Nat
      BY <1>3
    <3>2. \A i \in Nat : At(t, i) \in Nat
      BY <1>3, AtIs
    <3> QED BY <1>13, <1>14, <3>1, <3>2
  <2>2. r.next \in [QueueNodes -> Nat]
    <3>1. q.next[n] \in Nat
      BY <1>10, <1>12
    <3> QED BY <1>10, <1>11, <3>1
  <2> QED BY <1>11, <2>1, <2>2 DEF QueueType
<1>17. Linked(r, t)
  BY <1>3, <1>4, <1>13, <1>14, <1>15, <1>16 DEF Linked
<1> QED BY <1>2, <1>6, <1>7, <1>8, <1>17

LEMMA SqAddStep ==
    ASSUME Linked(sq, sqRef), NEW n \in QueueNodes, SqAdd(n)
    PROVE  Linked(sq', sqRef')
<1>0. PICK s : s = sqRef
  OBVIOUS
<1>1. PICK q : q = sq
  OBVIOUS
<1>2. PICK l : l = Len(s)
  OBVIOUS
<1>3. s \in Seq(QueueNodes) /\ Once(s) /\ q \in QueueType /\ l \in Nat
      /\ q.head = At(s, 1) /\ q.tail = At(s, l) /\ \A i \in 1 .. l : q.next[s[i]] = At(s, i + 1)
  BY <1>0, <1>1, <1>2 DEF Linked
<1>4. PICK t : t = Append(s, n)
  OBVIOUS
<1>5. t \in Seq(QueueNodes) /\ Len(t) = l + 1 /\ (\A i \in 1 .. l : t[i] = s[i]) /\ t[l + 1] = n
  BY <1>2, <1>3, <1>4
<1>6. PICK r : r = sq'
  OBVIOUS
<1>7. r = [head |-> IF q.head = NULL THEN n ELSE q.head, tail |-> n,
           next |-> [m \in QueueNodes |-> CASE m = n -> NULL
                                            [] m = q.tail /\ m # n -> n
                                            [] OTHER -> q.next[m]]]
      /\ sqRef' = t /\ n \notin ToSet(s)
  BY <1>0, <1>1, <1>4, <1>6 DEF SqAdd
<1>8. \A i \in 1 .. l : s[i] # n
  BY <1>2, <1>3, <1>7 DEF ToSet
<1>9. /\ \A i \in 1 .. l : At(s, i) = s[i] /\ s[i] \in QueueNodes /\ s[i] # NULL
      /\ At(s, 0) = NULL
  BY <1>2, <1>3, AtIs
<1>10. /\ \A i \in 1 .. l + 1 : At(t, i) = t[i]
       /\ At(t, l + 2) = NULL
  <2>1. l + 1 \in Nat /\ (l + 1) + 1 = l + 2
    BY <1>3
  <2> QED BY <1>5, <2>1, AtIs
<1>11. Once(t)
  <2>1. \A i, j \in 1 .. l : s[i] = s[j] => i = j
    BY <1>2, <1>3 DEF Once
  <2>2. \A i \in 1 .. l + 1 : i = l + 1 \/ i \in 1 .. l
    BY <1>3
  <2>3. \A i, j \in 1 .. l + 1 : t[i] = t[j] => i = j
    BY <1>5, <1>8, <2>1, <2>2
  <2> QED BY <1>5, <2>3 DEF Once
<1>12. r.head = At(t, 1)
  <2>1. 1 \in 1 .. l + 1 /\ At(t, 1) = t[1]
    BY <1>3, <1>10
  <2>2. CASE l = 0
    <3>1. q.head = NULL
      BY <1>2, <1>3, <2>2 DEF At
    <3>2. At(t, 1) = n
      BY <1>5, <2>1, <2>2
    <3> QED BY <1>7, <3>1, <3>2
  <2>3. CASE l # 0
    <3>1. 1 \in 1 .. l
      BY <1>3, <2>3
    <3>2. q.head = s[1] /\ q.head # NULL /\ t[1] = s[1]
      BY <1>3, <1>5, <1>9, <3>1
    <3> QED BY <1>7, <2>1, <3>2
  <2> QED BY <2>2, <2>3
<1>13. r.tail = At(t, Len(t))
  <2>1. l + 1 \in 1 .. l + 1
    BY <1>3
  <2>2. r.tail = n
    BY <1>7
  <2> QED BY <1>5, <1>10, <2>1, <2>2
<1>14. ASSUME NEW i \in 1 .. Len(t) PROVE r.next[t[i]] = At(t, i + 1)
  <2>0. i \in 1 .. l + 1
    BY <1>5
  <2>1. \A m \in QueueNodes : r.next[m] = CASE m = n -> NULL
                                            [] m = q.tail /\ m # n -> n
                                            [] OTHER -> q.next[m]
    BY <1>7
  <2>2. CASE i = l + 1
    <3>1. t[i] = n /\ i + 1 = l + 2
      BY <1>3, <1>5, <2>2
    <3>2. r.next[n] = NULL
      BY <2>1
    <3> QED BY <1>10, <3>1, <3>2
  <2>3. CASE i = l /\ i # l + 1
    <3>1. i \in 1 .. l /\ i + 1 = l + 1 /\ l + 1 \in 1 .. l + 1
      BY <1>3, <2>0, <2>3
    <3>2. t[i] = s[i] /\ q.tail = s[i] /\ s[i] # n /\ s[i] \in QueueNodes
      BY <1>3, <1>5, <1>8, <1>9, <2>3, <3>1
    <3>3. r.next[s[i]] = n
      BY <2>1, <3>2
    <3> QED BY <1>5, <1>10, <3>1, <3>2, <3>3
  <2>4. CASE i # l /\ i # l + 1
    <3>1. i \in 1 .. l /\ i + 1 \in 1 .. l /\ i + 1 \in 1 .. l + 1 /\ l \in 1 .. l
      BY <1>3, <2>0, <2>4
    <3>2. t[i] = s[i] /\ s[i] # n /\ s[i] \in QueueNodes
      BY <1>5, <1>8, <1>9, <3>1
    <3>3. q.tail = s[l] /\ s[i] # s[l]
      BY <1>2, <1>3, <1>9, <2>4, <3>1 DEF Once
    <3>4. r.next[s[i]] = q.next[s[i]]
      BY <2>1, <3>2, <3>3
    <3>5. q.next[s[i]] = s[i + 1] /\ At(t, i + 1) = s[i + 1]
      BY <1>3, <1>5, <1>9, <1>10, <3>1
    <3> QED BY <3>2, <3>4, <3>5
  <2> QED BY <2>2, <2>3, <2>4
<1>15. r \in QueueType
  <2>1. n \in Nat /\ NULL \in Nat /\ QueueNodes \subseteq Nat
    BY ContainersAssumption DEF NULL
  <2>2. q.head \in Nat /\ q.next \in [QueueNodes -> Nat]
    BY <1>3 DEF QueueType
  <2>3. r.next \in [QueueNodes -> Nat]
    BY <1>7, <2>1, <2>2
  <2>4. r = [head |-> r.head, tail |-> r.tail, next |-> r.next] /\ r.head \in Nat /\ r.tail \in Nat
    BY <1>7, <2>1, <2>2
  <2> QED BY <2>3, <2>4 DEF QueueType
<1> QED BY <1>5, <1>6, <1>7, <1>11, <1>12, <1>13, <1>14, <1>15 DEF Linked

\* VTM_SQUEUE_POLL is the removal of the first node.
LEMMA SqPollStep ==
    ASSUME Linked(sq, sqRef), SqPoll
    PROVE  Linked(sq', sqRef')
<1>0. PICK s : s = sqRef
  OBVIOUS
<1>1. s \in Seq(QueueNodes) /\ Len(s) \in Nat /\ sq \in QueueType /\ sq.head = At(s, 1)
  BY <1>0 DEF Linked
<1>2. Len(s) # 0
  <2>1. CASE Len(s) = 0
    <3>1. At(s, 1) = NULL
      BY <2>1 DEF At
    <3> QED BY <1>1, <3>1 DEF SqPoll
  <2> QED BY <2>1
<1>3. 0 < Len(s) /\ 1 \in 1 .. Len(s) /\ s # <<>>
  BY <1>1, <1>2
<1>4. sq.head = s[1] /\ At(s, 0) = NULL
  BY <1>1, <1>3, AtIs
<1>5. sqRef' = Tail(s)
  BY <1>0, <1>3 DEF SqPoll
<1>6. PICK t : t = RemoveAt(s, 1)
  OBVIOUS
<1>7. t = Tail(s)
  <2>1. PICK l : l = Len(s)
    OBVIOUS
  <2>2. RemoveAt(s, 0 + 1) \in Seq(QueueNodes) /\ Len(RemoveAt(s, 0 + 1)) = Len(s) - 1
        /\ LacksAt(RemoveAt(s, 0 + 1), s, 0, Len(s) - 1)
    BY <1>1, <1>3, RemoveAtIs
  <2>3. t \in Seq(QueueNodes) /\ Len(t) = l - 1 /\ LacksAt(t, s, 0, l - 1)
    BY <1>6, <2>1, <2>2
  <2>4. \A i \in 1 .. l - 1 : t[i] = s[i + 1]
    BY <1>1, <2>1, <2>3 DEF LacksAt
  <2>5. Tail(s) \in Seq(QueueNodes) /\ Len(Tail(s)) = l - 1 /\ \A i \in 1 .. l - 1 : Tail(s)[i] = s[i + 1]
    BY <1>1, <1>3, <2>1
  <2> QED BY <2>3, <2>4, <2>5, SeqEqual
<1>8. sq' = SqRemoved(sq, s[1], NULL)
  <2>1. sq' = [sq EXCEPT !.head = sq.next[sq.head], !.tail = IF sq.tail = sq.head THEN NULL ELSE sq.tail]
    BY DEF SqPoll
  <2>2. sq = [head |-> sq.head, tail |-> sq.tail, next |-> sq.next]
    BY <1>1 DEF QueueType
  <2>3. sq' = [head |-> sq.next[sq.head], tail |-> IF sq.tail = sq.head THEN NULL ELSE sq.tail, next |-> sq.next]
    BY <2>1, <2>2
  <2> QED BY <1>4, <2>3 DEF SqRemoved
<1>9. Linked(SqRemoved(sq, s[0 + 1], At(s, 0)), RemoveAt(s, 0 + 1))
  BY <1>0, <1>3, RemovedLinked
<1>10. 0 + 1 = 1
  OBVIOUS
<1>11. Linked(SqRemoved(sq, s[1], NULL), t)
  BY <1>4, <1>6, <1>9, <1>10, Zenon
<1> QED BY <1>5, <1>7, <1>8, <1>11, Zenon

LEMMA EmptyLinked ==
    ASSUME NEW q \in QueueType, q.head = NULL, q.tail = NULL
    PROVE  Linked(q, <<>>)
<1>1. PICK e : e = <<>>
  OBVIOUS
<1>2. e \in Seq(QueueNodes) /\ Len(e) = 0
  BY <1>1
<1>3. Once(e) /\ At(e, 1) = NULL /\ At(e, Len(e)) = NULL
  BY <1>2 DEF Once, At
<1> QED BY <1>1, <1>2, <1>3 DEF Linked

LEMMA SqClearStep ==
    ASSUME Linked(sq, sqRef), SqClear
    PROVE  Linked(sq', sqRef')
<1>1. sq' = [sq EXCEPT !.head = NULL, !.tail = NULL] /\ sqRef' = <<>> /\ sq \in QueueType
  BY DEF SqClear, Linked
<1>2. sq' \in QueueType /\ sq'.head = NULL /\ sq'.tail = NULL
  BY <1>1 DEF QueueType, NULL
<1> QED BY <1>1, <1>2, EmptyLinked

LEMMA SqInitInv == SqInit => QueueInv
<1> SUFFICES ASSUME SqInit PROVE QueueInv
  OBVIOUS
<1>1. sq \in QueueType /\ sq.head = NULL /\ sq.tail = NULL /\ sqRef = <<>> /\ adjacent = FALSE
  BY DEF SqInit, QueueType, NULL
<1> QED BY <1>1, EmptyLinked DEF QueueInv

-----------------------------------------------------------------------------
(* A whole pass. *)

Follows(f, n, a, F) == f[0] = a /\ \A i \in 1 .. n : f[i] = F[i][f[i - 1]]

\* A function over 0 .. n can be defined by what each step makes of the value
\* before it.
LEMMA Stepwise ==
    ASSUME NEW n \in Nat, NEW A, NEW a \in A, NEW F \in [1 .. n -> [A -> A]]
    PROVE  \E f \in [0 .. n -> A] : Follows(f, n, a, F)
<1> DEFINE Up(f, k) == f \in [0 .. k -> A] /\ f[0] = a /\ \A i \in 1 .. k : f[i] = F[i][f[i - 1]]
<1> DEFINE Q == {k \in Nat : k <= n => \E f : Up(f, k)}
<1>1. 0 \in Q
  <2> DEFINE g == [i \in 0 .. 0 |-> a]
  <2>1. Up(g, 0)
    OBVIOUS
  <2> HIDE DEF g, Up
  <2> QED BY <2>1
<1>2. ASSUME NEW k \in Nat, k \in Q PROVE k + 1 \in Q
  <2> SUFFICES ASSUME k + 1 <= n PROVE \E f : Up(f, k + 1)
    OBVIOUS
  <2>1. PICK f : Up(f, k)
    <3> HIDE DEF Up
    <3> QED BY <1>2
  <2>2. PICK j : j = k + 1
    OBVIOUS
  <2>3. j \in 1 .. n /\ j \in Nat /\ j - 1 = k /\ j # 0 /\ j \notin 0 .. k
    BY <2>2
  <2>4. f[k] \in A /\ F[j] \in [A -> A]
    BY <2>1, <2>3
  <2>5. PICK v : v = F[j][f[k]]
    OBVIOUS
  <2>6. v \in A
    BY <2>4, <2>5
  <2> DEFINE g == [i \in 0 .. j |-> IF i = j THEN v ELSE f[i]]
  <2>7. \A i \in 0 .. j : i # j => i \in 0 .. k
    BY <2>2
  <2>8. g \in [0 .. j -> A]
    BY <2>1, <2>6, <2>7
  <2>9. g[j] = v /\ \A i \in 0 .. k : g[i] = f[i]
    BY <2>2, <2>3
  <2> HIDE DEF g
  <2>10. g[0] = a
    BY <2>1, <2>9
  <2>11. ASSUME NEW i \in 1 .. j PROVE g[i] = F[i][g[i - 1]]
    <3>1. CASE i = j
      <4>1. g[i - 1] = f[k] /\ k \in 0 .. k
        BY <2>3, <2>9, <3>1
      <4> QED BY <2>5, <2>9, <3>1, <4>1
    <3>2. CASE i # j
      <4>1. i \in 1 .. k /\ i \in 0 .. k /\ i - 1 \in 0 .. k
        BY <2>2, <3>2
      <4>2. f[i] = F[i][f[i - 1]]
        BY <2>1, <4>1
      <4> QED BY <2>9, <4>1, <4>2
    <3> QED BY <3>1, <3>2
  <2>12. Up(g, j)
    BY <2>8, <2>10, <2>11
  <2> HIDE DEF Up
  <2> QED BY <2>2, <2>12
<1>3. Nat \subseteq Q
  <2> HIDE DEF Q
  <2> QED BY <1>1, <1>2, SetInduction
<1>4. PICK f : Up(f, n)
  <2> HIDE DEF Up
  <2> QED BY <1>3
<1>5. f \in [0 .. n -> A] /\ Follows(f, n, a, F)
  BY <1>4 DEF Follows
<1> QED BY <1>5

\* The values the pass and the history go through.
SweepOne(q, s, S, i) ==
    IF s[i] \in S THEN SqRemoved(q, s[i], IF i = 1 THEN NULL ELSE s[i - 1]) ELSE q
KeepOne(t, s, S, i) == IF s[i] \in S THEN t ELSE Append(t, s[i])
Sweeps(f, q, s, S) == f = [i \in 0 .. Len(s) |-> IF i = 0 THEN q ELSE SweepOne(f[i - 1], s, S, i)]
Keeps(f, s, S) == f = [i \in 0 .. Len(s) |-> IF i = 0 THEN <<>> ELSE KeepOne(f[i - 1], s, S, i)]

LEMMA SweptIs ==
    ASSUME NEW S, SqSweep(S)
    PROVE  LET f == CHOOSE f : Sweeps(f, sq, Chain(sq), S) IN sq' = f[Len(Chain(sq))]
BY DEF SqSweep, Sweeps, SweepOne

LEMMA WithoutIs ==
    ASSUME NEW s, NEW S
    PROVE  LET f == CHOOSE f : Keeps(f, s, S) IN Without(s, S) = f[Len(s)]
BY DEF Without, Keeps, KeepOne

LEMMA RemovedType ==
    ASSUME NEW q \in QueueType, NEW n \in QueueNodes, NEW p \in Nat
    PROVE  SqRemoved(q, n, p) \in QueueType
<1>1. q.head \in Nat /\ q.tail \in Nat /\ q.next \in [QueueNodes -> Nat] /\ q.next[n] \in Nat
  BY DEF QueueType
<1>2. [q.next EXCEPT ![p] = q.next[n]] \in [QueueNodes -> Nat]
  BY <1>1
<1> QED BY <1>1, <1>2 DEF SqRemoved, QueueType

LEMMA SweepsExists ==
    ASSUME NEW q \in QueueType, NEW s \in Seq(QueueNodes), NEW S
    PROVE  \E f : Sweeps(f, q, s, S)
<1>0. PICK n : n = Len(s)
  OBVIOUS
<1>1. n \in Nat
  BY <1>0
<1>2. ASSUME NEW i \in 1 .. n, NEW r \in QueueType PROVE SweepOne(r, s, S, i) \in QueueType
  <2>1. s[i] \in QueueNodes /\ (i # 1 => s[i - 1] \in QueueNodes) /\ QueueNodes \subseteq Nat /\ NULL \in Nat
    BY <1>0, <1>1, ContainersAssumption DEF NULL
  <2>2. PICK p : p = IF i = 1 THEN NULL ELSE s[i - 1]
    OBVIOUS
  <2>3. p \in Nat
    BY <2>1, <2>2
  <2>4. SqRemoved(r, s[i], p) \in QueueType
    BY <2>1, <2>3, RemovedType
  <2> QED BY <2>2, <2>4 DEF SweepOne
<1> DEFINE F == [i \in 1 .. n |-> [r \in QueueType |-> SweepOne(r, s, S, i)]]
<1>3. F \in [1 .. n -> [QueueType -> QueueType]]
  BY <1>2
<1>4. \A i \in 1 .. n : \A r \in QueueType : F[i][r] = SweepOne(r, s, S, i)
  OBVIOUS
<1> HIDE DEF F
<1>50. PICK f \in [0 .. n -> QueueType] : Follows(f, n, q, F)
  BY <1>1, <1>3, Stepwise
<1>5. f \in [0 .. n -> QueueType] /\ f[0] = q /\ \A i \in 1 .. n : f[i] = F[i][f[i - 1]]
  BY <1>50 DEF Follows
<1>6. ASSUME NEW i \in 0 .. n PROVE f[i] = IF i = 0 THEN q ELSE SweepOne(f[i - 1], s, S, i)
  <2>1. CASE i = 0
    BY <1>5, <2>1
  <2>2. CASE i # 0
    <3>1. i \in 1 .. n /\ i - 1 \in 0 .. n
      BY <1>1, <2>2
    <3>2. f[i - 1] \in QueueType
      BY <1>5, <3>1
    <3>3. F[i][f[i - 1]] = SweepOne(f[i - 1], s, S, i)
      BY <1>4, <3>1, <3>2
    <3> QED BY <1>5, <2>2, <3>1, <3>3
  <2> QED BY <2>1, <2>2
<1>7. f = [i \in 0 .. n |-> f[i]]
  BY <1>5
<1>8. f = [i \in 0 .. n |-> IF i = 0 THEN q ELSE SweepOne(f[i - 1], s, S, i)]
  BY <1>6, <1>7, Zenon
<1>9. Sweeps(f, q, s, S)
  BY <1>0, <1>8 DEF Sweeps
<1> QED BY <1>9

LEMMA KeepsExists ==
    ASSUME NEW s \in Seq(QueueNodes), NEW S
    PROVE  \E f : Keeps(f, s, S)
<1>0. PICK n : n = Len(s)
  OBVIOUS
<1>1. n \in Nat
  BY <1>0
<1>2. ASSUME NEW i \in 1 .. n, NEW r \in Seq(QueueNodes) PROVE KeepOne(r, s, S, i) \in Seq(QueueNodes)
  <2>1. s[i] \in QueueNodes
    BY <1>0
  <2>2. Append(r, s[i]) \in Seq(QueueNodes)
    BY <2>1
  <2> QED BY <2>2 DEF KeepOne
<1> DEFINE F == [i \in 1 .. n |-> [r \in Seq(QueueNodes) |-> KeepOne(r, s, S, i)]]
<1>3. F \in [1 .. n -> [Seq(QueueNodes) -> Seq(QueueNodes)]]
  BY <1>2
<1>4. \A i \in 1 .. n : \A r \in Seq(QueueNodes) : F[i][r] = KeepOne(r, s, S, i)
  OBVIOUS
<1> HIDE DEF F
<1>5. PICK e : e = <<>>
  OBVIOUS
<1>50. e \in Seq(QueueNodes)
  BY <1>5
<1>52. PICK A : A = Seq(QueueNodes)
  OBVIOUS
<1>53. \E f \in [0 .. n -> A] : Follows(f, n, e, F)
  <2>1. F \in [1 .. n -> [A -> A]] /\ e \in A
    BY <1>3, <1>50, <1>52
  <2> QED BY <1>1, <2>1, Stepwise
<1>54. PICK f \in [0 .. n -> A] : Follows(f, n, e, F)
  BY <1>53
<1>51. f \in [0 .. n -> Seq(QueueNodes)] /\ f[0] = e /\ \A i \in 1 .. n : f[i] = F[i][f[i - 1]]
  BY <1>52, <1>54 DEF Follows
<1>6. ASSUME NEW i \in 0 .. n PROVE f[i] = IF i = 0 THEN <<>> ELSE KeepOne(f[i - 1], s, S, i)
  <2>1. CASE i = 0
    BY <1>5, <1>51, <2>1
  <2>2. CASE i # 0
    <3>1. i \in 1 .. n /\ i - 1 \in 0 .. n
      BY <1>1, <2>2
    <3>2. f[i - 1] \in Seq(QueueNodes)
      BY <1>51, <3>1
    <3>3. F[i][f[i - 1]] = KeepOne(f[i - 1], s, S, i)
      BY <1>4, <3>1, <3>2
    <3> QED BY <1>51, <2>2, <3>1, <3>3
  <2> QED BY <2>1, <2>2
<1>7. f = [i \in 0 .. n |-> f[i]]
  BY <1>51
<1>8. f = [i \in 0 .. n |-> IF i = 0 THEN <<>> ELSE KeepOne(f[i - 1], s, S, i)]
  BY <1>6, <1>7, Zenon
<1>9. Keeps(f, s, S)
  BY <1>0, <1>8 DEF Keeps
<1> QED BY <1>9

\* What the pass has not visited yet.
Unvisited(s, i) == SubSeq(s, i + 1, Len(s))

LEMMA UnvisitedIs ==
    ASSUME NEW s \in Seq(QueueNodes), NEW i \in Nat, i <= Len(s)
    PROVE  /\ Unvisited(s, i) \in Seq(QueueNodes) /\ Len(Unvisited(s, i)) = Len(s) - i
           /\ \A j \in 1 .. Len(s) - i : Unvisited(s, i)[j] = s[i + j]
BY DEF Unvisited

\* c is a followed by what comes behind the first i entries of s.
Joined(c, a, s, i) ==
    /\ c \in Seq(QueueNodes) /\ Len(c) = Len(a) + (Len(s) - i)
    /\ \A j \in 1 .. Len(a) : c[j] = a[j]
    /\ \A j \in 1 .. Len(s) - i : c[Len(a) + j] = s[i + j]

LEMMA JoinedIs ==
    ASSUME NEW a \in Seq(QueueNodes), NEW s \in Seq(QueueNodes), NEW i \in Nat, i <= Len(s)
    PROVE  Joined(Cat(a, Unvisited(s, i)), a, s, i)
<1>1. PICK b : b = Unvisited(s, i)
  OBVIOUS
<1>2. b \in Seq(QueueNodes) /\ Len(b) = Len(s) - i /\ \A j \in 1 .. Len(s) - i : b[j] = s[i + j]
  BY <1>1, UnvisitedIs
<1>3. PICK c : c = Cat(a, b)
  OBVIOUS
<1>4. c \in Seq(QueueNodes) /\ Len(c) = Len(a) + Len(b) /\ (\A j \in 1 .. Len(a) : c[j] = a[j])
      /\ \A j \in 1 .. Len(b) : c[Len(a) + j] = b[j]
  <2>1. a \in Seq(QueueNodes) /\ b \in Seq(QueueNodes)
    BY <1>2
  <2> QED BY <1>3, <2>1 DEF Cat
<1>5. \A j \in 1 .. Len(s) - i : c[Len(a) + j] = s[i + j]
  BY <1>2, <1>4
<1>6. Len(c) = Len(a) + (Len(s) - i)
  BY <1>2, <1>4
<1>7. Joined(c, a, s, i)
  BY <1>4, <1>5, <1>6 DEF Joined
<1> QED BY <1>1, <1>3, <1>7

\* The next node is kept: the nodes are the same.
LEMMA KeepJoined ==
    ASSUME NEW a \in Seq(QueueNodes), NEW s \in Seq(QueueNodes), NEW i \in Nat, i < Len(s)
    PROVE  Cat(Append(a, s[i + 1]), Unvisited(s, i + 1)) = Cat(a, Unvisited(s, i))
<1>0. PICK m : m = i + 1
  OBVIOUS
<1>1. PICK l : l = Len(s)
  OBVIOUS
<1>2. PICK x : x = Len(a)
  OBVIOUS
<1>3. PICK b : b = Append(a, s[m])
  OBVIOUS
<1>4. m \in Nat /\ m <= l /\ i <= l /\ l \in Nat /\ x \in Nat /\ m \in 1 .. l /\ i < l
  BY <1>0, <1>1, <1>2
<1>5. s[m] \in QueueNodes
  BY <1>1, <1>4
<1>6. b \in Seq(QueueNodes) /\ Len(b) = x + 1 /\ (\A j \in 1 .. x : b[j] = a[j]) /\ b[x + 1] = s[m]
  BY <1>2, <1>3, <1>5
<1>7. PICK c : c = Cat(b, Unvisited(s, m))
  OBVIOUS
<1>8. PICK d : d = Cat(a, Unvisited(s, i))
  OBVIOUS
<1>9. c \in Seq(QueueNodes) /\ Len(c) = (x + 1) + (l - m) /\ (\A j \in 1 .. x + 1 : c[j] = b[j])
      /\ \A j \in 1 .. l - m : c[(x + 1) + j] = s[m + j]
  <2>1. m <= Len(s)
    BY <1>1, <1>4
  <2>2. Joined(c, b, s, m)
    BY <1>4, <1>6, <1>7, <2>1, JoinedIs
  <2> QED BY <1>1, <1>6, <2>2 DEF Joined
<1>10. d \in Seq(QueueNodes) /\ Len(d) = x + (l - i) /\ (\A j \in 1 .. x : d[j] = a[j])
      /\ \A j \in 1 .. l - i : d[x + j] = s[i + j]
  <2>1. i <= Len(s)
    BY <1>1, <1>4
  <2>2. Joined(d, a, s, i)
    BY <1>8, <2>1, JoinedIs
  <2> QED BY <1>1, <1>2, <2>2 DEF Joined
<1>11. PICK z : z = x + (l - i)
  OBVIOUS
<1>12. Len(c) = z /\ Len(d) = z
  BY <1>0, <1>4, <1>9, <1>10, <1>11
<1>13. ASSUME NEW j \in 1 .. z PROVE c[j] = d[j]
  <2>1. CASE j <= x
    <3>1. j \in 1 .. x /\ j \in 1 .. x + 1
      BY <1>4, <2>1
    <3> QED BY <1>6, <1>9, <1>10, <3>1
  <2>2. CASE j = x + 1
    <3>1. x + 1 \in 1 .. x + 1 /\ 1 \in 1 .. l - i /\ i + 1 = m
      BY <1>0, <1>4
    <3>2. c[x + 1] = s[m] /\ d[x + 1] = s[i + 1]
      BY <1>6, <1>9, <1>10, <3>1
    <3> QED BY <2>2, <3>1, <3>2
  <2>3. CASE j > x + 1
    <3>1. PICK g : g = j - (x + 1)
      OBVIOUS
    <3>2. PICK h : h = j - x
      OBVIOUS
    <3>3. g \in 1 .. l - m /\ h \in 1 .. l - i /\ (x + 1) + g = j /\ x + h = j /\ m + g = i + h
      BY <1>0, <1>4, <1>11, <2>3, <3>1, <3>2
    <3>4. c[(x + 1) + g] = s[m + g] /\ d[x + h] = s[i + h]
      BY <1>9, <1>10, <3>3
    <3> QED BY <3>3, <3>4
  <2> QED BY <1>4, <2>1, <2>2, <2>3
<1>14. c = d
  BY <1>9, <1>10, <1>12, <1>13, SeqEqual
<1> QED BY <1>0, <1>3, <1>7, <1>8, <1>14

\* The next node is removed: it is the one behind those that are kept.
LEMMA DropJoined ==
    ASSUME NEW a \in Seq(QueueNodes), NEW s \in Seq(QueueNodes), NEW i \in Nat, i < Len(s)
    PROVE  /\ RemoveAt(Cat(a, Unvisited(s, i)), Len(a) + 1) = Cat(a, Unvisited(s, i + 1))
           /\ Len(a) < Len(Cat(a, Unvisited(s, i))) /\ Cat(a, Unvisited(s, i))[Len(a) + 1] = s[i + 1]
<1>0. PICK m : m = i + 1
  OBVIOUS
<1>1. PICK l : l = Len(s)
  OBVIOUS
<1>2. PICK x : x = Len(a)
  OBVIOUS
<1>4. m \in Nat /\ m <= l /\ i <= l /\ l \in Nat /\ x \in Nat /\ m \in 1 .. l /\ i < l
  BY <1>0, <1>1, <1>2
<1>7. PICK c : c = Cat(a, Unvisited(s, m))
  OBVIOUS
<1>8. PICK d : d = Cat(a, Unvisited(s, i))
  OBVIOUS
<1>9. c \in Seq(QueueNodes) /\ Len(c) = x + (l - m) /\ (\A j \in 1 .. x : c[j] = a[j])
      /\ \A j \in 1 .. l - m : c[x + j] = s[m + j]
  <2>1. m <= Len(s)
    BY <1>1, <1>4
  <2>2. Joined(c, a, s, m)
    BY <1>4, <1>7, <2>1, JoinedIs
  <2> QED BY <1>1, <1>2, <2>2 DEF Joined
<1>10. d \in Seq(QueueNodes) /\ Len(d) = x + (l - i) /\ (\A j \in 1 .. x : d[j] = a[j])
      /\ \A j \in 1 .. l - i : d[x + j] = s[i + j]
  <2>1. i <= Len(s)
    BY <1>1, <1>4
  <2>2. Joined(d, a, s, i)
    BY <1>8, <2>1, JoinedIs
  <2> QED BY <1>1, <1>2, <2>2 DEF Joined
<1>11. PICK z : z = Len(d)
  OBVIOUS
<1>12. z \in Nat /\ z = x + (l - i) /\ Len(c) = z - 1 /\ x < z
  BY <1>0, <1>4, <1>9, <1>10, <1>11
<1>13. PICK e : e = RemoveAt(d, x + 1)
  OBVIOUS
<1>14. e \in Seq(QueueNodes) /\ Len(e) = z - 1 /\ LacksAt(e, d, x, z - 1)
  BY <1>4, <1>10, <1>11, <1>12, <1>13, RemoveAtIs
<1>15. ASSUME NEW j \in 1 .. z - 1 PROVE e[j] = c[j]
  <2>0. e[j] = IF j <= x THEN d[j] ELSE d[j + 1]
    BY <1>14 DEF LacksAt
  <2>1. CASE j <= x
    <3>1. j \in 1 .. x
      BY <1>4, <2>1
    <3> QED BY <1>9, <1>10, <2>0, <2>1, <3>1
  <2>2. CASE ~(j <= x)
    <3>1. PICK g : g = j - x
      OBVIOUS
    <3>2. PICK h : h = (j - x) + 1
      OBVIOUS
    <3>3. g \in 1 .. l - m /\ h \in 1 .. l - i /\ x + g = j /\ x + h = j + 1 /\ m + g = i + h
      BY <1>0, <1>4, <1>12, <2>2, <3>1, <3>2
    <3>4. c[x + g] = s[m + g] /\ d[x + h] = s[i + h]
      BY <1>9, <1>10, <3>3
    <3> QED BY <2>0, <2>2, <3>3, <3>4
  <2> QED BY <2>1, <2>2
<1>16. e = c
  BY <1>9, <1>12, <1>14, <1>15, SeqEqual
<1>17. d[x + 1] = s[i + 1]
  <2>1. 1 \in 1 .. l - i
    BY <1>4
  <2> QED BY <1>10, <2>1
<1> QED BY <1>0, <1>2, <1>7, <1>8, <1>11, <1>12, <1>13, <1>16, <1>17

\* In the middle of a pass: the pointers lead through the nodes that were kept
\* and then through the rest, and the last node that was kept is the one that
\* was visited last unless that one was removed.
Midway(q, t, s, S, i) ==
    /\ t \in Seq(QueueNodes) /\ Linked(q, Cat(t, Unvisited(s, i)))
    /\ i = 0 => Len(t) = 0
    /\ i # 0 /\ s[i] \notin S => Len(t) # 0 /\ t[Len(t)] = s[i]

LEMMA MidwayStep ==
    ASSUME NEW s \in Seq(QueueNodes), NEW S, NEW i \in Nat, i < Len(s), NEW q, NEW t, Midway(q, t, s, S, i),
           i # 0 /\ s[i] \in S => s[i + 1] \notin S
    PROVE  Midway(SweepOne(q, s, S, i + 1), KeepOne(t, s, S, i + 1), s, S, i + 1)
<1>0. PICK m : m = i + 1
  OBVIOUS
<1>1. m \in Nat /\ m # 0 /\ m \in 1 .. Len(s) /\ m - 1 = i /\ (m = 1 <=> i = 0)
  BY <1>0
<1>2. t \in Seq(QueueNodes) /\ Len(t) \in Nat /\ s[m] \in QueueNodes
  BY <1>1 DEF Midway
<1>3. PICK u : u = Cat(t, Unvisited(s, i))
  OBVIOUS
<1>4. Linked(q, u)
  BY <1>3 DEF Midway
<1>5. PICK k : k = Len(t)
  OBVIOUS
<1>6. k \in Nat /\ k < Len(u) /\ u[k + 1] = s[m] /\ RemoveAt(u, k + 1) = Cat(t, Unvisited(s, m))
  BY <1>0, <1>2, <1>3, <1>5, DropJoined
<1>7. Joined(u, t, s, i)
  <2>1. i <= Len(s)
    OBVIOUS
  <2> QED BY <1>2, <1>3, <2>1, JoinedIs
<1>8. CASE s[m] \in S
  <2>1. PICK p : p = IF m = 1 THEN NULL ELSE s[m - 1]
    OBVIOUS
  <2>2. p = At(u, k)
    <3>1. CASE i = 0
      <4>1. k = 0 /\ p = NULL
        BY <1>1, <1>5, <2>1, <3>1 DEF Midway
      <4>2. At(u, 0) = NULL
        BY DEF At
      <4> QED BY <4>1, <4>2
    <3>2. CASE i # 0
      <4>1. s[i] \notin S
        BY <1>0, <1>8, <3>2
      <4>2. k # 0 /\ t[k] = s[i]
        BY <1>5, <3>2, <4>1 DEF Midway
      <4>3. k \in 1 .. k /\ k \in 1 .. Len(u)
        <5>1. Len(u) \in Nat
          BY <1>4 DEF Linked
        <5> QED BY <1>6, <4>2, <5>1
      <4>4. u[k] = t[k]
        BY <1>5, <1>7, <4>3 DEF Joined
      <4>5. At(u, k) = u[k]
        BY <4>3 DEF At
      <4>6. p = s[i]
        BY <1>1, <2>1, <3>2
      <4> QED BY <4>2, <4>4, <4>5, <4>6
    <3> QED BY <3>1, <3>2
  <2>3. SweepOne(q, s, S, m) = SqRemoved(q, u[k + 1], At(u, k))
    BY <1>6, <1>8, <2>1, <2>2 DEF SweepOne
  <2>4. KeepOne(t, s, S, m) = t
    BY <1>8 DEF KeepOne
  <2>5. Linked(SqRemoved(q, u[k + 1], At(u, k)), RemoveAt(u, k + 1))
    BY <1>4, <1>6, RemovedLinked
  <2>6. Linked(SweepOne(q, s, S, m), Cat(t, Unvisited(s, m)))
    BY <1>6, <2>3, <2>5, Zenon
  <2>7. Midway(SweepOne(q, s, S, m), t, s, S, m)
    BY <1>1, <1>2, <1>8, <2>6 DEF Midway
  <2> QED BY <1>0, <2>4, <2>7
<1>9. CASE s[m] \notin S
  <2>1. SweepOne(q, s, S, m) = q
    BY <1>9 DEF SweepOne
  <2>2. PICK b : b = Append(t, s[m])
    OBVIOUS
  <2>3. KeepOne(t, s, S, m) = b
    BY <1>9, <2>2 DEF KeepOne
  <2>4. b \in Seq(QueueNodes) /\ Len(b) = k + 1 /\ b[k + 1] = s[m]
    BY <1>2, <1>5, <2>2
  <2>5. Cat(b, Unvisited(s, m)) = u
    BY <1>0, <1>2, <1>3, <2>2, KeepJoined
  <2>6. Linked(q, Cat(b, Unvisited(s, m)))
    BY <1>4, <2>5
  <2>7. Len(b) # 0 /\ b[Len(b)] = s[m]
    BY <1>6, <2>4
  <2>8. Midway(q, b, s, S, m)
    BY <1>1, <2>4, <2>6, <2>7 DEF Midway
  <2> QED BY <1>0, <2>1, <2>3, <2>8
<1> QED BY <1>8, <1>9

LEMMA SqSweepStep ==
    ASSUME Linked(sq, sqRef), NEW S, SqSweep(S), ~adjacent'
    PROVE  Linked(sq', sqRef')
<1>0. PICK s : s = sqRef
  OBVIOUS
<1>1. PICK q : q = sq
  OBVIOUS
<1>2. Linked(q, s) /\ s \in Seq(QueueNodes) /\ q \in QueueType
  BY <1>0, <1>1 DEF Linked
<1>3. Chain(q) = s
  BY <1>2, ChainIs
<1>4. PICK n : n = Len(s)
  OBVIOUS
<1>5. n \in Nat
  BY <1>2, <1>4
<1>6. PICK f : f = CHOOSE h : Sweeps(h, q, s, S)
  OBVIOUS
<1>7. Sweeps(f, q, s, S)
  <2>1. \E h : Sweeps(h, q, s, S)
    BY <1>2, SweepsExists
  <2> QED BY <1>6, <2>1, Zenon
<1>8. sq' = f[n]
  BY <1>1, <1>3, <1>4, <1>6, SweptIs
<1>9. PICK g : g = CHOOSE h : Keeps(h, s, S)
  OBVIOUS
<1>10. Keeps(g, s, S)
  <2>1. \E h : Keeps(h, s, S)
    BY <1>2, KeepsExists
  <2> QED BY <1>9, <2>1, Zenon
<1>11. sqRef' = g[n]
  <2>1. sqRef' = Without(s, S)
    BY <1>0 DEF SqSweep
  <2> QED BY <1>4, <1>9, <2>1, WithoutIs
<1>12. ASSUME NEW i \in 2 .. n PROVE s[i - 1] \notin S \/ s[i] \notin S
  <2>1. ~\E j \in 2 .. Len(s) : {s[j - 1], s[j]} \subseteq S
    BY <1>1, <1>3 DEF SqSweep
  <2> QED BY <1>4, <2>1
<1>13. ASSUME NEW i \in 0 .. n PROVE f[i] = IF i = 0 THEN q ELSE SweepOne(f[i - 1], s, S, i)
  BY <1>4, <1>7, Zenon DEF Sweeps
<1>14. ASSUME NEW i \in 0 .. n PROVE g[i] = IF i = 0 THEN <<>> ELSE KeepOne(g[i - 1], s, S, i)
  BY <1>4, <1>10, Zenon DEF Keeps
<1> DEFINE Q == {i \in Nat : i <= n => Midway(f[i], g[i], s, S, i)}
<1>15. 0 \in Q
  <2>1. 0 \in 0 .. n
    BY <1>5
  <2>2. f[0] = q /\ g[0] = <<>>
    BY <1>13, <1>14, <2>1
  <2>3. PICK e : e = <<>>
    OBVIOUS
  <2>4. e \in Seq(QueueNodes) /\ Len(e) = 0
    BY <2>3
  <2>5. Joined(Cat(e, Unvisited(s, 0)), e, s, 0)
    <3>1. PICK z : z = 0
      OBVIOUS
    <3>2. z \in Nat /\ z <= Len(s) /\ s \in Seq(QueueNodes) /\ e \in Seq(QueueNodes)
      BY <1>2, <1>4, <1>5, <2>4, <3>1
    <3>3. Joined(Cat(e, Unvisited(s, z)), e, s, z)
      BY <3>2, JoinedIs
    <3> QED BY <3>1, <3>3
  <2>6. Cat(e, Unvisited(s, 0)) = s
    <3>1. PICK c : c = Cat(e, Unvisited(s, 0))
      OBVIOUS
    <3>2. c \in Seq(QueueNodes) /\ Len(c) = n /\ \A j \in 1 .. n : c[j] = s[j]
      BY <1>4, <1>5, <2>4, <2>5, <3>1 DEF Joined
    <3> QED BY <1>2, <1>4, <3>1, <3>2, SeqEqual
  <2>7. Midway(q, e, s, S, 0)
    BY <1>2, <2>4, <2>6 DEF Midway
  <2> QED BY <2>2, <2>3, <2>7
<1>16. ASSUME NEW i \in Nat, i \in Q PROVE i + 1 \in Q
  <2> SUFFICES ASSUME i + 1 <= n PROVE Midway(f[i + 1], g[i + 1], s, S, i + 1)
    OBVIOUS
  <2>1. Midway(f[i], g[i], s, S, i)
    BY <1>5, <1>16
  <2>2. PICK k : k = i + 1
    OBVIOUS
  <2>3. k \in 0 .. n /\ k # 0 /\ k - 1 = i /\ i < n
    BY <1>5, <2>2
  <2>4. f[k] = SweepOne(f[i], s, S, k) /\ g[k] = KeepOne(g[i], s, S, k)
    <3>1. f[k] = IF k = 0 THEN q ELSE SweepOne(f[k - 1], s, S, k)
      BY <1>13, <2>3
    <3>2. g[k] = IF k = 0 THEN <<>> ELSE KeepOne(g[k - 1], s, S, k)
      BY <1>14, <2>3
    <3> QED BY <2>3, <3>1, <3>2
  <2>5. i # 0 /\ s[i] \in S => s[i + 1] \notin S
    <3> SUFFICES ASSUME i # 0, s[i] \in S PROVE s[i + 1] \notin S
      OBVIOUS
    <3>1. k \in 2 .. n
      BY <1>5, <2>2, <2>3
    <3>2. s[k - 1] \notin S \/ s[k] \notin S
      BY <1>12, <3>1
    <3> QED BY <2>2, <2>3, <3>2
  <2>6. i < Len(s)
    BY <1>4, <2>3
  <2>7. Midway(SweepOne(f[i], s, S, i + 1), KeepOne(g[i], s, S, i + 1), s, S, i + 1)
    BY <1>2, <2>1, <2>5, <2>6, MidwayStep
  <2> QED BY <2>2, <2>4, <2>7
<1>17. Nat \subseteq Q
  <2> HIDE DEF Q
  <2> QED BY <1>15, <1>16, SetInduction
<1>18. Midway(f[n], g[n], s, S, n)
  BY <1>5, <1>17
<1>19. PICK t : t = g[n]
  OBVIOUS
<1>20. t \in Seq(QueueNodes) /\ Linked(f[n], Cat(t, Unvisited(s, n)))
  BY <1>18, <1>19 DEF Midway
<1>21. Cat(t, Unvisited(s, n)) = t
  <2>1. n <= Len(s)
    BY <1>4, <1>5
  <2>2. Joined(Cat(t, Unvisited(s, n)), t, s, n)
    BY <1>2, <1>5, <1>20, <2>1, JoinedIs
  <2>3. PICK c : c = Cat(t, Unvisited(s, n))
    OBVIOUS
  <2>4. PICK y : y = Len(t)
    OBVIOUS
  <2>5. y \in Nat /\ c \in Seq(QueueNodes) /\ Len(c) = y + (n - n) /\ \A j \in 1 .. y : c[j] = t[j]
    BY <1>4, <1>20, <2>2, <2>3, <2>4 DEF Joined
  <2>6. Len(c) = y
    BY <1>5, <2>5
  <2> QED BY <1>20, <2>3, <2>4, <2>5, <2>6, SeqEqual
<1> QED BY <1>8, <1>11, <1>19, <1>20, <1>21, Zenon

\* The queue is first in, first out for every finite set of nodes: following
\* the next pointers gives the nodes in the order they were added, through any
\* mix of adding, polling, clearing and passes that remove no two neighbours
\* (VTM_SQUEUE_ADD, VTM_SQUEUE_POLL, VTM_SQUEUE_CLEAR, VTM_SQUEUE_REMOVE).
THEOREM QueueIsSequence == QueueSpec => []QueueAsSequence
<1>1. SqInit => QueueInv
  BY SqInitInv
<1>2. QueueInv /\ [SqNext]_queueVars => QueueInv'
  <2> SUFFICES ASSUME QueueInv, [SqNext]_queueVars PROVE QueueInv'
    OBVIOUS
  <2>1. CASE UNCHANGED queueVars
    BY <2>1 DEF QueueInv, queueVars, Linked, At
  <2>2. CASE SqNext
    <3>0. ~adjacent /\ Linked(sq, sqRef) /\ adjacent \in BOOLEAN
      BY <2>2 DEF SqNext, QueueInv
    <3>1. ASSUME NEW n \in QueueNodes, SqAdd(n) PROVE QueueInv'
      <4>1. Linked(sq', sqRef') /\ adjacent' = adjacent
        BY <3>0, <3>1, SqAddStep DEF SqAdd
      <4> QED BY <3>0, <4>1 DEF QueueInv
    <3>2. CASE SqPoll
      <4>1. Linked(sq', sqRef') /\ adjacent' = adjacent
        BY <3>0, <3>2, SqPollStep DEF SqPoll
      <4> QED BY <3>0, <4>1 DEF QueueInv
    <3>3. ASSUME NEW S \in SUBSET QueueNodes, SqSweep(S) PROVE QueueInv'
      <4>1. adjacent' \in BOOLEAN
        BY <3>0, <3>3, Zenon DEF SqSweep
      <4>2. ~adjacent' => Linked(sq', sqRef')
        BY <3>0, <3>3, SqSweepStep
      <4> QED BY <4>1, <4>2 DEF QueueInv
    <3>4. CASE SqClear
      <4>1. Linked(sq', sqRef') /\ adjacent' = adjacent
        BY <3>0, <3>4, SqClearStep DEF SqClear
      <4> QED BY <3>0, <4>1 DEF QueueInv
    <3> QED BY <2>2, <3>1, <3>2, <3>3, <3>4 DEF SqNext
  <2> QED BY <2>1, <2>2
<1>3. QueueInv => QueueAsSequence
  <2> SUFFICES ASSUME QueueInv, ~adjacent
               PROVE  Chain(sq) = sqRef /\ sq.tail = IF sqRef = <<>> THEN NULL ELSE Last(sqRef)
    BY DEF QueueAsSequence
  <2>1. Linked(sq, sqRef)
    BY DEF QueueInv
  <2>2. Chain(sq) = sqRef
    BY <2>1, ChainIs
  <2>3. PICK s : s = sqRef
    OBVIOUS
  <2>4. s \in Seq(QueueNodes) /\ sq.tail = At(s, Len(s)) /\ Len(s) \in Nat
    BY <2>1, <2>3 DEF Linked
  <2>5. CASE s = <<>>
    <3>1. At(s, Len(s)) = NULL
      BY <2>5 DEF At
    <3> QED BY <2>2, <2>3, <2>4, <2>5, <3>1
  <2>6. CASE s # <<>>
    <3>1. Len(s) \in 1 .. Len(s)
      BY <2>4, <2>6
    <3>2. At(s, Len(s)) = s[Len(s)] /\ Last(s) = s[Len(s)]
      BY <3>1 DEF At, Last
    <3> QED BY <2>2, <2>3, <2>4, <2>6, <3>2
  <2> QED BY <2>5, <2>6
<1> QED BY <1>1, <1>2, <1>3, PTL DEF QueueSpec
=============================================================================
