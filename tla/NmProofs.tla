------------------------------ MODULE NmProofs ------------------------------
(***************************************************************************)
(* Proofs about one NM connection (NmStream): whatever the messages are,   *)
(* however long, and in whatever pieces their bytes arrive.                *)
(***************************************************************************)
EXTENDS NmStream, SeqLemmas, FiniteSetTheorems

-----------------------------------------------------------------------------
(* Bytes. *)

\* The first bytes of a stream are taken where they are wanted.
LEMMA TakeBytes ==
    ASSUME NEW a \in Seq(Byte), NEW x \in Seq(Byte), NEW b \in Seq(Byte), NEW r \in Seq(Byte),
           Cat(a, x) = Cat(b, r), Len(a) >= Len(b)
    PROVE  /\ SubSeq(a, 1, Len(b)) = b
           /\ SubSeq(a, Len(b) + 1, Len(a)) \in Seq(Byte)
           /\ Cat(SubSeq(a, Len(b) + 1, Len(a)), x) = r
<1>0. a \o x = b \o r
  BY DEF Cat
<1> DEFINE c == SubSeq(a, 1, Len(b))
           d == SubSeq(a, Len(b) + 1, Len(a))
<1>1. c \in Seq(Byte) /\ d \in Seq(Byte) /\ Len(c) = Len(b) /\ Len(d) = Len(a) - Len(b)
  OBVIOUS
<1>2. ASSUME NEW i \in 1 .. Len(b) PROVE c[i] = b[i]
  <2>1. (a \o x)[i] = a[i] /\ (b \o r)[i] = b[i]
    OBVIOUS
  <2> QED BY <1>0, <2>1
<1>3. c = b
  BY <1>1, <1>2
<1>4. Len(d \o x) = Len(r) /\ d \o x \in Seq(Byte)
  <2>1. Len(a \o x) = Len(a) + Len(x) /\ Len(b \o r) = Len(b) + Len(r)
    OBVIOUS
  <2>2. Len(d \o x) = Len(d) + Len(x) /\ d \o x \in Seq(Byte)
    BY <1>1
  <2> QED BY <1>0, <1>1, <2>1, <2>2
<1>5. ASSUME NEW i \in 1 .. Len(r) PROVE (d \o x)[i] = r[i]
  <2>1. (b \o r)[Len(b) + i] = r[i]
    OBVIOUS
  <2>2. CASE i <= Len(d)
    <3>1. (d \o x)[i] = d[i] /\ d[i] = a[Len(b) + i] /\ Len(b) + i \in 1 .. Len(a)
      BY <1>1, <2>2
    <3>2. (a \o x)[Len(b) + i] = a[Len(b) + i]
      BY <3>1
    <3> QED BY <1>0, <2>1, <3>1, <3>2
  <2>3. CASE i > Len(d)
    <3>1. (d \o x)[i] = x[i - Len(d)] /\ Len(b) + i > Len(a) /\ Len(b) + i <= Len(a) + Len(x)
      BY <1>1, <1>4, <2>3
    <3> DEFINE j == Len(b) + i
    <3>0. Len(a) \in Nat /\ Len(b) \in Nat /\ Len(x) \in Nat /\ Len(d) = Len(a) - Len(b)
      BY <1>1
    <3> HIDE DEF d
    <3>2. j \in 1 .. Len(a) + Len(x) /\ j > Len(a) /\ j - Len(a) = i - Len(d)
      BY <3>0, <3>1, SMT
    <3> HIDE DEF j
    <3>3. (a \o x)[j] = IF j <= Len(a) THEN a[j] ELSE x[j - Len(a)]
      BY <3>2, ConcatProperties
    <3>4. ~(j <= Len(a)) /\ j \in Int
      BY <3>0, <3>2
    <3> QED BY <1>0, <2>1, <3>1, <3>2, <3>3, <3>4 DEF j
  <2>4. Len(d) \in Nat /\ i \in Nat
    BY <1>1
  <2>5. i <= Len(d) \/ i > Len(d)
    <3> HIDE DEF d
    <3> QED BY <2>4
  <2> QED BY <2>2, <2>3, <2>5, Zenon
<1>6. d \o x = r
  <2> HIDE DEF d
  <2>1. \A i \in 1 .. Len(r) : (d \o x)[i] = r[i]
    BY <1>5
  <2> QED BY <1>4, <2>1, SeqEqual
<1> QED BY <1>1, <1>3, <1>6 DEF Cat

\* A number in two or four bytes is read back.
LEMMA NetRoundTrip2 ==
    ASSUME NEW n \in Nat, n < TwoTo16
    PROVE  NetBytes2(n) \in Seq(Byte) /\ Len(NetBytes2(n)) = 2 /\ NetNumber2(NetBytes2(n)) = n
<1>1. 256 * ((n \div 256) % 256) + (n % 256) = n
  BY SMT DEF TwoTo16
<1>2. (n \div 256) % 256 \in Byte /\ n % 256 \in Byte
  BY SMT DEF Byte
<1> DEFINE a == (n \div 256) % 256
           b == n % 256
<1> HIDE DEF a, b
<1>3. <<a, b>> \in Seq(Byte) /\ Len(<<a, b>>) = 2 /\ <<a, b>>[1] = a /\ <<a, b>>[2] = b
  BY <1>2 DEF a, b
<1> QED BY <1>1, <1>3, SMT DEF NetBytes2, NetNumber2, a, b

LEMMA NetRoundTrip4 ==
    ASSUME NEW n \in Nat, n \div TwoTo16 < TwoTo16
    PROVE  NetBytes4(n) \in Seq(Byte) /\ Len(NetBytes4(n)) = 4 /\ NetNumber4(NetBytes4(n)) = n
<1> DEFINE k == n \div 256
           q == k \div 256
           p == q \div 256
<1>1. k \in Nat /\ n = 256 * k + (n % 256)
  BY SMT
<1>2. q \in Nat /\ k = 256 * q + (k % 256)
  BY SMT
<1>3. q = n \div TwoTo16
  BY SMT DEF TwoTo16
<1>4. p \in Nat /\ q = 256 * p + (q % 256) /\ p % 256 = p
  BY <1>3, SMT DEF TwoTo16
<1>5. p % 256 \in Byte /\ q % 256 \in Byte /\ k % 256 \in Byte /\ n % 256 \in Byte
  BY <1>1, <1>2, <1>4, SMT DEF Byte
<1>6. NetBytes4(n) = <<p % 256, q % 256>> \o <<k % 256, n % 256>>
  BY DEF NetBytes4, NetBytes2
<1> DEFINE a == p % 256
           b == q % 256
           c == k % 256
           d == n % 256
<1>7. n = 256 * (256 * (256 * a + b) + c) + d
  BY <1>1, <1>2, <1>4
<1> HIDE DEF a, b, c, d
<1> DEFINE t == <<a, b>> \o <<c, d>>
<1>8. t \in Seq(Byte) /\ Len(t) = 4 /\ t[1] = a /\ t[2] = b /\ t[3] = c /\ t[4] = d
  BY <1>5 DEF a, b, c, d
<1>9. NetBytes4(n) = t
  BY <1>6 DEF a, b, c, d
<1> HIDE DEF t
<1>10. NetNumber4(t) = 256 * (256 * (256 * t[1] + t[2]) + t[3]) + t[4]
  BY DEF NetNumber4
<1>11. NetNumber4(t) = 256 * (256 * (256 * a + b) + c) + d
  BY <1>8, <1>10, ZenonT(60)
<1>12. NetNumber4(t) = n
  BY <1>7, <1>11, Zenon
<1> QED BY <1>8, <1>9, <1>12, Zenon

LEMMA NetNumbers ==
    ASSUME NEW b \in Seq(Byte)
    PROVE  (Len(b) = 2 => NetNumber2(b) \in Nat) /\ (Len(b) = 4 => NetNumber4(b) \in Nat)
<1>0. Byte \subseteq Nat
  BY DEF Byte
<1>0a. \A i \in 1 .. Len(b) : b[i] \in Byte
  BY ElementOfSeq
<1>1. \A i \in 1 .. Len(b) : b[i] \in Nat
  BY <1>0, <1>0a
<1>2. CASE Len(b) = 2
  <2>1. 1 \in 1 .. Len(b) /\ 2 \in 1 .. Len(b)
    BY <1>2
  <2>2. b[1] \in Nat /\ b[2] \in Nat
    BY <1>1, <2>1
  <2>3. 256 * b[1] + b[2] \in Nat
    BY <2>2, SMT
  <2> QED BY <1>2, <2>3, SMT DEF NetNumber2
<1>3. CASE Len(b) = 4
  <2>1. 1 \in 1 .. Len(b) /\ 2 \in 1 .. Len(b) /\ 3 \in 1 .. Len(b) /\ 4 \in 1 .. Len(b)
    BY <1>3
  <2>2. b[1] \in Nat /\ b[2] \in Nat /\ b[3] \in Nat /\ b[4] \in Nat
    BY <1>1, <2>1
  <2>3. 256 * b[1] + b[2] \in Nat
    BY <2>2, SMT
  <2> DEFINE e == 256 * b[1] + b[2]
             f == 256 * e + b[3]
  <2> HIDE DEF e
  <2>3a. f \in Nat
    BY <2>2, <2>3, SMTT(60) DEF e
  <2> HIDE DEF f
  <2>3b. 256 * f + b[4] \in Nat
    BY <2>2, <2>3a, SMT
  <2>4. 256 * (256 * (256 * b[1] + b[2]) + b[3]) + b[4] \in Nat
    BY <2>3b DEF e, f
  <2> QED BY <1>3, <2>4, SMT DEF NetNumber4
<1> QED BY <1>2, <1>3

\* The byte order of the host is undone by the other side.
LEMMA HostNetTwice ==
    ASSUME NEW b \in Seq(Byte)
    PROVE  HostNet(b) \in Seq(Byte) /\ Len(HostNet(b)) = Len(b) /\ HostNet(HostNet(b)) = b
BY DEF HostNet, Reverse

-----------------------------------------------------------------------------
(* One turn of the parser, on any bytes. *)

WireTypes == {TypeOfNum[n] : n \in DOMAIN TypeOfNum}

FieldStates == {"NAME_LEN", "NAME", "VALUE_TYPE", "VALUE_LEN", "VALUE", "FIELD_COMPLETE"}
ParStates == FieldStates \cup {"MSG_BEGIN", "MAGIC", "VERSION", "FIELD_COUNT", "FIELD_BEGIN", "MSG_COMPLETE"}

ParType(p) ==
    p \in [state : ParStates, msg : {p.msg}, field_count : Nat, fields_parsed : Nat, name_len : Nat,
           name : Seq(Byte), type : WireTypes, value_len : Nat, value : Seq(Byte)]

\* In the middle of a field there is one left to count, and a name has a
\* length: so each field is counted before the count is compared.
ParOK(p) ==
    /\ ParType(p)
    /\ p.fields_parsed <= p.field_count
    /\ p.state \in FieldStates => p.fields_parsed < p.field_count
    /\ p.state = "NAME" => p.name_len > 0

Stats == {"RUN", "AGAIN", "COMPLETE", "INVALID"}
RunType(s) == s \in [par : {s.par}, buf : Seq(Byte), stat : Stats]
RunOK(s) == RunType(s) /\ ParOK(s.par)

\* A turn takes a byte or leads on to a state of a lower rank.
Rank(state) == CASE state = "VALUE" -> 4 [] state = "FIELD_COMPLETE" -> 3
                 [] state \in {"FIELD_BEGIN", "MSG_BEGIN"} -> 2 [] OTHER -> 1
Fuel(s) == 7 * Len(s.buf) + Rank(s.par.state)

\* The turns of the loop, state by state: what a run becomes.
Run(q, b, stat) == [par |-> q, buf |-> b, stat |-> stat]
Dropped(s, n) == SubSeq(s.buf, n + 1, Len(s.buf))
Taken(s, n) == SubSeq(s.buf, 1, n)

LEMMA DropType ==
    ASSUME NEW s, RunType(s), NEW n \in Nat, Len(s.buf) >= n
    PROVE  /\ Dropped(s, n) \in Seq(Byte) /\ Len(Dropped(s, n)) = Len(s.buf) - n
           /\ Taken(s, n) \in Seq(Byte) /\ Len(Taken(s, n)) = n
BY DEF RunType, Dropped, Taken

LEMMA RunShape ==
    ASSUME NEW s, RunType(s)
    PROVE  s = Run(s.par, s.buf, s.stat)
BY DEF RunType, Run

\* A state that waits for bytes stops until they are there.
LEMMA StepWaits ==
    ASSUME NEW s, RunType(s), ParType(s.par), s.stat = "RUN",
           NEW n \in Nat, Len(s.buf) < n,
           \/ s.par.state \in {"MAGIC", "VERSION", "NAME_LEN", "VALUE_TYPE"} /\ n = 1
           \/ s.par.state = "FIELD_COUNT" /\ n = 2
           \/ s.par.state = "NAME" /\ n = s.par.name_len
           \/ s.par.state = "VALUE_LEN" /\ n = 4
           \/ s.par.state = "VALUE" /\ n = s.par.value_len
    PROVE  ParserStep(s) = Run(s.par, s.buf, "AGAIN")
<1>1. ParserStep(s) = Stop(s, "AGAIN")
  <2>1. CASE s.par.state \in {"MAGIC", "VERSION"} /\ n = 1
    BY <2>1 DEF ParserStep, Expect, Take
  <2>2. CASE s.par.state = "NAME_LEN" /\ n = 1
    BY <2>2 DEF ParserStep, NameLen, Take
  <2>3. CASE s.par.state = "VALUE_TYPE" /\ n = 1
    BY <2>3 DEF ParserStep, ValueType, Take
  <2>4. CASE s.par.state = "FIELD_COUNT" /\ n = 2
    BY <2>4 DEF ParserStep, FieldCount, Take
  <2>5. CASE s.par.state = "NAME" /\ n = s.par.name_len
    BY <2>5 DEF ParserStep, Name, Take
  <2>6. CASE s.par.state = "VALUE_LEN" /\ n = 4
    BY <2>6 DEF ParserStep, ValueLen, Take
  <2>7. CASE s.par.state = "VALUE" /\ n = s.par.value_len
    BY <2>7 DEF ParserStep, Value, Take
  <2> QED BY <2>1, <2>2, <2>3, <2>4, <2>5, <2>6, <2>7
<1> QED BY <1>1 DEF Stop, Run, RunType

LEMMA StepMoves ==
    ASSUME NEW s, RunType(s), ParType(s.par), s.stat = "RUN"
    PROVE  LET p == s.par
           IN  /\ p.state = "MSG_BEGIN" => ParserStep(s) = Run([p EXCEPT !.state = "MAGIC"], s.buf, "RUN")
               /\ p.state = "FIELD_BEGIN" =>
                    ParserStep(s) = Run([p EXCEPT !.state = IF p.fields_parsed = p.field_count
                                                            THEN "MSG_COMPLETE" ELSE "NAME_LEN"],
                                        s.buf, "RUN")
               /\ p.state = "MSG_COMPLETE" => ParserStep(s) = Run(p, s.buf, "COMPLETE")
               /\ p.state = "FIELD_COMPLETE" =>
                    LET old == IF p.msg = {} THEN <<>> ELSE CHOOSE d \in p.msg : TRUE
                        fld == [type |-> p.type, value |-> p.value]
                        new == [x \in DOMAIN old \cup {p.name} |-> IF x = p.name THEN fld ELSE old[x]]
                    IN  ParserStep(s) = Run([p EXCEPT !.msg = {new}, !.name = <<>>,
                                                      !.fields_parsed = @ + 1, !.state = "FIELD_BEGIN"],
                                            s.buf, "RUN")
BY DEF ParserStep, Goto, Stop, FieldComplete, Run, RunType

LEMMA StepTakes ==
    ASSUME NEW s, RunType(s), ParType(s.par), s.stat = "RUN"
    PROVE  LET p == s.par
           IN  /\ p.state = "MAGIC" /\ Len(s.buf) >= 1 =>
                    ParserStep(s) = IF Taken(s, 1)[1] = MAGIC
                                    THEN Run([p EXCEPT !.state = "VERSION"], Dropped(s, 1), "RUN")
                                    ELSE Run(p, Dropped(s, 1), "INVALID")
               /\ p.state = "VERSION" /\ Len(s.buf) >= 1 =>
                    ParserStep(s) = IF Taken(s, 1)[1] = VER_1
                                    THEN Run([p EXCEPT !.state = "FIELD_COUNT"], Dropped(s, 1), "RUN")
                                    ELSE Run(p, Dropped(s, 1), "INVALID")
               /\ p.state = "FIELD_COUNT" /\ Len(s.buf) >= 2 =>
                    ParserStep(s) = Run([p EXCEPT !.field_count = NetNumber2(Taken(s, 2)), !.fields_parsed = 0,
                                                  !.state = "FIELD_BEGIN"], Dropped(s, 2), "RUN")
               /\ p.state = "NAME_LEN" /\ Len(s.buf) >= 1 =>
                    ParserStep(s) = IF Taken(s, 1)[1] = 0
                                    THEN Run([p EXCEPT !.name_len = 0], Dropped(s, 1), "INVALID")
                                    ELSE Run([p EXCEPT !.name_len = Taken(s, 1)[1], !.state = "NAME"],
                                             Dropped(s, 1), "RUN")
               /\ p.state = "NAME" /\ Len(s.buf) >= p.name_len =>
                    ParserStep(s) = Run([p EXCEPT !.name = Taken(s, p.name_len), !.state = "VALUE_TYPE"],
                                        Dropped(s, p.name_len), "RUN")
               /\ p.state = "VALUE_TYPE" /\ Len(s.buf) >= 1 =>
                    LET k == Taken(s, 1)[1]
                        e == TypeOfNum[k]
                    IN  ParserStep(s) =
                          IF k \notin DOMAIN TypeOfNum THEN Run(p, Dropped(s, 1), "INVALID")
                          ELSE IF HasLength(e)
                          THEN Run([p EXCEPT !.type = e, !.state = "VALUE_LEN"], Dropped(s, 1), "RUN")
                          ELSE Run([p EXCEPT !.type = e, !.value_len = ElemSize(e), !.state = "VALUE"],
                                   Dropped(s, 1), "RUN")
               /\ p.state = "VALUE_LEN" /\ Len(s.buf) >= 4 =>
                    ParserStep(s) = Run([p EXCEPT !.value_len = NetNumber4(Taken(s, 4)), !.state = "VALUE"],
                                        Dropped(s, 4), "RUN")
               /\ p.state = "VALUE" /\ Len(s.buf) >= p.value_len =>
                    LET b == Taken(s, p.value_len)
                    IN  ParserStep(s) = Run([p EXCEPT !.value = IF HasLength(p.type) THEN b ELSE HostNet(b),
                                                      !.state = "FIELD_COMPLETE"],
                                            Dropped(s, p.value_len), "RUN")
<1> DEFINE p == s.par
<1>0. s = [par |-> s.par, buf |-> s.buf, stat |-> "RUN"]
  BY DEF RunType
<1>0a. Len(s.buf) \in Nat /\ p.name_len \in Nat /\ p.value_len \in Nat
  BY DEF RunType, ParType
<1>0b. /\ \A k : Len(s.buf) >= 1 /\ k = 1 => ~(Len(s.buf) < k)
       /\ Len(s.buf) >= 2 => ~(Len(s.buf) < 2)
       /\ Len(s.buf) >= 4 => ~(Len(s.buf) < 4)
       /\ Len(s.buf) >= p.name_len => ~(Len(s.buf) < p.name_len)
       /\ Len(s.buf) >= p.value_len => ~(Len(s.buf) < p.value_len)
  BY <1>0a
<1> DEFINE b == Taken(s, 1)[1]
<1>1. CASE p.state \in {"MAGIC", "VERSION"}
  <2> DEFINE byte == IF p.state = "MAGIC" THEN MAGIC ELSE VER_1
             next == IF p.state = "MAGIC" THEN "VERSION" ELSE "FIELD_COUNT"
  <2> SUFFICES ASSUME Len(s.buf) >= 1
               PROVE  ParserStep(s) = IF b = byte THEN Run([p EXCEPT !.state = next], Dropped(s, 1), "RUN")
                                      ELSE Run(p, Dropped(s, 1), "INVALID")
    BY <1>1
  <2>1. ParserStep(s) = Expect(s, byte, next)
    BY <1>1 DEF ParserStep
  <2> HIDE DEF byte, next
  <2>2. CASE b = byte
    <3>1. Expect(s, byte, next) = Run([p EXCEPT !.state = next], Dropped(s, 1), "RUN")
      BY <1>0, <1>0b, <2>2 DEF Expect, Take, Goto, Run, Dropped, Taken
    <3> QED BY <2>1, <2>2, <3>1
  <2>3. CASE b # byte
    <3>1. Expect(s, byte, next) = Run(p, Dropped(s, 1), "INVALID")
      BY <1>0, <1>0b, <2>3 DEF Expect, Take, Stop, Run, Dropped, Taken
    <3> QED BY <2>1, <2>3, <3>1
  <2> QED BY <2>2, <2>3
<1>2. CASE p.state = "FIELD_COUNT"
  BY <1>0, <1>0b, <1>2 DEF ParserStep, FieldCount, Take, Run, Dropped, Taken
<1>3. CASE p.state = "NAME_LEN"
  <2> SUFFICES ASSUME Len(s.buf) >= 1
               PROVE  ParserStep(s) = IF b = 0 THEN Run([p EXCEPT !.name_len = 0], Dropped(s, 1), "INVALID")
                                      ELSE Run([p EXCEPT !.name_len = b, !.state = "NAME"], Dropped(s, 1), "RUN")
    BY <1>3
  <2>1. ParserStep(s) = NameLen(s)
    BY <1>3 DEF ParserStep
  <2>2. CASE b = 0
    <3>1. NameLen(s) = Run([p EXCEPT !.name_len = 0], Dropped(s, 1), "INVALID")
      BY <1>0, <1>0b, <2>2 DEF NameLen, Take, Stop, Run, Dropped, Taken
    <3> QED BY <2>1, <2>2, <3>1
  <2>3. CASE b # 0
    <3>1. NameLen(s) = Run([p EXCEPT !.name_len = b, !.state = "NAME"], Dropped(s, 1), "RUN")
      BY <1>0, <1>0b, <2>3 DEF NameLen, Take, Stop, Run, Dropped, Taken
    <3> QED BY <2>1, <2>3, <3>1
  <2> QED BY <2>2, <2>3
<1>4. CASE p.state = "NAME"
  BY <1>0, <1>0b, <1>4 DEF ParserStep, Name, Take, Run, Dropped, Taken
<1>5. CASE p.state = "VALUE_TYPE"
  <2> DEFINE e == TypeOfNum[b]
  <2> SUFFICES ASSUME Len(s.buf) >= 1
               PROVE  ParserStep(s) =
                          IF b \notin DOMAIN TypeOfNum THEN Run(p, Dropped(s, 1), "INVALID")
                          ELSE IF HasLength(e)
                          THEN Run([p EXCEPT !.type = e, !.state = "VALUE_LEN"], Dropped(s, 1), "RUN")
                          ELSE Run([p EXCEPT !.type = e, !.value_len = ElemSize(e), !.state = "VALUE"],
                                   Dropped(s, 1), "RUN")
    BY <1>5
  <2>1. ParserStep(s) = ValueType(s)
    BY <1>5 DEF ParserStep
  <2>2. CASE b \notin DOMAIN TypeOfNum
    <3>1. ValueType(s) = Run(p, Dropped(s, 1), "INVALID")
      BY <1>0, <1>0b, <2>2 DEF ValueType, Take, Stop, Run, Dropped, Taken
    <3> QED BY <2>1, <2>2, <3>1
  <2>3. CASE b \in DOMAIN TypeOfNum /\ HasLength(e)
    <3>1. ValueType(s) = Run([p EXCEPT !.type = e, !.state = "VALUE_LEN"], Dropped(s, 1), "RUN")
      BY <1>0, <1>0b, <2>3 DEF ValueType, Take, Stop, Run, Dropped, Taken
    <3> QED BY <2>1, <2>3, <3>1
  <2>4. CASE b \in DOMAIN TypeOfNum /\ ~HasLength(e)
    <3>1. ValueType(s) = Run([p EXCEPT !.type = e, !.value_len = ElemSize(e), !.state = "VALUE"],
                             Dropped(s, 1), "RUN")
      BY <1>0, <1>0b, <2>4 DEF ValueType, Take, Stop, Run, Dropped, Taken
    <3> QED BY <2>1, <2>4, <3>1
  <2> QED BY <2>2, <2>3, <2>4
<1>6. CASE p.state = "VALUE_LEN"
  BY <1>0, <1>0b, <1>6 DEF ParserStep, ValueLen, Take, Run, Dropped, Taken
<1>7. CASE p.state = "VALUE"
  BY <1>0, <1>0b, <1>7 DEF ParserStep, Value, Take, Run, Dropped, Taken
<1>8. CASE p.state \notin {"MAGIC", "VERSION", "FIELD_COUNT", "NAME_LEN", "NAME", "VALUE_TYPE", "VALUE_LEN", "VALUE"}
  BY <1>8
<1> QED BY <1>1, <1>2, <1>3, <1>4, <1>5, <1>6, <1>7, <1>8

LEMMA RunParts ==
    ASSUME NEW q, NEW b, NEW stat
    PROVE  /\ Run(q, b, stat).par = q /\ Run(q, b, stat).buf = b /\ Run(q, b, stat).stat = stat
           /\ b \in Seq(Byte) /\ stat \in Stats => RunType(Run(q, b, stat))
           /\ b \in Seq(Byte) /\ stat \in Stats /\ ParOK(q) => RunOK(Run(q, b, stat))
BY DEF Run, RunType, RunOK

\* One turn keeps ParOK whatever the bytes are, and uses up fuel.
LEMMA StepOK ==
    ASSUME NEW s, RunOK(s), s.stat = "RUN"
    PROVE  /\ RunOK(ParserStep(s))
           /\ ParserStep(s).stat = "RUN" => Fuel(ParserStep(s)) < Fuel(s)
<1> DEFINE p == s.par
           Good(q, b, stat) == ParOK(q) /\ b \in Seq(Byte) /\ stat \in Stats
                               /\ (stat = "RUN" => 7 * Len(b) + Rank(q.state) < 7 * Len(s.buf) + Rank(p.state))
<1>0. /\ RunType(s) /\ ParType(p) /\ ParOK(p) /\ s.buf \in Seq(Byte) /\ Len(s.buf) \in Nat
      /\ p.name_len \in Nat /\ p.value_len \in Nat /\ p.state \in ParStates
  BY DEF RunOK, RunType, ParOK, ParType
<1> SUFFICES \E q, b, stat : ParserStep(s) = Run(q, b, stat) /\ Good(q, b, stat)
  BY RunParts DEF Fuel
<1>wait. ASSUME ParserStep(s) = Run(p, s.buf, "AGAIN")
         PROVE  \E q, b, stat : ParserStep(s) = Run(q, b, stat) /\ Good(q, b, stat)
  <2>1. Good(p, s.buf, "AGAIN")
    BY <1>0 DEF Stats
  <2> HIDE DEF Good
  <2> QED BY <1>wait, <2>1
<1>drop. ASSUME NEW n \in Nat, Len(s.buf) >= n
         PROVE  /\ Dropped(s, n) \in Seq(Byte) /\ Len(Dropped(s, n)) = Len(s.buf) - n
                /\ Taken(s, n) \in Seq(Byte) /\ Len(Taken(s, n)) = n
  BY <1>drop, <1>0, DropType
<1>one. ASSUME Len(s.buf) >= 1 PROVE Taken(s, 1)[1] \in 0 .. 255
  <2>1. Taken(s, 1) \in Seq(Byte) /\ Len(Taken(s, 1)) = 1
    BY <1>one, <1>drop
  <2>2. Taken(s, 1)[1] \in Byte
    BY <2>1
  <2> QED BY <2>2 DEF Byte
<1>1. CASE p.state = "MSG_BEGIN"
  <2>1. ParserStep(s) = Run([p EXCEPT !.state = "MAGIC"], s.buf, "RUN")
    BY <1>0, <1>1, StepMoves
  <2>2. Good([p EXCEPT !.state = "MAGIC"], s.buf, "RUN")
    <3> DEFINE q == [p EXCEPT !.state = "MAGIC"]
    <3>1. ParType(q)
      BY <1>0, <1>1 DEF ParType, ParStates, FieldStates
    <3>2. q.state = "MAGIC" /\ q.fields_parsed = p.fields_parsed /\ q.field_count = p.field_count
      BY <1>0, <1>1 DEF ParType
    <3>3. s.buf \in Seq(Byte) /\ Len(s.buf) \in Nat
      BY <1>0
    <3> HIDE DEF q
    <3>4. ParOK(q)
      BY <1>0, <1>1, <3>1, <3>2 DEF ParOK, ParType, FieldStates
    <3>5. 7 * Len(s.buf) + Rank(q.state) < 7 * Len(s.buf) + Rank(p.state)
      BY <1>0, <1>1, <3>2, <3>3 DEF Rank
    <3> QED BY <3>3, <3>4, <3>5 DEF Stats, q
  <2> HIDE DEF Good
  <2> QED BY <2>1, <2>2
<1>2. CASE p.state = "MAGIC"
  <2>1. CASE Len(s.buf) < 1
    BY <1>0, <1>2, <2>1, <1>wait, StepWaits
  <2>2. CASE Len(s.buf) >= 1
    <3>1. ParserStep(s) = IF Taken(s, 1)[1] = MAGIC
                          THEN Run([p EXCEPT !.state = "VERSION"], Dropped(s, 1), "RUN")
                          ELSE Run(p, Dropped(s, 1), "INVALID")
      BY <1>0, <1>2, <2>2, StepTakes
    <3>2. Good([p EXCEPT !.state = "VERSION"], Dropped(s, 1), "RUN")
      <4> DEFINE q == [p EXCEPT !.state = "VERSION"]
      <4>1. ParType(q)
        BY <1>0, <1>2, <2>2 DEF ParType, ParStates, FieldStates
      <4>2. q.state = "VERSION" /\ q.fields_parsed = p.fields_parsed /\ q.field_count = p.field_count
        BY <1>0, <1>2, <2>2 DEF ParType
      <4>3. Dropped(s, 1) \in Seq(Byte) /\ Len(Dropped(s, 1)) \in Nat /\ Len(Dropped(s, 1)) = Len(s.buf) - 1
        BY <1>0, <1>drop, <2>2
      <4> HIDE DEF q
      <4>4. ParOK(q)
        BY <1>0, <1>2, <2>2, <4>1, <4>2 DEF ParOK, ParType, FieldStates
      <4>5. 7 * Len(Dropped(s, 1)) + Rank(q.state) < 7 * Len(s.buf) + Rank(p.state)
        BY <1>0, <1>2, <2>2, <4>2, <4>3 DEF Rank
      <4> QED BY <4>3, <4>4, <4>5 DEF Stats, q
    <3>3. Good(p, Dropped(s, 1), "INVALID")
      BY <1>0, <1>drop, <2>2 DEF Stats
    <3> HIDE DEF Good
    <3> QED BY <3>1, <3>2, <3>3, SMTT(60)
  <2> QED BY <2>1, <2>2, <1>0
<1>3. CASE p.state = "VERSION"
  <2>1. CASE Len(s.buf) < 1
    BY <1>0, <1>3, <2>1, <1>wait, StepWaits
  <2>2. CASE Len(s.buf) >= 1
    <3>1. ParserStep(s) = IF Taken(s, 1)[1] = VER_1
                          THEN Run([p EXCEPT !.state = "FIELD_COUNT"], Dropped(s, 1), "RUN")
                          ELSE Run(p, Dropped(s, 1), "INVALID")
      BY <1>0, <1>3, <2>2, StepTakes
    <3>2. Good([p EXCEPT !.state = "FIELD_COUNT"], Dropped(s, 1), "RUN")
      <4> DEFINE q == [p EXCEPT !.state = "FIELD_COUNT"]
      <4>1. ParType(q)
        BY <1>0, <1>3, <2>2 DEF ParType, ParStates, FieldStates
      <4>2. q.state = "FIELD_COUNT" /\ q.fields_parsed = p.fields_parsed /\ q.field_count = p.field_count
        BY <1>0, <1>3, <2>2 DEF ParType
      <4>3. Dropped(s, 1) \in Seq(Byte) /\ Len(Dropped(s, 1)) \in Nat /\ Len(Dropped(s, 1)) = Len(s.buf) - 1
        BY <1>0, <1>drop, <2>2
      <4> HIDE DEF q
      <4>4. ParOK(q)
        BY <1>0, <1>3, <2>2, <4>1, <4>2 DEF ParOK, ParType, FieldStates
      <4>5. 7 * Len(Dropped(s, 1)) + Rank(q.state) < 7 * Len(s.buf) + Rank(p.state)
        BY <1>0, <1>3, <2>2, <4>2, <4>3 DEF Rank
      <4> QED BY <4>3, <4>4, <4>5 DEF Stats, q
    <3>3. Good(p, Dropped(s, 1), "INVALID")
      BY <1>0, <1>drop, <2>2 DEF Stats
    <3> HIDE DEF Good
    <3> QED BY <3>1, <3>2, <3>3, SMTT(60)
  <2> QED BY <2>1, <2>2, <1>0
<1>4. CASE p.state = "FIELD_COUNT"
  <2>1. CASE Len(s.buf) < 2
    BY <1>0, <1>4, <2>1, <1>wait, StepWaits
  <2>2. CASE Len(s.buf) >= 2
    <3> DEFINE n == NetNumber2(Taken(s, 2))
    <3>1. ParserStep(s) = Run([p EXCEPT !.field_count = n, !.fields_parsed = 0, !.state = "FIELD_BEGIN"],
                              Dropped(s, 2), "RUN")
      BY <1>0, <1>4, <2>2, StepTakes
    <3>2. n \in Nat
      BY <1>drop, <2>2, NetNumbers
    <3> HIDE DEF n
    <3>3. Good([p EXCEPT !.field_count = n, !.fields_parsed = 0, !.state = "FIELD_BEGIN"], Dropped(s, 2), "RUN")
      <4> DEFINE q == [p EXCEPT !.field_count = n, !.fields_parsed = 0, !.state = "FIELD_BEGIN"]
      <4>1. ParType(q)
        BY <1>0, <1>4, <2>2, <3>2 DEF ParType, ParStates, FieldStates
      <4>2. q.state = "FIELD_BEGIN" /\ q.field_count = n /\ q.fields_parsed = 0
        BY <1>0, <1>4, <2>2, <3>2 DEF ParType
      <4>3. Dropped(s, 2) \in Seq(Byte) /\ Len(Dropped(s, 2)) \in Nat /\ Len(Dropped(s, 2)) = Len(s.buf) - 2
        BY <1>0, <1>drop, <2>2
      <4> HIDE DEF q
      <4>4. ParOK(q)
        BY <1>0, <1>4, <2>2, <3>2, <4>1, <4>2 DEF ParOK, ParType, FieldStates
      <4>5. 7 * Len(Dropped(s, 2)) + Rank(q.state) < 7 * Len(s.buf) + Rank(p.state)
        BY <1>0, <1>4, <2>2, <3>2, <4>2, <4>3, SMTT(60) DEF Rank
      <4> QED BY <4>3, <4>4, <4>5 DEF Stats, q
    <3> HIDE DEF Good
    <3> QED BY <3>1, <3>3, SMTT(60)
  <2> QED BY <2>1, <2>2, <1>0
<1>5. CASE p.state = "FIELD_BEGIN"
  <2> DEFINE q == [p EXCEPT !.state = IF p.fields_parsed = p.field_count THEN "MSG_COMPLETE" ELSE "NAME_LEN"]
  <2>1. ParserStep(s) = Run(q, s.buf, "RUN")
    BY <1>0, <1>5, StepMoves
  <2>2. Good(q, s.buf, "RUN")
    <3>1. ParType(q)
      BY <1>0 DEF ParType, ParStates, FieldStates
    <3>2. /\ q.state = IF p.fields_parsed = p.field_count THEN "MSG_COMPLETE" ELSE "NAME_LEN"
          /\ q.fields_parsed = p.fields_parsed /\ q.field_count = p.field_count
      BY <1>0 DEF ParType
    <3> HIDE DEF q
    <3>3. ParOK(q)
      BY <1>0, <3>1, <3>2 DEF ParOK, ParType, FieldStates
    <3> QED BY <1>0, <1>5, <3>2, <3>3 DEF Rank, Stats
  <2> HIDE DEF Good, q
  <2> QED BY <2>1, <2>2
<1>6. CASE p.state = "NAME_LEN"
  <2>1. CASE Len(s.buf) < 1
    BY <1>0, <1>6, <2>1, <1>wait, StepWaits
  <2>2. CASE Len(s.buf) >= 1
    <3> DEFINE b == Taken(s, 1)[1]
    <3>1. ParserStep(s) = IF b = 0 THEN Run([p EXCEPT !.name_len = 0], Dropped(s, 1), "INVALID")
                          ELSE Run([p EXCEPT !.name_len = b, !.state = "NAME"], Dropped(s, 1), "RUN")
      BY <1>0, <1>6, <2>2, StepTakes
    <3>2. b \in 0 .. 255
      BY <1>one, <2>2
    <3> HIDE DEF b
    <3>3. Good([p EXCEPT !.name_len = 0], Dropped(s, 1), "INVALID")
      <4> DEFINE q == [p EXCEPT !.name_len = 0]
      <4>1. ParType(q)
        BY <1>0 DEF ParType
      <4>2. q.state = p.state /\ q.fields_parsed = p.fields_parsed /\ q.field_count = p.field_count
        BY <1>0 DEF ParType
      <4> HIDE DEF q
      <4>3. ParOK(q)
        BY <1>0, <1>6, <4>1, <4>2 DEF ParOK, ParType, FieldStates
      <4> QED BY <1>drop, <2>2, <4>3 DEF Stats, q
    <3>4. ASSUME b # 0 PROVE Good([p EXCEPT !.name_len = b, !.state = "NAME"], Dropped(s, 1), "RUN")
      <4> DEFINE q == [p EXCEPT !.name_len = b, !.state = "NAME"]
      <4>0. b \in Nat
        BY <3>2
      <4>1. ParType(q)
        BY <1>0, <4>0 DEF ParType, ParStates, FieldStates
      <4>2. q.state = "NAME" /\ q.name_len = b /\ q.fields_parsed = p.fields_parsed /\ q.field_count = p.field_count
        BY <3>4, <1>0, <1>6, <2>2, <3>2 DEF ParType
      <4>3. Dropped(s, 1) \in Seq(Byte) /\ Len(Dropped(s, 1)) \in Nat /\ Len(Dropped(s, 1)) = Len(s.buf) - 1
        BY <1>0, <1>drop, <2>2
      <4> HIDE DEF q
      <4>4. ParOK(q)
        BY <3>4, <1>0, <1>6, <2>2, <3>2, <4>1, <4>2 DEF ParOK, ParType, FieldStates
      <4>5. 7 * Len(Dropped(s, 1)) + Rank(q.state) < 7 * Len(s.buf) + Rank(p.state)
        BY <3>4, <1>0, <1>6, <2>2, <3>2, <4>2, <4>3 DEF Rank
      <4> QED BY <4>3, <4>4, <4>5 DEF Stats, q
    <3> HIDE DEF Good
    <3> QED BY <3>1, <3>3, <3>4, SMTT(60)
  <2> QED BY <2>1, <2>2, <1>0
<1>7. CASE p.state = "NAME"
  <2> DEFINE n == p.name_len
  <2>1. CASE Len(s.buf) < n
    BY <1>0, <1>7, <2>1, <1>wait, StepWaits
  <2>2. CASE Len(s.buf) >= n
    <3>1. ParserStep(s) = Run([p EXCEPT !.name = Taken(s, n), !.state = "VALUE_TYPE"], Dropped(s, n), "RUN")
      BY <1>0, <1>7, <2>2, StepTakes
    <3>2. /\ Dropped(s, n) \in Seq(Byte) /\ Len(Dropped(s, n)) = Len(s.buf) - n
          /\ Taken(s, n) \in Seq(Byte) /\ n > 0
      BY <1>0, <1>7, <1>drop, <2>2 DEF ParOK
    <3>3. Good([p EXCEPT !.name = Taken(s, n), !.state = "VALUE_TYPE"], Dropped(s, n), "RUN")
      <4> DEFINE q == [p EXCEPT !.name = Taken(s, n), !.state = "VALUE_TYPE"]
      <4>1. ParType(q)
        BY <1>0, <1>7, <2>2, <3>2 DEF ParType, ParStates, FieldStates
      <4>2. q.state = "VALUE_TYPE" /\ q.fields_parsed = p.fields_parsed /\ q.field_count = p.field_count
        BY <1>0, <1>7, <2>2, <3>2 DEF ParType
      <4>3. Dropped(s, n) \in Seq(Byte) /\ Len(Dropped(s, n)) \in Nat /\ Len(Dropped(s, n)) = Len(s.buf) - n
        BY <1>0, <3>2
      <4> HIDE DEF q
      <4>4. ParOK(q)
        BY <1>0, <1>7, <2>2, <3>2, <4>1, <4>2 DEF ParOK, ParType, FieldStates
      <4>5. 7 * Len(Dropped(s, n)) + Rank(q.state) < 7 * Len(s.buf) + Rank(p.state)
        BY <1>0, <1>7, <2>2, <3>2, <4>2, <4>3, SMTT(60) DEF Rank
      <4> QED BY <4>3, <4>4, <4>5 DEF Stats, q
    <3> HIDE DEF Good
    <3> QED BY <3>1, <3>3, SMTT(60)
  <2> QED BY <2>1, <2>2, <1>0
<1>8. CASE p.state = "VALUE_TYPE"
  <2>1. CASE Len(s.buf) < 1
    BY <1>0, <1>8, <2>1, <1>wait, StepWaits
  <2>2. CASE Len(s.buf) >= 1
    <3> DEFINE k == Taken(s, 1)[1]
               e == TypeOfNum[k]
    <3>1. ParserStep(s) = IF k \notin DOMAIN TypeOfNum THEN Run(p, Dropped(s, 1), "INVALID")
                          ELSE IF HasLength(e)
                          THEN Run([p EXCEPT !.type = e, !.state = "VALUE_LEN"], Dropped(s, 1), "RUN")
                          ELSE Run([p EXCEPT !.type = e, !.value_len = ElemSize(e), !.state = "VALUE"],
                                   Dropped(s, 1), "RUN")
      BY <1>0, <1>8, <2>2, StepTakes
    <3>2. k \in DOMAIN TypeOfNum => e \in WireTypes /\ ElemSize(e) \in Nat
      BY DEF WireTypes, ElemSize
    <3> HIDE DEF k, e
    <3>3. Good(p, Dropped(s, 1), "INVALID")
      BY <1>0, <1>8, <1>drop, <2>2 DEF ParOK, ParType, ParStates, FieldStates, Rank, Stats
    <3>4. ASSUME k \in DOMAIN TypeOfNum PROVE Good([p EXCEPT !.type = e, !.state = "VALUE_LEN"], Dropped(s, 1), "RUN")
      <4> DEFINE q == [p EXCEPT !.type = e, !.state = "VALUE_LEN"]
      <4>1. ParType(q)
        BY <3>4, <1>0, <1>8, <2>2, <3>2 DEF ParType, ParStates, FieldStates
      <4>2. q.state = "VALUE_LEN" /\ q.fields_parsed = p.fields_parsed /\ q.field_count = p.field_count
        BY <3>4, <1>0, <1>8, <2>2, <3>2 DEF ParType
      <4>3. Dropped(s, 1) \in Seq(Byte) /\ Len(Dropped(s, 1)) \in Nat /\ Len(Dropped(s, 1)) = Len(s.buf) - 1
        BY <1>0, <1>drop, <2>2
      <4> HIDE DEF q
      <4>4. ParOK(q)
        BY <3>4, <1>0, <1>8, <2>2, <3>2, <4>1, <4>2 DEF ParOK, ParType, FieldStates
      <4>5. 7 * Len(Dropped(s, 1)) + Rank(q.state) < 7 * Len(s.buf) + Rank(p.state)
        BY <3>4, <1>0, <1>8, <2>2, <3>2, <4>2, <4>3 DEF Rank
      <4> QED BY <4>3, <4>4, <4>5 DEF Stats, q
    <3>5. ASSUME k \in DOMAIN TypeOfNum PROVE Good([p EXCEPT !.type = e, !.value_len = ElemSize(e), !.state = "VALUE"], Dropped(s, 1), "RUN")
      <4> DEFINE q == [p EXCEPT !.type = e, !.value_len = ElemSize(e), !.state = "VALUE"]
      <4>1. ParType(q)
        BY <3>5, <1>0, <1>8, <2>2, <3>2 DEF ParType, ParStates, FieldStates
      <4>2. q.state = "VALUE" /\ q.fields_parsed = p.fields_parsed /\ q.field_count = p.field_count
        BY <3>5, <1>0, <1>8, <2>2, <3>2 DEF ParType
      <4>3. Dropped(s, 1) \in Seq(Byte) /\ Len(Dropped(s, 1)) \in Nat /\ Len(Dropped(s, 1)) = Len(s.buf) - 1
        BY <1>0, <1>drop, <2>2
      <4> HIDE DEF q
      <4>4. ParOK(q)
        BY <3>5, <1>0, <1>8, <2>2, <3>2, <4>1, <4>2 DEF ParOK, ParType, FieldStates
      <4>5. 7 * Len(Dropped(s, 1)) + Rank(q.state) < 7 * Len(s.buf) + Rank(p.state)
        BY <3>5, <1>0, <1>8, <2>2, <3>2, <4>2, <4>3 DEF Rank
      <4> QED BY <4>3, <4>4, <4>5 DEF Stats, q
    <3> HIDE DEF Good
    <3> QED BY <3>1, <3>3, <3>4, <3>5
  <2> QED BY <2>1, <2>2, <1>0
<1>9. CASE p.state = "VALUE_LEN"
  <2>1. CASE Len(s.buf) < 4
    BY <1>0, <1>9, <2>1, <1>wait, StepWaits
  <2>2. CASE Len(s.buf) >= 4
    <3> DEFINE n == NetNumber4(Taken(s, 4))
    <3>1. ParserStep(s) = Run([p EXCEPT !.value_len = n, !.state = "VALUE"], Dropped(s, 4), "RUN")
      BY <1>0, <1>9, <2>2, StepTakes
    <3>2. n \in Nat
      BY <1>drop, <2>2, NetNumbers
    <3> HIDE DEF n
    <3>3. Good([p EXCEPT !.value_len = n, !.state = "VALUE"], Dropped(s, 4), "RUN")
      <4> DEFINE q == [p EXCEPT !.value_len = n, !.state = "VALUE"]
      <4>1. ParType(q)
        BY <1>0, <1>9, <2>2, <3>2 DEF ParType, ParStates, FieldStates
      <4>2. q.state = "VALUE" /\ q.fields_parsed = p.fields_parsed /\ q.field_count = p.field_count
        BY <1>0, <1>9, <2>2, <3>2 DEF ParType
      <4>3. Dropped(s, 4) \in Seq(Byte) /\ Len(Dropped(s, 4)) \in Nat /\ Len(Dropped(s, 4)) = Len(s.buf) - 4
        BY <1>0, <1>drop, <2>2
      <4> HIDE DEF q
      <4>4. ParOK(q)
        BY <1>0, <1>9, <2>2, <3>2, <4>1, <4>2 DEF ParOK, ParType, FieldStates
      <4>5. 7 * Len(Dropped(s, 4)) + Rank(q.state) < 7 * Len(s.buf) + Rank(p.state)
        BY <1>0, <1>9, <2>2, <3>2, <4>2, <4>3 DEF Rank
      <4> QED BY <4>3, <4>4, <4>5 DEF Stats, q
    <3> HIDE DEF Good
    <3> QED BY <3>1, <3>3, SMTT(60)
  <2> QED BY <2>1, <2>2, <1>0
<1>10. CASE p.state = "VALUE"
  <2> DEFINE n == p.value_len
  <2>1. CASE Len(s.buf) < n
    BY <1>0, <1>10, <2>1, <1>wait, StepWaits
  <2>2. CASE Len(s.buf) >= n
    <3> DEFINE v == IF HasLength(p.type) THEN Taken(s, n) ELSE HostNet(Taken(s, n))
    <3>1. ParserStep(s) = Run([p EXCEPT !.value = v, !.state = "FIELD_COMPLETE"], Dropped(s, n), "RUN")
      BY <1>0, <1>10, <2>2, StepTakes
    <3>2. Dropped(s, n) \in Seq(Byte) /\ Len(Dropped(s, n)) = Len(s.buf) - n /\ Taken(s, n) \in Seq(Byte)
      BY <1>0, <1>drop, <2>2
    <3>3. v \in Seq(Byte)
      BY <3>2, HostNetTwice
    <3> HIDE DEF v
    <3>4. Good([p EXCEPT !.value = v, !.state = "FIELD_COMPLETE"], Dropped(s, n), "RUN")
      <4> DEFINE q == [p EXCEPT !.value = v, !.state = "FIELD_COMPLETE"]
      <4>1. ParType(q)
        BY <1>0, <1>10, <2>2, <3>3 DEF ParType, ParStates, FieldStates
      <4>2. q.state = "FIELD_COMPLETE" /\ q.fields_parsed = p.fields_parsed /\ q.field_count = p.field_count
        BY <1>0, <1>10, <2>2, <3>3 DEF ParType
      <4>3. Dropped(s, n) \in Seq(Byte) /\ Len(Dropped(s, n)) \in Nat /\ Len(Dropped(s, n)) = Len(s.buf) - n
        BY <1>0, <3>2
      <4> HIDE DEF q
      <4>4. ParOK(q)
        BY <1>0, <1>10, <2>2, <3>3, <4>1, <4>2 DEF ParOK, ParType, FieldStates
      <4>5. 7 * Len(Dropped(s, n)) + Rank(q.state) < 7 * Len(s.buf) + Rank(p.state)
        BY <1>0, <1>10, <2>2, <3>3, <4>2, <4>3, SMTT(60) DEF Rank
      <4> QED BY <4>3, <4>4, <4>5 DEF Stats, q
    <3> HIDE DEF Good
    <3> QED BY <3>1, <3>4, SMTT(60)
  <2> QED BY <2>1, <2>2, <1>0
<1>11. CASE p.state = "FIELD_COMPLETE"
  <2> DEFINE old == IF p.msg = {} THEN <<>> ELSE CHOOSE d \in p.msg : TRUE
             fld == [type |-> p.type, value |-> p.value]
             new == [x \in DOMAIN old \cup {p.name} |-> IF x = p.name THEN fld ELSE old[x]]
             q == [p EXCEPT !.msg = {new}, !.name = <<>>, !.fields_parsed = @ + 1, !.state = "FIELD_BEGIN"]
  <2>1. ParserStep(s) = Run(q, s.buf, "RUN")
    BY <1>0, <1>11, StepMoves
  <2> HIDE DEF new
  <2>2. Good(q, s.buf, "RUN")
    <3>0. p.fields_parsed + 1 \in Nat /\ <<>> \in Seq(Byte)
      BY <1>0 DEF ParType
    <3>1. ParType(q)
      BY <1>0, <3>0 DEF ParType, ParStates, FieldStates
    <3>2. q.state = "FIELD_BEGIN" /\ q.fields_parsed = p.fields_parsed + 1 /\ q.field_count = p.field_count
      BY <1>0 DEF ParType
    <3> HIDE DEF q
    <3>3. ParOK(q)
      BY <1>0, <1>11, <3>1, <3>2, SMTT(60) DEF ParOK, ParType, FieldStates
    <3> QED BY <1>0, <1>11, <3>2, <3>3 DEF Rank, Stats
  <2> HIDE DEF Good, q
  <2> QED BY <2>1, <2>2
<1>12. CASE p.state = "MSG_COMPLETE"
  <2>1. ParserStep(s) = Run(p, s.buf, "COMPLETE")
    BY <1>0, <1>12, StepMoves
  <2>2. Good(p, s.buf, "COMPLETE")
    BY <1>0 DEF Stats
  <2> HIDE DEF Good
  <2> QED BY <2>1, <2>2
<1> QED BY <1>0, <1>1, <1>2, <1>3, <1>4, <1>5, <1>6, <1>7, <1>8, <1>9, <1>10, <1>11, <1>12
       DEF ParStates, FieldStates

-----------------------------------------------------------------------------
(* The loop: a recursion over the turns. *)

Turns(b) == 7 * Len(b) + 12
Turn(s) == IF s.stat = "RUN" THEN ParserStep(s) ELSE s

IsLoop(run, q, b) ==
    /\ run[0] = Run(q, b, "RUN")
    /\ \A n \in Nat : n < Turns(b) => run[n + 1] = Turn(run[n])

LEMMA ParserRunIs ==
    ASSUME NEW q, NEW b \in Seq(Byte)
    PROVE  \E run : IsLoop(run, q, b) /\ ParserRun(q, b) = run[Turns(b)]
<1> DEFINE T == Turns(b)
           Def(n, f) == f = [i \in 0 .. n |-> IF i = 0 THEN Run(q, b, "RUN") ELSE Turn(f[i - 1])]
           Some(n) == \E f : Def(n, f)
           Q == {n \in Nat : Some(n)}
<1>0. T \in Nat
  BY DEF Turns
<1>1. Some(0)
  <2> DEFINE f == [i \in 0 .. 0 |-> Run(q, b, "RUN")]
  <2>1. Def(0, f)
    OBVIOUS
  <2> QED BY <2>1
<1>2. ASSUME NEW n \in Nat, Some(n) PROVE Some(n + 1)
  <2>1. PICK f : Def(n, f)
    BY <1>2
  <2> DEFINE g == [i \in 0 .. n + 1 |-> IF i <= n THEN f[i] ELSE Turn(f[i - 1])]
             h == [i \in 0 .. n + 1 |-> IF i = 0 THEN Run(q, b, "RUN") ELSE Turn(g[i - 1])]
  <2>2. ASSUME NEW i \in 0 .. n + 1 PROVE g[i] = IF i = 0 THEN Run(q, b, "RUN") ELSE Turn(g[i - 1])
    <3>1. CASE i = 0
      <4>1. g[i] = f[i] /\ i \in 0 .. n
        BY <3>1
      <4>2. f[i] = Run(q, b, "RUN")
        BY <2>1, <3>1, <4>1
      <4> QED BY <3>1, <4>1, <4>2
    <3>2. CASE i # 0
      <4>1. i - 1 \in 0 .. n /\ i - 1 \in 0 .. n + 1 /\ i - 1 <= n
        BY <3>2
      <4>2. g[i - 1] = f[i - 1]
        BY <4>1
      <4>3. g[i] = Turn(f[i - 1])
        <5>1. CASE i <= n
          <6>1. i \in 0 .. n /\ g[i] = f[i]
            BY <5>1
          <6> HIDE DEF g
          <6> QED BY <2>1, <3>2, <6>1
        <5>2. CASE ~(i <= n)
          BY <5>2
        <5> QED BY <5>1, <5>2
      <4> HIDE DEF g
      <4> QED BY <3>2, <4>2, <4>3
    <3> QED BY <3>1, <3>2
  <2>3. g = h
    <3>1. \A i \in 0 .. n + 1 : g[i] = h[i]
      <4> SUFFICES ASSUME NEW i \in 0 .. n + 1 PROVE g[i] = h[i]
        OBVIOUS
      <4>1. h[i] = IF i = 0 THEN Run(q, b, "RUN") ELSE Turn(g[i - 1])
        <5> HIDE DEF g
        <5> QED OBVIOUS
      <4> QED BY <2>2, <4>1
    <3>2. g = [i \in 0 .. n + 1 |-> g[i]] /\ h = [i \in 0 .. n + 1 |-> h[i]]
      OBVIOUS
    <3> HIDE DEF g, h
    <3>3. [i \in 0 .. n + 1 |-> g[i]] = [i \in 0 .. n + 1 |-> h[i]]
      BY <3>1
    <3> QED BY <3>2, <3>3
  <2>4. Def(n + 1, g)
    BY <2>3
  <2> HIDE DEF g, Def
  <2> QED BY <2>4
<1>3. Nat \subseteq Q
  <2>1. 0 \in Q /\ \A n \in Nat : n \in Q => n + 1 \in Q
    <3> HIDE DEF Some
    <3> QED BY <1>1, <1>2
  <2> HIDE DEF Q
  <2> QED BY <2>1, SetInduction
<1>4. Some(T)
  <2> HIDE DEF Some, T
  <2> QED BY <1>0, <1>3
<1> DEFINE run == CHOOSE f : Def(T, f)
<1>5. Def(T, run)
  <2> HIDE DEF T
  <2> QED BY <1>4
<1>6. ParserRun(q, b) = run[T]
  BY DEF ParserRun, Turns, Turn, Run
<1> HIDE DEF run, T
<1>7. IsLoop(run, q, b)
  <2>1. run[0] = Run(q, b, "RUN")
    BY <1>0, <1>5
  <2>2. ASSUME NEW n \in Nat, n < T PROVE run[n + 1] = Turn(run[n])
    <3>1. n + 1 \in 0 .. T /\ n + 1 # 0 /\ (n + 1) - 1 = n
      BY <1>0, <2>2
    <3> QED BY <1>5, <3>1
  <2> QED BY <2>1, <2>2 DEF IsLoop, T
<1> QED BY <1>6, <1>7 DEF T

\* A run of the parser on any bytes ends, and with the counts in order.
LEMMA ParserRunOK ==
    ASSUME NEW q, ParOK(q), NEW b \in Seq(Byte)
    PROVE  RunOK(ParserRun(q, b)) /\ ParserRun(q, b).stat # "RUN"
<1>0. PICK run : IsLoop(run, q, b) /\ ParserRun(q, b) = run[Turns(b)]
  BY ParserRunIs
<1> DEFINE Fine(n) == RunOK(run[n]) /\ (run[n].stat = "RUN" => Fuel(run[n]) + n <= 7 * Len(b) + 4)
           Q == {n \in Nat : n <= Turns(b) => Fine(n)}
<1>f. ASSUME NEW s, RunOK(s) PROVE Fuel(s) \in Nat /\ Fuel(s) > 0
  <2>1. Len(s.buf) \in Nat
    BY <1>f DEF RunOK, RunType
  <2>2. Rank(s.par.state) \in 1 .. 4
    BY DEF Rank
  <2> QED BY <2>1, <2>2 DEF Fuel
<1>1. Fine(0)
  <2>1. RunOK(run[0])
    BY <1>0, RunParts DEF IsLoop, Stats
  <2>2. run[0].buf = b /\ run[0].par = q
    BY <1>0, RunParts DEF IsLoop
  <2>3. Rank(q.state) \in 1 .. 4 /\ Len(b) \in Nat
    BY DEF Rank
  <2> QED BY <2>1, <2>2, <2>3 DEF Fuel
<1>2. ASSUME NEW n \in Nat, n < Turns(b), Fine(n) PROVE Fine(n + 1)
  <2>1. run[n + 1] = Turn(run[n])
    BY <1>0, <1>2 DEF IsLoop
  <2> DEFINE s == run[n]
             t == run[n + 1]
  <2>2. RunOK(s) /\ (s.stat = "RUN" => Fuel(s) + n <= 7 * Len(b) + 4) /\ t = Turn(s)
    BY <1>2, <2>1
  <2> HIDE DEF s, t
  <2>3. CASE s.stat = "RUN"
    <3>1. t = ParserStep(s)
      BY <2>2, <2>3 DEF Turn
    <3>2. RunOK(t) /\ (t.stat = "RUN" => Fuel(t) < Fuel(s))
      BY <2>2, <2>3, <3>1, StepOK
    <3>3. Fuel(t) \in Nat /\ Fuel(s) \in Nat /\ Len(b) \in Nat
      BY <2>2, <3>2, <1>f
    <3>4. t.stat = "RUN" => Fuel(t) + (n + 1) <= 7 * Len(b) + 4
      BY <2>2, <2>3, <3>2, <3>3
    <3> QED BY <3>2, <3>4 DEF t
  <2>4. CASE s.stat # "RUN"
    BY <2>2, <2>4 DEF Turn, t
  <2> QED BY <2>3, <2>4
<1>3. Nat \subseteq Q
  <2>0. Turns(b) \in Nat
    BY DEF Turns
  <2>1. 0 \in Q /\ \A n \in Nat : n \in Q => n + 1 \in Q
    <3> HIDE DEF Fine
    <3> QED BY <1>1, <1>2, <2>0
  <2> HIDE DEF Q
  <2> QED BY <2>1, SetInduction
<1>4. Turns(b) \in Nat /\ Turns(b) = 7 * Len(b) + 12 /\ Len(b) \in Nat
  BY DEF Turns
<1>5. Fine(Turns(b))
  <2> HIDE DEF Fine
  <2> QED BY <1>3, <1>4
<1> DEFINE r == run[Turns(b)]
<1>6. RunOK(r) /\ (r.stat = "RUN" => Fuel(r) + Turns(b) <= 7 * Len(b) + 4)
  BY <1>5
<1> HIDE DEF r
<1>7. r.stat # "RUN"
  BY <1>4, <1>6, <1>f
<1> QED BY <1>0, <1>6, <1>7 DEF r

-----------------------------------------------------------------------------
(* What a message looks like on the wire. *)

Encodable(m) == MsgOK(m) /\ \A n \in DOMAIN m : ~FieldFails(n, m[n])

NameAt(m, i) == EntrySet(m)[i]
FieldAt(m, i) == FieldBytes(NameAt(m, i), m[NameAt(m, i)])
Fields(m) == [i \in 1 .. Len(EntrySet(m)) |-> FieldAt(m, i)]

\* The fields after the first j.
Rest(m, j) == FlattenSeq(SubSeq(Fields(m), j + 1, Len(EntrySet(m))))

\* A set is listed without repetition.
LEMMA SetToSeqIs ==
    ASSUME NEW S, IsFiniteSet(S)
    PROVE  /\ SetToSeq(S) \in Seq(S) /\ Len(SetToSeq(S)) = Cardinality(S) /\ Cardinality(S) \in Nat
           /\ \A x \in S : \E i \in 1 .. Len(SetToSeq(S)) : SetToSeq(S)[i] = x
<1> DEFINE n == Cardinality(S)
           f == SetToSeq(S)
<1>1. n \in Nat /\ ExistsBijection(1 .. n, S)
  BY FS_CardinalityType
<1>2. \E g \in [1 .. n -> S] : IsInjective(g)
  BY <1>1 DEF ExistsBijection, Bijection, Injection
<1>3. f \in [1 .. n -> S] /\ IsInjective(f)
  BY <1>2 DEF SetToSeq
<1>4. f \in Injection(1 .. n, S)
  BY <1>3 DEF Injection
<1>5. IsFiniteSet(1 .. n) /\ Cardinality(1 .. n) = n
  BY <1>1, FS_Interval
<1> HIDE DEF f, n
<1>6. f \in Surjection(1 .. n, S)
  BY <1>4, <1>5, FS_Injection DEF n
<1>7. \A x \in S : \E i \in 1 .. n : f[i] = x
  BY <1>6 DEF Surjection
<1>8. f \in Seq(S) /\ Len(f) = n
  BY <1>1, <1>3
<1> QED BY <1>1, <1>7, <1>8 DEF f, n

LEMMA SetToSeqOne ==
    ASSUME NEW m
    PROVE  SetToSeq({m}) = <<m>>
<1> DEFINE S == {m}
           f == SetToSeq(S)
<1>1. IsFiniteSet(S) /\ Cardinality(S) = 1
  BY FS_Singleton
<1> HIDE DEF S
<1>2. f \in Seq(S) /\ Len(f) = 1
  BY <1>1, SetToSeqIs
<1> HIDE DEF f
<1>3. f[1] \in S
  BY <1>2
<1>4. f[1] = m
  BY <1>3 DEF S
<1>5. f = <<m>>
  BY <1>2, <1>4
<1> QED BY <1>5 DEF f, S

LEMMA EntrySetIs ==
    ASSUME NEW m, MsgOK(m)
    PROVE  /\ EntrySet(m) \in Seq(DOMAIN m)
           /\ Len(EntrySet(m)) \in Nat /\ Len(EntrySet(m)) < TwoTo16
           /\ \A i \in 1 .. Len(EntrySet(m)) : NameAt(m, i) \in DOMAIN m
           /\ \A x \in DOMAIN m : \E i \in 1 .. Len(EntrySet(m)) : NameAt(m, i) = x
           /\ Len(EntrySet(m)) = 0 <=> DOMAIN m = {}
<1> DEFINE D == DOMAIN m
           e == SetToSeq(D)
<1>1. IsFiniteSet(D) /\ Cardinality(D) < TwoTo16
  BY DEF MsgOK
<1> HIDE DEF D
<1>2. e \in Seq(D) /\ Len(e) = Cardinality(D) /\ Len(e) \in Nat
      /\ \A x \in D : \E i \in 1 .. Len(e) : e[i] = x
  BY <1>1, SetToSeqIs
<1>3. e = EntrySet(m)
  BY DEF EntrySet, D
<1>4. Len(e) = 0 <=> D = {}
  BY <1>1, <1>2, FS_EmptySet
<1> HIDE DEF e
<1>5. \A i \in 1 .. Len(e) : e[i] \in D
  BY <1>2
<1> QED BY <1>1, <1>2, <1>3, <1>4, <1>5 DEF NameAt, D

\* The wire number of a type names it.
LEMMA TypeNumbers ==
    ASSUME NEW t, Supported(t)
    PROVE  /\ NumOfType(t) \in DOMAIN TypeOfNum /\ NumOfType(t) \in Byte
           /\ TypeOfNum[NumOfType(t)] = t
           /\ t \in WireTypes
<1>1. \E n \in DOMAIN TypeOfNum : TypeOfNum[n] = t
  BY DEF Supported
<1>2. NumOfType(t) \in DOMAIN TypeOfNum /\ TypeOfNum[NumOfType(t)] = t
  BY <1>1 DEF NumOfType
<1>3. DOMAIN TypeOfNum = 1 .. 16
  BY DEF TypeOfNum
<1>4. DOMAIN TypeOfNum \subseteq Byte
  BY <1>3 DEF Byte
<1> QED BY <1>1, <1>2, <1>4 DEF WireTypes

\* The bytes of a value, as they travel and as they are counted.
Content(v) == IF HasLength(v.type) THEN v.value ELSE HostNet(v.value)

LEMMA ValueParts ==
    ASSUME NEW x, NEW v, FieldOK(x, v)
    PROVE  /\ Content(v) \in Seq(Byte)
           /\ ValueBytes(v) \in Seq(Byte)
           /\ HasLength(v.type) => /\ ValueBytes(v) = NetBytes4(Len(v.value)) \o Content(v)
                                   /\ Content(v) = v.value
                                   /\ NetBytes4(Len(v.value)) \in Seq(Byte)
                                   /\ Len(NetBytes4(Len(v.value))) = 4
                                   /\ NetNumber4(NetBytes4(Len(v.value))) = Len(v.value)
           /\ ~HasLength(v.type) => /\ ValueBytes(v) = Content(v)
                                    /\ HostNet(Content(v)) = v.value
           /\ ~HasLength(v.type) /\ Supported(v.type) => Len(Content(v)) = ElemSize(v.type)
<1>1. v.value \in Seq(Byte) /\ Len(v.value) \in Nat
  BY DEF FieldOK
<1>2. CASE HasLength(v.type)
  <2>1. Len(v.value) \div TwoTo16 < TwoTo16
    BY <1>2 DEF FieldOK
  <2> DEFINE n == Len(v.value)
             b == NetBytes4(n)
             w == v.value
  <2>2. b \in Seq(Byte) /\ Len(b) = 4 /\ NetNumber4(b) = n
    <3> HIDE DEF n
    <3> QED BY <1>1, <2>1, NetRoundTrip4 DEF n
  <2> HIDE DEF b
  <2>3. b \o w \in Seq(Byte)
    BY <1>1, <2>2
  <2>4. ValueBytes(v) = b \o w /\ Content(v) = w
    BY <1>2 DEF ValueBytes, Content, b
  <2> QED BY <1>1, <1>2, <2>2, <2>3, <2>4 DEF b
<1>3. CASE ~HasLength(v.type)
  <2>1. ValueBytes(v) = HostNet(v.value) /\ Content(v) = HostNet(v.value)
    BY <1>3 DEF ValueBytes, Content
  <2>2. HostNet(v.value) \in Seq(Byte) /\ Len(HostNet(v.value)) = Len(v.value)
        /\ HostNet(HostNet(v.value)) = v.value
    BY <1>1, HostNetTwice
  <2>3. Supported(v.type) => Len(v.value) = ElemSize(v.type)
    BY <1>3 DEF FieldOK
  <2> QED BY <1>3, <2>1, <2>2, <2>3
<1> QED BY <1>2, <1>3

LEMMA FieldParts ==
    ASSUME NEW x, NEW v, FieldOK(x, v)
    PROVE  /\ FieldBytes(x, v) \in Seq(Byte)
           /\ ~FieldFails(x, v) =>
                /\ Len(x) \in Byte /\ Len(x) > 0 /\ Supported(v.type)
                /\ NumOfType(v.type) \in Byte
                /\ FieldBytes(x, v) = (<<Len(x)>> \o x) \o (<<NumOfType(v.type)>> \o ValueBytes(v))
<1>1. x \in Seq(Byte) /\ x # <<>> /\ Len(x) \in Nat
  BY DEF FieldOK
<1>2. Len(x) > 0
  BY <1>1, EmptySeq
<1>3. Len(x) <= 255 => Len(x) \in Byte
  <2> DEFINE n == Len(x)
  <2>1. n \in Nat
    BY <1>1
  <2> HIDE DEF n
  <2>2. n <= 255 => n \in Byte
    BY <2>1, SMT DEF Byte
  <2> QED BY <2>2 DEF n
<1>4. ValueBytes(v) \in Seq(Byte)
  BY ValueParts
<1>5. CASE Len(x) > 255
  BY <1>5 DEF FieldBytes, FieldFails
<1>6. CASE ~(Len(x) > 255)
  <2>1. Len(x) \in Byte
    BY <1>1, <1>3, <1>6
  <2> DEFINE h == <<Len(x)>> \o x
  <2>2. h \in Seq(Byte)
    BY <1>1, <2>1
  <2> HIDE DEF h
  <2>3. CASE Supported(v.type)
    <3>1. NumOfType(v.type) \in Byte
      BY <2>3, TypeNumbers
    <3> DEFINE k == <<NumOfType(v.type)>> \o ValueBytes(v)
    <3>2. k \in Seq(Byte)
      BY <3>1, <1>4
    <3>3. FieldBytes(x, v) = h \o k
      BY <1>6, <2>3 DEF FieldBytes, h
    <3> HIDE DEF k
    <3>4. h \o k \in Seq(Byte)
      BY <2>2, <3>2
    <3> QED BY <1>2, <2>1, <2>3, <3>1, <3>3, <3>4 DEF h, k
  <2>4. CASE ~Supported(v.type)
    <3>1. FieldBytes(x, v) = h \o <<>>
      BY <1>6, <2>4 DEF FieldBytes, h
    <3>2. h \o <<>> \in Seq(Byte)
      BY <2>2
    <3> QED BY <2>4, <3>1, <3>2 DEF FieldFails
  <2> QED BY <2>3, <2>4
<1> QED BY <1>5, <1>6

LEMMA FieldsType ==
    ASSUME NEW m, MsgOK(m)
    PROVE  /\ \A i \in 1 .. Len(EntrySet(m)) : FieldOK(NameAt(m, i), m[NameAt(m, i)]) /\ FieldAt(m, i) \in Seq(Byte)
           /\ Fields(m) \in Seq(Seq(Byte)) /\ Len(Fields(m)) = Len(EntrySet(m))
<1> DEFINE n == Len(EntrySet(m))
<1>1. n \in Nat /\ \A i \in 1 .. n : NameAt(m, i) \in DOMAIN m
  BY EntrySetIs
<1>2. \A i \in 1 .. n : FieldOK(NameAt(m, i), m[NameAt(m, i)])
  BY <1>1 DEF MsgOK
<1>3. \A i \in 1 .. n : FieldAt(m, i) \in Seq(Byte)
  BY <1>2, FieldParts DEF FieldAt
<1> HIDE DEF n
<1>4. Fields(m) = [i \in 1 .. n |-> FieldAt(m, i)]
  BY DEF Fields, n
<1> HIDE DEF Fields
<1>5. Fields(m) \in Seq(Seq(Byte)) /\ Len(Fields(m)) = n
  BY <1>1, <1>3, <1>4
<1> QED BY <1>2, <1>3, <1>5 DEF n

LEMMA RestIs ==
    ASSUME NEW m, MsgOK(m), NEW j \in 0 .. Len(EntrySet(m))
    PROVE  /\ Rest(m, j) \in Seq(Byte)
           /\ j < Len(EntrySet(m)) => Rest(m, j) = FieldAt(m, j + 1) \o Rest(m, j + 1)
           /\ j = Len(EntrySet(m)) => Rest(m, j) = <<>>
<1> DEFINE n == Len(EntrySet(m))
           f == Fields(m)
           g == SubSeq(f, j + 1, n)
<1>1. n \in Nat /\ f \in Seq(Seq(Byte)) /\ Len(f) = n
  BY FieldsType, EntrySetIs
<1>1a. j \in Nat /\ j <= n
  BY <1>1
<1>2. \A i \in 1 .. n : f[i] = FieldAt(m, i)
  BY DEF Fields
<1>3. Rest(m, j) = FlattenSeq(g) /\ Rest(m, j + 1) = FlattenSeq(SubSeq(f, (j + 1) + 1, n))
  BY DEF Rest
<1> HIDE DEF n, f
<1>4. g \in Seq(Seq(Byte)) /\ Len(g) = n - j
  BY <1>1, <1>1a
<1>5. Rest(m, j) \in Seq(Byte)
  <2> HIDE DEF g
  <2> QED BY <1>3, <1>4, FlattenType
<1>6. ASSUME j < n PROVE Rest(m, j) = FieldAt(m, j + 1) \o Rest(m, j + 1)
  <2>1. g # <<>> /\ Head(g) = f[j + 1] /\ Tail(g) = SubSeq(f, (j + 1) + 1, n)
    <3>1. Len(g) > 0
      BY <1>1, <1>1a, <1>4, <1>6
    <3>2. g # <<>>
      <4> HIDE DEF g
      <4> QED BY <3>1, <1>4, EmptySeq
    <3>3. Head(g) = f[j + 1]
      BY <1>1, <1>1a, <1>6
    <3>4. Tail(g) = SubSeq(f, (j + 1) + 1, n)
      <4> DEFINE h == SubSeq(f, (j + 1) + 1, n)
      <4>1. h \in Seq(Seq(Byte)) /\ Len(h) = n - (j + 1)
        BY <1>1, <1>1a, <1>6
      <4>2. Tail(g) \in Seq(Seq(Byte)) /\ Len(Tail(g)) = Len(g) - 1
        <5> HIDE DEF g
        <5> QED BY <1>4, <3>2
      <4>3. ASSUME NEW i \in 1 .. Len(h) PROVE Tail(g)[i] = h[i]
        <5>1. h[i] = f[(j + 1) + i]
          BY <1>1, <1>1a, <1>6, <4>1
        <5>2. Tail(g)[i] = g[i + 1]
          <6> HIDE DEF g
          <6> QED BY <1>4, <3>2, <4>1, <1>1, <1>1a
        <5>3. g[i + 1] = f[j + (i + 1)]
          BY <1>1, <1>1a, <1>6, <4>1
        <5>4. j + (i + 1) = (j + 1) + i
          BY <1>1a
        <5> QED BY <5>1, <5>2, <5>3, <5>4
      <4>4. Len(Tail(g)) = Len(h)
        BY <4>1, <4>2, <1>4, <1>1, <1>1a
      <4> HIDE DEF g, h
      <4>5. Tail(g) = h
        BY <4>1, <4>2, <4>3, <4>4, SeqEqual
      <4> QED BY <4>5 DEF h
    <3> QED BY <3>2, <3>3, <3>4
  <2>2. j + 1 \in 1 .. n
    BY <1>1, <1>1a, <1>6
  <2> HIDE DEF g
  <2>3. FlattenSeq(g) = Head(g) \o FlattenSeq(Tail(g))
    BY <1>4, <2>1, FlattenCons
  <2> QED BY <1>2, <1>3, <2>1, <2>2, <2>3
<1>7. ASSUME j = n PROVE Rest(m, j) = <<>>
  <2>1. g = <<>>
    BY <1>1, <1>1a, <1>7
  <2> QED BY <2>1, <1>3, FlattenEmpty
<1> QED BY <1>5, <1>6, <1>7 DEF n

\* The bytes of a message, also of one whose encoding fails half way.
LEMMA MsgBytesType ==
    ASSUME NEW m, MsgOK(m)
    PROVE  MsgBytes(m) \in Seq(Byte) /\ MsgBytes(m) # <<>>
<1> DEFINE names  == EntrySet(m)
           n      == Len(names)
           failed == {i \in DOMAIN names : FieldFails(names[i], m[names[i]])}
           upto   == IF failed = {} THEN n ELSE CHOOSE i \in failed : \A j \in failed : i <= j
           f      == [i \in 1 .. upto |-> FieldBytes(names[i], m[names[i]])]
<1>1. n \in Nat /\ DOMAIN names = 1 .. n /\ n < TwoTo16
  BY EntrySetIs
<1>2. upto \in 0 .. n
  <2>1. failed \in SUBSET Nat /\ failed \subseteq 1 .. n
    BY <1>1
  <2>2. CASE failed = {}
    BY <1>1, <2>2
  <2>3. CASE failed # {}
    <3> HIDE DEF failed
    <3>1. \E i \in failed : \A j \in failed : i <= j
      BY <2>1, <2>3, LeastNat
    <3>2. upto \in failed
      BY <2>3, <3>1
    <3> HIDE DEF upto, n
    <3>3. upto \in 1 .. n
      BY <2>1, <3>2
    <3> QED BY <1>1, <3>3
  <2> QED BY <2>2, <2>3
<1>3. MsgBytes(m) = (<<MAGIC, VER_1>> \o NetBytes2(n)) \o FlattenSeq(f)
  BY DEF MsgBytes
<1> HIDE DEF upto
<1>4. f \in Seq(Seq(Byte))
  <2>1. \A i \in 1 .. n : FieldBytes(names[i], m[names[i]]) \in Seq(Byte)
    BY FieldsType DEF FieldAt, NameAt
  <2>2. \A i \in 1 .. upto : FieldBytes(names[i], m[names[i]]) \in Seq(Byte)
    BY <1>1, <1>2, <2>1
  <2> HIDE DEF names
  <2> QED BY <1>1, <1>2, <2>2
<1> HIDE DEF f
<1>5. FlattenSeq(f) \in Seq(Byte)
  BY <1>4, FlattenType
<1> HIDE DEF n
<1>6. NetBytes2(n) \in Seq(Byte) /\ Len(NetBytes2(n)) = 2
  BY <1>1, NetRoundTrip2
<1>7. <<MAGIC, VER_1>> \in Seq(Byte)
  <2>1. MAGIC \in Byte /\ VER_1 \in Byte
    BY SMT DEF MAGIC, VER_1, Byte
  <2> QED BY <2>1
<1> DEFINE h == <<MAGIC, VER_1>>
           k == NetBytes2(n)
           r == FlattenSeq(f)
<1>8. Len(h) = 2
  OBVIOUS
<1> HIDE DEF h, k, r
<1>9. h \in Seq(Byte) /\ k \in Seq(Byte) /\ r \in Seq(Byte) /\ MsgBytes(m) = (h \o k) \o r
  BY <1>3, <1>5, <1>6, <1>7 DEF h, k, r
<1>10. (h \o k) \o r \in Seq(Byte) /\ Len((h \o k) \o r) = Len(h) + Len(k) + Len(r) /\ Len(k) \in Nat /\ Len(r) \in Nat
  BY <1>9
<1>11. Len(MsgBytes(m)) > 0 /\ MsgBytes(m) \in Seq(Byte)
  BY <1>8, <1>9, <1>10
<1> QED BY <1>11, EmptySeq

LEMMA MsgBytesIs ==
    ASSUME NEW m, Encodable(m)
    PROVE  MsgBytes(m) = (<<MAGIC, VER_1>> \o NetBytes2(Len(EntrySet(m)))) \o Rest(m, 0)
<1> DEFINE names  == EntrySet(m)
           n      == Len(names)
           failed == {i \in DOMAIN names : FieldFails(names[i], m[names[i]])}
<1>1. n \in Nat /\ DOMAIN names = 1 .. n /\ \A i \in 1 .. n : names[i] \in DOMAIN m
  BY EntrySetIs DEF Encodable, NameAt
<1>2. failed = {}
  BY <1>1 DEF Encodable
<1>3. MsgBytes(m) = (<<MAGIC, VER_1>> \o NetBytes2(n)) \o FlattenSeq(Fields(m))
  BY <1>2 DEF MsgBytes, Fields, FieldAt, NameAt
<1>4. Fields(m) \in Seq(Seq(Byte)) /\ Len(Fields(m)) = n
  BY FieldsType DEF Encodable
<1>5. SubSeq(Fields(m), 1, n) = Fields(m)
  <2> DEFINE f == Fields(m)
  <2> HIDE DEF f, n
  <2> QED BY <1>1, <1>4 DEF f
<1>6. Rest(m, 0) = FlattenSeq(SubSeq(Fields(m), 1, n))
  BY DEF Rest
<1> QED BY <1>3, <1>5, <1>6

-----------------------------------------------------------------------------
(* The parser on the bytes of a message: what it has and what it needs. *)

HeadStates == {"MSG_BEGIN", "MAGIC", "VERSION", "FIELD_COUNT"}

\* The first j fields of a message.
Read(m, j) == [x \in {NameAt(m, i) : i \in 1 .. j} |-> m[x]]

\* The bytes of a field after its length and after its name.
FromType(m, j) == <<NumOfType(m[NameAt(m, j + 1)].type)>> \o (ValueBytes(m[NameAt(m, j + 1)]) \o Rest(m, j + 1))
FromName(m, j) == NameAt(m, j + 1) \o FromType(m, j)

\* The bytes of m the parser has not seen.
Need(p, m) ==
    LET j == p.fields_parsed
        v == m[NameAt(m, j + 1)]
    IN  CASE p.state \in {"MSG_BEGIN", "MAGIC"} -> MsgBytes(m)
          [] p.state = "VERSION"        -> <<VER_1>> \o (NetBytes2(Len(EntrySet(m))) \o Rest(m, 0))
          [] p.state = "FIELD_COUNT"    -> NetBytes2(Len(EntrySet(m))) \o Rest(m, 0)
          [] p.state \in {"FIELD_BEGIN", "NAME_LEN"} -> Rest(m, j)
          [] p.state = "NAME"           -> FromName(m, j)
          [] p.state = "VALUE_TYPE"     -> FromType(m, j)
          [] p.state = "VALUE_LEN"      -> ValueBytes(v) \o Rest(m, j + 1)
          [] p.state = "VALUE"          -> Content(v) \o Rest(m, j + 1)
          [] p.state = "FIELD_COMPLETE" -> Rest(m, j + 1)
          [] p.state = "MSG_COMPLETE"   -> <<>>

\* What the parser has kept of m, when its dataset was `new` at the start.
Agrees(p, m, new) ==
    LET n == Len(EntrySet(m))
        j == p.fields_parsed
        x == NameAt(m, j + 1)
    IN  /\ p.state \in HeadStates => p.msg = new
        /\ p.state \notin HeadStates => /\ p.field_count = n /\ j \in 0 .. n
                                        /\ p.msg = IF j = 0 THEN new ELSE {Read(m, j)}
        /\ p.state \in FieldStates => j < n
        /\ p.state = "NAME" => p.name_len = Len(x)
        /\ p.state \in {"VALUE_TYPE", "VALUE_LEN", "VALUE", "FIELD_COMPLETE"} => p.name = x
        /\ p.state \in {"VALUE_LEN", "VALUE", "FIELD_COMPLETE"} => p.type = m[x].type
        /\ p.state = "VALUE_LEN" => HasLength(p.type)
        /\ p.state = "VALUE" => p.value_len = Len(Content(m[x]))
        /\ p.state = "FIELD_COMPLETE" => p.value = m[x].value
        /\ p.state = "MSG_COMPLETE" => j = n

LEMMA HeadBytes ==
    ASSUME NEW m, Encodable(m)
    PROVE  /\ MsgBytes(m) = <<MAGIC>> \o (<<VER_1>> \o (NetBytes2(Len(EntrySet(m))) \o Rest(m, 0)))
           /\ <<MAGIC>> \in Seq(Byte) /\ <<VER_1>> \in Seq(Byte)
           /\ NetBytes2(Len(EntrySet(m))) \in Seq(Byte) /\ Rest(m, 0) \in Seq(Byte)
           /\ Len(NetBytes2(Len(EntrySet(m)))) = 2 /\ NetNumber2(NetBytes2(Len(EntrySet(m)))) = Len(EntrySet(m))
<1> DEFINE n == Len(EntrySet(m))
           k == NetBytes2(n)
           r == Rest(m, 0)
<1>1. n \in Nat /\ n < TwoTo16
  BY EntrySetIs DEF Encodable
<1>2. MsgBytes(m) = (<<MAGIC, VER_1>> \o k) \o r
  BY MsgBytesIs
<1>3. r \in Seq(Byte)
  BY <1>1, RestIs DEF Encodable
<1> HIDE DEF n
<1>4. k \in Seq(Byte) /\ Len(k) = 2 /\ NetNumber2(k) = n
  BY <1>1, NetRoundTrip2
<1>5. <<MAGIC>> \in Seq(Byte) /\ <<VER_1>> \in Seq(Byte)
  <2>1. MAGIC \in Byte /\ VER_1 \in Byte
    BY SMT DEF MAGIC, VER_1, Byte
  <2> QED BY <2>1
<1> DEFINE a == <<MAGIC>>
           b == <<VER_1>>
<1>6. <<MAGIC, VER_1>> = a \o b
  BY DEF MAGIC, VER_1
<1> HIDE DEF a, b, k, r
<1>7. a \in Seq(Byte) /\ b \in Seq(Byte)
  BY <1>5 DEF a, b
<1>8. a \in Seq(Byte) /\ b \in Seq(Byte) /\ k \in Seq(Byte) /\ r \in Seq(Byte)
  BY <1>3, <1>4, <1>7
<1>9. ((a \o b) \o k) \o r = a \o (b \o (k \o r))
  BY <1>8, SMTT(60)
<1> QED BY <1>2, <1>3, <1>4, <1>5, <1>6, <1>9 DEF a, b, k, r, n

LEMMA FieldAhead ==
    ASSUME NEW m, Encodable(m), NEW j \in Nat, j < Len(EntrySet(m))
    PROVE  LET x == NameAt(m, j + 1)
               v == m[x]
           IN  /\ Rest(m, j) = <<Len(x)>> \o FromName(m, j)
               /\ Rest(m, j) \in Seq(Byte) /\ Rest(m, j + 1) \in Seq(Byte)
               /\ FromName(m, j) \in Seq(Byte) /\ FromType(m, j) \in Seq(Byte)
               /\ FieldOK(x, v) /\ x \in Seq(Byte) /\ Len(x) \in Byte /\ Len(x) > 0
               /\ Supported(v.type) /\ NumOfType(v.type) \in Byte
<1> DEFINE x == NameAt(m, j + 1)
           v == m[x]
           n == Len(EntrySet(m))
           r == Rest(m, j + 1)
           h == <<Len(x)>>
           k == <<NumOfType(v.type)>>
           b == ValueBytes(v)
<1>0. n \in Nat /\ MsgOK(m)
  BY EntrySetIs DEF Encodable
<1>1. j \in 0 .. n /\ j + 1 \in 0 .. n /\ j + 1 \in 1 .. n
  BY <1>0
<1>2. x \in DOMAIN m /\ FieldOK(x, v)
  BY <1>0, <1>1, EntrySetIs, FieldsType
<1>3. ~FieldFails(x, v)
  BY <1>2 DEF Encodable
<1>4. r \in Seq(Byte) /\ Rest(m, j) \in Seq(Byte) /\ Rest(m, j) = FieldAt(m, j + 1) \o r
  BY <1>0, <1>1, RestIs
<1>5. FieldAt(m, j + 1) = FieldBytes(x, v)
  BY DEF FieldAt
<1>6. x \in Seq(Byte)
  BY <1>2 DEF FieldOK
<1> HIDE DEF x, v
<1>7. /\ Len(x) \in Byte /\ Len(x) > 0 /\ Supported(v.type) /\ NumOfType(v.type) \in Byte
      /\ FieldBytes(x, v) = (h \o x) \o (k \o b)
  BY <1>2, <1>3, FieldParts
<1>8. h \in Seq(Byte) /\ k \in Seq(Byte)
  BY <1>7
<1>9. b \in Seq(Byte)
  BY <1>2, ValueParts
<1> HIDE DEF h, k, b, r
<1> DEFINE t == k \o (b \o r)
           u == h \o x
<1>10. k \in Seq(Byte) /\ b \in Seq(Byte) /\ r \in Seq(Byte) /\ h \in Seq(Byte) /\ x \in Seq(Byte)
  BY <1>4, <1>6, <1>8, <1>9
<1>11. t \in Seq(Byte)
  BY <1>10
<1>12. x \o t \in Seq(Byte) /\ u \in Seq(Byte) /\ u \o t = h \o (x \o t)
  <2> HIDE DEF t
  <2> QED BY <1>10, <1>11, SMTT(60)
<1>13. (u \o (k \o b)) \o r = u \o t
  <2>0. u \in Seq(Byte) /\ k \in Seq(Byte) /\ b \in Seq(Byte) /\ r \in Seq(Byte)
    BY <1>10, <1>12
  <2> HIDE DEF u
  <2>1. (u \o (k \o b)) \o r = u \o (k \o (b \o r))
    <3> HIDE DEF t, n
    <3> QED BY <2>0, SMTT(60)
  <2> QED BY <2>1
<1>14. ((h \o x) \o (k \o b)) \o r = h \o (x \o t)
  BY <1>12, <1>13
<1>15. FromType(m, j) = t /\ FromName(m, j) = x \o t
  BY DEF FromType, FromName, k, b, r, x, v
<1> HIDE DEF t, u
<1>16. Rest(m, j) = h \o FromName(m, j)
  BY <1>4, <1>5, <1>7, <1>14, <1>15
<1> QED BY <1>2, <1>4, <1>6, <1>7, <1>11, <1>12, <1>15, <1>16 DEF h, r, x, v

\* Taking what is next of what is needed.
LEMMA TakeNeed ==
    ASSUME NEW s, RunType(s), NEW x \in Seq(Byte), NEW L \in Seq(Byte),
           NEW B \in Seq(Byte), NEW w \in Seq(Byte),
           Cat(s.buf, x) = Cat(Cat(B, w), L), Len(s.buf) >= Len(B)
    PROVE  Taken(s, Len(B)) = B /\ Cat(Dropped(s, Len(B)), x) = Cat(w, L)
<1>1. s.buf \in Seq(Byte)
  BY DEF RunType
<1>2. (B \o w) \o L = B \o (w \o L) /\ w \o L \in Seq(Byte)
  OBVIOUS
<1> DEFINE a == s.buf
           r == w \o L
<1>3. a \in Seq(Byte) /\ r \in Seq(Byte) /\ Cat(a, x) = Cat(B, r) /\ Len(a) >= Len(B)
  BY <1>1, <1>2 DEF Cat
<1> HIDE DEF a, r
<1>4. SubSeq(a, 1, Len(B)) = B /\ Cat(SubSeq(a, Len(B) + 1, Len(a)), x) = r
  BY <1>3, TakeBytes
<1> QED BY <1>4 DEF Taken, Dropped, a, r, Cat

Fresh(new) == new \in {{}, {<<>>}}

\* A run on the bytes of m, with x still to arrive and L after m: no byte was
\* refused, and what the parser has and needs is in step.
Fits(t, m, new, x, L) ==
    /\ t.stat # "INVALID"
    /\ t.stat = "COMPLETE" => t.par.state = "MSG_COMPLETE"
    /\ Agrees(t.par, m, new) /\ Cat(t.buf, x) = Cat(Need(t.par, m), L)

LEMMA StepFits ==
    ASSUME NEW m, Encodable(m), NEW new, Fresh(new),
           NEW x \in Seq(Byte), NEW L \in Seq(Byte),
           NEW s, RunOK(s), s.stat = "RUN", Fits(s, m, new, x, L)
    PROVE  Fits(ParserStep(s), m, new, x, L)
<1> DEFINE p == s.par
           n == Len(EntrySet(m))
           j == p.fields_parsed
           nm == NameAt(m, j + 1)
           v == m[nm]
           Good(q, b, stat) == /\ Agrees(q, m, new) /\ Cat(b, x) = Cat(Need(q, m), L)
                               /\ stat # "INVALID" /\ (stat = "COMPLETE" => q.state = "MSG_COMPLETE")
<1>00. Agrees(p, m, new) /\ Cat(s.buf, x) = Cat(Need(p, m), L)
  BY DEF Fits
<1>0. /\ RunType(s) /\ ParType(p) /\ ParOK(p) /\ s.buf \in Seq(Byte) /\ Len(s.buf) \in Nat
      /\ p.name_len \in Nat /\ p.value_len \in Nat /\ p.state \in ParStates /\ j \in Nat
  BY DEF RunOK, RunType, ParOK, ParType
<1>0a. n \in Nat
  BY EntrySetIs DEF Encodable
<1> SUFFICES \E q, b, stat : ParserStep(s) = Run(q, b, stat) /\ Good(q, b, stat)
  BY RunParts DEF Fits
<1>wait. ASSUME ParserStep(s) = Run(p, s.buf, "AGAIN")
         PROVE  \E q, b, stat : ParserStep(s) = Run(q, b, stat) /\ Good(q, b, stat)
  <2>1. Good(p, s.buf, "AGAIN")
    BY <1>00
  <2> HIDE DEF Good
  <2> QED BY <1>wait, <2>1
<1>take. ASSUME NEW B \in Seq(Byte), NEW w \in Seq(Byte), Need(p, m) = Cat(B, w), Len(s.buf) >= Len(B)
         PROVE  Taken(s, Len(B)) = B /\ Cat(Dropped(s, Len(B)), x) = Cat(w, L)
  <2>1. Cat(s.buf, x) = Cat(Cat(B, w), L)
    BY <1>00, <1>take
  <2> QED BY <1>0, <1>take, <2>1, TakeNeed
<1>1. CASE p.state = "MSG_BEGIN"
  <2> DEFINE q == [p EXCEPT !.state = "MAGIC"]
  <2>1. ParserStep(s) = Run(q, s.buf, "RUN")
    BY <1>0, <1>1, StepMoves
  <2>2. q.state = "MAGIC" /\ q.msg = p.msg
    BY <1>0 DEF ParType
  <2> HIDE DEF q
  <2>3. Need(q, m) = Need(p, m)
    BY <1>1, <2>2 DEF Need
  <2>4. Agrees(q, m, new)
    BY <1>00, <1>1, <2>2 DEF Agrees, HeadStates, FieldStates
  <2>5. Good(q, s.buf, "RUN")
    BY <1>00, <2>3, <2>4
  <2> HIDE DEF Good
  <2> QED BY <2>1, <2>5
<1>2. CASE p.state = "MAGIC"
  <2>1. CASE Len(s.buf) < 1
    BY <1>0, <1>2, <2>1, <1>wait, StepWaits
  <2>2. CASE Len(s.buf) >= 1
    <3> DEFINE B == <<MAGIC>>
               w == <<VER_1>> \o (NetBytes2(n) \o Rest(m, 0))
               q == [p EXCEPT !.state = "VERSION"]
    <3>1. B \in Seq(Byte) /\ w \in Seq(Byte) /\ Need(p, m) = Cat(B, w)
      <4>1. Need(p, m) = MsgBytes(m)
        BY <1>2 DEF Need
      <4>2. B \in Seq(Byte) /\ <<VER_1>> \in Seq(Byte) /\ NetBytes2(n) \in Seq(Byte) /\ Rest(m, 0) \in Seq(Byte)
            /\ MsgBytes(m) = B \o w
        BY HeadBytes
      <4>3. w \in Seq(Byte)
        <5> DEFINE a == <<VER_1>>
                   b == NetBytes2(n)
                   c == Rest(m, 0)
        <5>1. a \in Seq(Byte) /\ b \in Seq(Byte) /\ c \in Seq(Byte)
          BY <4>2
        <5> HIDE DEF a, b, c
        <5>2. a \o (b \o c) \in Seq(Byte)
          BY <5>1
        <5> QED BY <5>2 DEF a, b, c
      <4> QED BY <4>1, <4>2, <4>3 DEF Cat
    <3>2. Len(B) = 1 /\ B[1] = MAGIC
      OBVIOUS
    <3> HIDE DEF B, w
    <3>3. Taken(s, 1) = B /\ Cat(Dropped(s, 1), x) = Cat(w, L)
      BY <1>take, <2>2, <3>1, <3>2
    <3>4. ParserStep(s) = Run(q, Dropped(s, 1), "RUN")
      BY <1>0, <1>2, <2>2, <3>2, <3>3, StepTakes
    <3>5. q.state = "VERSION" /\ q.msg = p.msg
      BY <1>0 DEF ParType
    <3> HIDE DEF q
    <3>6. Need(q, m) = w
      BY <3>5 DEF Need, w
    <3>7. Agrees(q, m, new)
      BY <1>00, <1>2, <3>5 DEF Agrees, HeadStates, FieldStates
    <3>8. Good(q, Dropped(s, 1), "RUN")
      BY <3>3, <3>6, <3>7
    <3> HIDE DEF Good
    <3> QED BY <3>4, <3>8
  <2> QED BY <1>0, <2>1, <2>2
<1>3. CASE p.state = "VERSION"
  <2>1. CASE Len(s.buf) < 1
    BY <1>0, <1>3, <2>1, <1>wait, StepWaits
  <2>2. CASE Len(s.buf) >= 1
    <3> DEFINE B == <<VER_1>>
               b == NetBytes2(n)
               c == Rest(m, 0)
               w == b \o c
               q == [p EXCEPT !.state = "FIELD_COUNT"]
    <3>1. B \in Seq(Byte) /\ b \in Seq(Byte) /\ c \in Seq(Byte) /\ Need(p, m) = Cat(B, w)
      BY <1>3, HeadBytes DEF Need, Cat
    <3>1a. w \in Seq(Byte)
      <4>1. b \in Seq(Byte) /\ c \in Seq(Byte)
        BY <3>1
      <4> HIDE DEF b, c
      <4> QED BY <4>1
    <3>2. Len(B) = 1 /\ B[1] = VER_1
      OBVIOUS
    <3> HIDE DEF B, w
    <3>3. Taken(s, 1) = B /\ Cat(Dropped(s, 1), x) = Cat(w, L)
      BY <1>take, <2>2, <3>1, <3>1a, <3>2
    <3>4. ParserStep(s) = Run(q, Dropped(s, 1), "RUN")
      BY <1>0, <1>3, <2>2, <3>2, <3>3, StepTakes
    <3>5. q.state = "FIELD_COUNT" /\ q.msg = p.msg
      BY <1>0 DEF ParType
    <3> HIDE DEF q
    <3>6. Need(q, m) = w
      BY <3>5 DEF Need, w
    <3>7. Agrees(q, m, new)
      BY <1>00, <1>3, <3>5 DEF Agrees, HeadStates, FieldStates
    <3>8. Good(q, Dropped(s, 1), "RUN")
      BY <3>3, <3>6, <3>7
    <3> HIDE DEF Good
    <3> QED BY <3>4, <3>8
  <2> QED BY <1>0, <2>1, <2>2
<1>4. CASE p.state = "FIELD_COUNT"
  <2>1. CASE Len(s.buf) < 2
    BY <1>0, <1>4, <2>1, <1>wait, StepWaits
  <2>2. CASE Len(s.buf) >= 2
    <3> DEFINE B == NetBytes2(n)
               w == Rest(m, 0)
               q == [p EXCEPT !.field_count = NetNumber2(Taken(s, 2)), !.fields_parsed = 0,
                              !.state = "FIELD_BEGIN"]
    <3>1. /\ B \in Seq(Byte) /\ w \in Seq(Byte) /\ Need(p, m) = Cat(B, w)
          /\ Len(B) = 2 /\ NetNumber2(B) = n
      BY <1>4, HeadBytes DEF Need, Cat
    <3> HIDE DEF B, w
    <3>3. Taken(s, 2) = B /\ Cat(Dropped(s, 2), x) = Cat(w, L)
      BY <1>take, <2>2, <3>1
    <3>4. ParserStep(s) = Run(q, Dropped(s, 2), "RUN")
      BY <1>0, <1>4, <2>2, StepTakes
    <3>5. q.state = "FIELD_BEGIN" /\ q.msg = p.msg /\ q.field_count = n /\ q.fields_parsed = 0
      BY <1>0, <3>1, <3>3 DEF ParType
    <3> HIDE DEF q
    <3>6. Need(q, m) = w
      BY <3>5 DEF Need, w
    <3>7. Agrees(q, m, new)
      BY <1>00, <1>0a, <1>4, <3>5 DEF Agrees, HeadStates, FieldStates
    <3>8. Good(q, Dropped(s, 2), "RUN")
      BY <3>3, <3>6, <3>7, SMTT(60)
    <3> HIDE DEF Good
    <3> QED BY <3>4, <3>8
  <2> QED BY <1>0, <2>1, <2>2
<1>5. CASE p.state = "FIELD_BEGIN"
  <2> DEFINE next == IF j = p.field_count THEN "MSG_COMPLETE" ELSE "NAME_LEN"
             q == [p EXCEPT !.state = next]
  <2>1. ParserStep(s) = Run(q, s.buf, "RUN")
    BY <1>0, <1>5, StepMoves
  <2>2. q.state = next /\ q.msg = p.msg /\ q.field_count = p.field_count /\ q.fields_parsed = j
    BY <1>0 DEF ParType
  <2> HIDE DEF q
  <2>3. p.field_count = n /\ j \in 0 .. n /\ p.msg = IF j = 0 THEN new ELSE {Read(m, j)}
    BY <1>00, <1>5 DEF Agrees, HeadStates
  <2>4. Need(q, m) = Need(p, m)
    <3>1. Need(p, m) = Rest(m, j)
      BY <1>5 DEF Need
    <3>2. CASE j = n
      <4>1. Rest(m, j) = <<>>
        BY <2>3, <3>2, RestIs DEF Encodable
      <4>2. Need(q, m) = <<>>
        BY <2>2, <2>3, <3>2 DEF Need
      <4> QED BY <3>1, <4>1, <4>2
    <3>3. CASE j # n
      <4>1. Need(q, m) = Rest(m, j)
        BY <2>2, <2>3, <3>3 DEF Need
      <4> QED BY <3>1, <4>1
    <3> QED BY <3>2, <3>3
  <2>5. Agrees(q, m, new)
    BY <1>00, <1>0a, <2>2, <2>3 DEF Agrees, HeadStates, FieldStates
  <2>6. Good(q, s.buf, "RUN")
    BY <1>00, <2>4, <2>5
  <2> HIDE DEF Good
  <2> QED BY <2>1, <2>6
<1>field. ASSUME p.state \in FieldStates
          PROVE  /\ j \in Nat /\ j < n /\ j \in 0 .. n /\ p.field_count = n
                 /\ p.msg = IF j = 0 THEN new ELSE {Read(m, j)}
                 /\ Rest(m, j) = <<Len(nm)>> \o FromName(m, j)
                 /\ Rest(m, j + 1) \in Seq(Byte)
                 /\ FromName(m, j) \in Seq(Byte) /\ FromType(m, j) \in Seq(Byte)
                 /\ FieldOK(nm, v) /\ nm \in Seq(Byte) /\ Len(nm) \in Byte /\ Len(nm) > 0
                 /\ Supported(v.type) /\ NumOfType(v.type) \in Byte
  <2>1. j < n /\ j \in 0 .. n /\ p.field_count = n /\ p.msg = IF j = 0 THEN new ELSE {Read(m, j)}
    BY <1>00, <1>field DEF Agrees, HeadStates, FieldStates
  <2> QED BY <1>0, <2>1, FieldAhead
<1>6. CASE p.state = "NAME_LEN"
  <2>0. p.state \in FieldStates
    BY <1>6 DEF FieldStates
  <2>1. CASE Len(s.buf) < 1
    BY <1>0, <1>6, <2>1, <1>wait, StepWaits
  <2>2. CASE Len(s.buf) >= 1
    <3> DEFINE k == Len(nm)
               B == <<k>>
               w == FromName(m, j)
               q == [p EXCEPT !.name_len = k, !.state = "NAME"]
    <3>1. k \in Byte /\ k > 0 /\ w \in Seq(Byte) /\ Need(p, m) = Cat(B, w)
      <4>1. Need(p, m) = Rest(m, j)
        BY <1>6 DEF Need
      <4> QED BY <2>0, <1>field, <4>1 DEF Cat
    <3> HIDE DEF k
    <3>2. B \in Seq(Byte) /\ Len(B) = 1 /\ B[1] = k /\ k # 0
      BY <3>1
    <3> HIDE DEF B, w
    <3>3. Taken(s, 1) = B /\ Cat(Dropped(s, 1), x) = Cat(w, L)
      BY <1>take, <2>2, <3>1, <3>2
    <3>4. ParserStep(s) = Run(q, Dropped(s, 1), "RUN")
      BY <1>0, <1>6, <2>2, <3>2, <3>3, StepTakes
    <3>5. q.state = "NAME" /\ q.msg = p.msg /\ q.field_count = p.field_count /\ q.fields_parsed = j
          /\ q.name_len = k
      BY <1>0 DEF ParType
    <3> HIDE DEF q
    <3>6. Need(q, m) = w
      BY <3>5 DEF Need, w
    <3>7. Agrees(q, m, new)
      BY <1>00, <2>0, <1>field, <3>5 DEF Agrees, HeadStates, FieldStates, k
    <3>8. Good(q, Dropped(s, 1), "RUN")
      BY <3>3, <3>6, <3>7
    <3> HIDE DEF Good
    <3> QED BY <3>4, <3>8
  <2> QED BY <1>0, <2>1, <2>2
<1>7. CASE p.state = "NAME"
  <2>0. p.state \in FieldStates /\ p.name_len = Len(nm)
    BY <1>00, <1>7 DEF FieldStates, Agrees
  <2> DEFINE k == p.name_len
  <2>1. CASE Len(s.buf) < k
    BY <1>0, <1>7, <2>1, <1>wait, StepWaits
  <2>2. CASE Len(s.buf) >= k
    <3> DEFINE B == nm
               w == FromType(m, j)
               q == [p EXCEPT !.name = Taken(s, k), !.state = "VALUE_TYPE"]
    <3>1. B \in Seq(Byte) /\ w \in Seq(Byte) /\ Need(p, m) = Cat(B, w) /\ Len(B) = k
      <4>1. Need(p, m) = FromName(m, j)
        BY <1>7 DEF Need
      <4> QED BY <2>0, <1>field, <4>1 DEF Cat, FromName
    <3> HIDE DEF B, w
    <3>3. Taken(s, k) = B /\ Cat(Dropped(s, k), x) = Cat(w, L)
      BY <1>take, <2>2, <3>1, SMTT(60)
    <3>4. ParserStep(s) = Run(q, Dropped(s, k), "RUN")
      BY <1>0, <1>7, <2>2, StepTakes
    <3>5. q.state = "VALUE_TYPE" /\ q.msg = p.msg /\ q.field_count = p.field_count /\ q.fields_parsed = j
          /\ q.name = B
      BY <1>0, <3>3 DEF ParType
    <3> HIDE DEF q
    <3>6. Need(q, m) = w
      BY <3>5 DEF Need, w
    <3>7. Agrees(q, m, new)
      BY <1>00, <2>0, <1>field, <3>5 DEF Agrees, HeadStates, FieldStates, B
    <3>8. Good(q, Dropped(s, k), "RUN")
      BY <3>3, <3>6, <3>7
    <3> HIDE DEF Good
    <3> QED BY <3>4, <3>8
  <2> QED BY <1>0, <2>1, <2>2
<1>8. CASE p.state = "VALUE_TYPE"
  <2>0. p.state \in FieldStates /\ p.name = nm
    BY <1>00, <1>8 DEF FieldStates, Agrees
  <2>1. CASE Len(s.buf) < 1
    BY <1>0, <1>8, <2>1, <1>wait, StepWaits
  <2>2. CASE Len(s.buf) >= 1
    <3> DEFINE k == NumOfType(v.type)
               B == <<k>>
               c == ValueBytes(v)
               r == Rest(m, j + 1)
               w == c \o r
               e == v.type
    <3>1. k \in Byte /\ c \in Seq(Byte) /\ r \in Seq(Byte) /\ Need(p, m) = Cat(B, w)
      <4>1. Need(p, m) = FromType(m, j)
        BY <1>8 DEF Need
      <4>2. FieldOK(nm, v) /\ k \in Byte /\ r \in Seq(Byte)
        BY <2>0, <1>field
      <4>3. c \in Seq(Byte)
        <5> HIDE DEF v, nm
        <5> QED BY <4>2, ValueParts
      <4> QED BY <4>1, <4>2, <4>3 DEF Cat, FromType
    <3>1a. w \in Seq(Byte)
      <4>1. c \in Seq(Byte) /\ r \in Seq(Byte)
        BY <3>1
      <4> HIDE DEF c, r
      <4> QED BY <4>1
    <3>1b. TypeOfNum[k] = e /\ k \in DOMAIN TypeOfNum
      BY <2>0, <1>field, TypeNumbers
    <3>1c. ~HasLength(e) => c = Content(v) /\ Len(Content(v)) = ElemSize(e)
      <4>1. FieldOK(nm, v) /\ Supported(v.type)
        BY <2>0, <1>field
      <4> HIDE DEF v, nm
      <4> QED BY <4>1, ValueParts
    <3> HIDE DEF k
    <3>2. B \in Seq(Byte) /\ Len(B) = 1 /\ B[1] = k
      BY <3>1
    <3> HIDE DEF B, w, e
    <3>3. Taken(s, 1) = B /\ Cat(Dropped(s, 1), x) = Cat(w, L)
      BY <1>take, <2>2, <3>1, <3>1a, <3>2
    <3>4. Taken(s, 1)[1] = k
      BY <3>2, <3>3
    <3>5. CASE HasLength(e)
      <4> DEFINE q == [p EXCEPT !.type = e, !.state = "VALUE_LEN"]
      <4>1. ParserStep(s) = Run(q, Dropped(s, 1), "RUN")
        BY <1>0, <1>8, <2>2, <3>1b, <3>4, <3>5, StepTakes
      <4>2. q.state = "VALUE_LEN" /\ q.msg = p.msg /\ q.field_count = p.field_count /\ q.fields_parsed = j
            /\ q.name = p.name /\ q.type = e
        BY <1>0 DEF ParType
      <4> HIDE DEF q
      <4>3. Need(q, m) = w
        BY <4>2 DEF Need, w
      <4>4. Agrees(q, m, new)
        BY <1>00, <2>0, <1>field, <3>5, <4>2, SMTT(60) DEF Agrees, HeadStates, FieldStates, e
      <4>5. Good(q, Dropped(s, 1), "RUN")
        BY <3>3, <4>3, <4>4
      <4> HIDE DEF Good
      <4> QED BY <4>1, <4>5
    <3>6. CASE ~HasLength(e)
      <4> DEFINE q == [p EXCEPT !.type = e, !.value_len = ElemSize(e), !.state = "VALUE"]
      <4>1. ParserStep(s) = Run(q, Dropped(s, 1), "RUN")
        BY <1>0, <1>8, <2>2, <3>1b, <3>4, <3>6, StepTakes
      <4>2. q.state = "VALUE" /\ q.msg = p.msg /\ q.field_count = p.field_count /\ q.fields_parsed = j
            /\ q.name = p.name /\ q.type = e /\ q.value_len = ElemSize(e)
        BY <1>0 DEF ParType
      <4> HIDE DEF q
      <4>3. Need(q, m) = w
        BY <3>1c, <3>6, <4>2 DEF Need, w
      <4>4. Agrees(q, m, new)
        BY <1>00, <2>0, <1>field, <3>1c, <3>6, <4>2 DEF Agrees, HeadStates, FieldStates, e
      <4>5. Good(q, Dropped(s, 1), "RUN")
        BY <3>3, <4>3, <4>4
      <4> HIDE DEF Good
      <4> QED BY <4>1, <4>5
    <3> QED BY <3>5, <3>6
  <2> QED BY <1>0, <2>1, <2>2
<1>9. CASE p.state = "VALUE_LEN"
  <2>0. p.state \in FieldStates /\ p.name = nm /\ p.type = v.type /\ HasLength(v.type)
    BY <1>00, <1>9 DEF FieldStates, Agrees
  <2>1. CASE Len(s.buf) < 4
    BY <1>0, <1>9, <2>1, <1>wait, StepWaits
  <2>2. CASE Len(s.buf) >= 4
    <3> DEFINE B == NetBytes4(Len(v.value))
               c == Content(v)
               r == Rest(m, j + 1)
               w == c \o r
               q == [p EXCEPT !.value_len = NetNumber4(Taken(s, 4)), !.state = "VALUE"]
    <3>1. /\ B \in Seq(Byte) /\ Len(B) = 4 /\ NetNumber4(B) = Len(c)
          /\ c \in Seq(Byte) /\ r \in Seq(Byte) /\ ValueBytes(v) = B \o c
      <4>1. FieldOK(nm, v) /\ r \in Seq(Byte)
        BY <2>0, <1>field
      <4> HIDE DEF v, nm
      <4> QED BY <2>0, <4>1, ValueParts
    <3>2. w \in Seq(Byte) /\ (B \o c) \o r = B \o w
      <4>1. B \in Seq(Byte) /\ c \in Seq(Byte) /\ r \in Seq(Byte)
        BY <3>1, SMTT(60)
      <4> HIDE DEF B, c, r
      <4> QED BY <4>1, SMTT(60)
    <3>2a. Need(p, m) = Cat(B, w)
      <4>1. Need(p, m) = ValueBytes(v) \o r
        BY <1>9 DEF Need
      <4> QED BY <3>1, <3>2, <4>1 DEF Cat
    <3> HIDE DEF B, w
    <3>3. Taken(s, 4) = B /\ Cat(Dropped(s, 4), x) = Cat(w, L)
      BY <1>take, <2>2, <3>1, <3>2, <3>2a
    <3>4. ParserStep(s) = Run(q, Dropped(s, 4), "RUN")
      BY <1>0, <1>9, <2>2, StepTakes
    <3>5. q.state = "VALUE" /\ q.msg = p.msg /\ q.field_count = p.field_count /\ q.fields_parsed = j
          /\ q.name = p.name /\ q.type = p.type /\ q.value_len = Len(c)
      BY <1>0, <3>1, <3>3 DEF ParType
    <3> HIDE DEF q
    <3>6. Need(q, m) = w
      BY <3>5 DEF Need, w
    <3>7. Agrees(q, m, new)
      BY <1>00, <2>0, <1>field, <3>5 DEF Agrees, HeadStates, FieldStates
    <3>8. Good(q, Dropped(s, 4), "RUN")
      BY <3>3, <3>6, <3>7
    <3> HIDE DEF Good
    <3> QED BY <3>4, <3>8
  <2> QED BY <1>0, <2>1, <2>2
<1>10. CASE p.state = "VALUE"
  <2>0. p.state \in FieldStates /\ p.name = nm /\ p.type = v.type /\ p.value_len = Len(Content(v))
    BY <1>00, <1>10 DEF FieldStates, Agrees
  <2> DEFINE k == p.value_len
  <2>1. CASE Len(s.buf) < k
    BY <1>0, <1>10, <2>1, <1>wait, StepWaits
  <2>2. CASE Len(s.buf) >= k
    <3> DEFINE B == Content(v)
               w == Rest(m, j + 1)
               d == IF HasLength(p.type) THEN Taken(s, k) ELSE HostNet(Taken(s, k))
               q == [p EXCEPT !.value = d, !.state = "FIELD_COMPLETE"]
    <3>1. B \in Seq(Byte) /\ w \in Seq(Byte) /\ Len(B) = k
          /\ v.value = IF HasLength(v.type) THEN B ELSE HostNet(B)
      <4>1. FieldOK(nm, v) /\ w \in Seq(Byte)
        BY <2>0, <1>field
      <4> HIDE DEF v, nm
      <4> QED BY <2>0, <4>1, ValueParts
    <3>2. Need(p, m) = Cat(B, w)
      BY <1>10 DEF Need, Cat
    <3> HIDE DEF B, w
    <3>3. Taken(s, k) = B /\ Cat(Dropped(s, k), x) = Cat(w, L)
      BY <1>take, <2>2, <3>1, <3>2, SMTT(60)
    <3>4. ParserStep(s) = Run(q, Dropped(s, k), "RUN")
      BY <1>0, <1>10, <2>2, StepTakes
    <3>5. q.state = "FIELD_COMPLETE" /\ q.msg = p.msg /\ q.field_count = p.field_count /\ q.fields_parsed = j
          /\ q.name = p.name /\ q.type = p.type /\ q.value = d
      BY <1>0 DEF ParType
    <3>5a. d = v.value
      BY <2>0, <3>1, <3>3
    <3> HIDE DEF q
    <3>6. Need(q, m) = w
      BY <3>5 DEF Need, w
    <3>7. Agrees(q, m, new)
      BY <1>00, <2>0, <1>field, <3>5, <3>5a DEF Agrees, HeadStates, FieldStates
    <3>8. Good(q, Dropped(s, k), "RUN")
      BY <3>3, <3>6, <3>7
    <3> HIDE DEF Good
    <3> QED BY <3>4, <3>8
  <2> QED BY <1>0, <2>1, <2>2
<1>11. CASE p.state = "FIELD_COMPLETE"
  <2>0. p.state \in FieldStates /\ p.name = nm /\ p.type = v.type /\ p.value = v.value
    BY <1>00, <1>11 DEF FieldStates, Agrees
  <2> DEFINE old == IF p.msg = {} THEN <<>> ELSE CHOOSE d \in p.msg : TRUE
             fld == [type |-> p.type, value |-> p.value]
             d   == [y \in DOMAIN old \cup {p.name} |-> IF y = p.name THEN fld ELSE old[y]]
             q == [p EXCEPT !.msg = {d}, !.name = <<>>, !.fields_parsed = @ + 1, !.state = "FIELD_BEGIN"]
  <2>1. ParserStep(s) = Run(q, s.buf, "RUN")
    BY <1>0, <1>11, StepMoves
  <2>2. d = Read(m, j + 1)
    <3>1. fld = v
      BY <2>0, <1>field DEF FieldOK
    <3>2. DOMAIN old = {NameAt(m, i) : i \in 1 .. j} /\ \A y \in DOMAIN old : old[y] = m[y]
      <4>1. CASE j = 0
        <5>1. p.msg \in {{}, {<<>>}}
          BY <2>0, <1>field, <4>1 DEF Fresh
        <5>2. old = <<>>
          BY <5>1
        <5>3. {NameAt(m, i) : i \in 1 .. j} = {}
          BY <4>1
        <5>4. DOMAIN <<>> = {}
          OBVIOUS
        <5> HIDE DEF old
        <5>5. DOMAIN old = {}
          BY <5>2, <5>4
        <5> QED BY <5>3, <5>5
      <4>2. CASE j # 0
        <5>1. p.msg = {Read(m, j)}
          BY <2>0, <1>field, <4>2
        <5>2. old = Read(m, j)
          BY <5>1
        <5> HIDE DEF old
        <5> QED BY <5>2 DEF Read
      <4> QED BY <4>1, <4>2
    <3>3. {NameAt(m, i) : i \in 1 .. j + 1} = {NameAt(m, i) : i \in 1 .. j} \cup {nm}
      BY <1>0
    <3> HIDE DEF old, fld
    <3>4. DOMAIN old \cup {p.name} = {NameAt(m, i) : i \in 1 .. j + 1}
      BY <2>0, <3>2, <3>3
    <3>5. \A y \in DOMAIN old \cup {p.name} : (IF y = p.name THEN fld ELSE old[y]) = m[y]
      BY <2>0, <3>1, <3>2
    <3>6. d = [y \in DOMAIN old \cup {p.name} |-> m[y]]
      BY <3>5
    <3> QED BY <3>4, <3>6 DEF Read
  <2> HIDE DEF d
  <2>3. q.state = "FIELD_BEGIN" /\ q.msg = {d} /\ q.field_count = p.field_count /\ q.fields_parsed = j + 1
    BY <1>0 DEF ParType
  <2> HIDE DEF q
  <2>4. Need(q, m) = Need(p, m)
    BY <1>11, <2>3 DEF Need
  <2>5. j \in Nat /\ j < n /\ p.field_count = n
    BY <2>0, <1>field
  <2>6. Agrees(q, m, new)
    BY <1>00, <1>0a, <2>2, <2>3, <2>5, SMTT(60) DEF Agrees, HeadStates, FieldStates
  <2>7. Good(q, s.buf, "RUN")
    BY <1>00, <2>4, <2>6
  <2> HIDE DEF Good
  <2> QED BY <2>1, <2>7
<1>12. CASE p.state = "MSG_COMPLETE"
  <2>1. ParserStep(s) = Run(p, s.buf, "COMPLETE")
    BY <1>0, <1>12, StepMoves
  <2>2. Good(p, s.buf, "COMPLETE")
    BY <1>00, <1>12
  <2> HIDE DEF Good
  <2> QED BY <2>1, <2>2
<1> QED BY <1>0, <1>1, <1>2, <1>3, <1>4, <1>5, <1>6, <1>7, <1>8, <1>9, <1>10, <1>11, <1>12
       DEF ParStates, FieldStates

\* What a complete message leaves: the message, or the dataset of the start.
LEMMA ReadAll ==
    ASSUME NEW m, Encodable(m), NEW new, NEW p, Agrees(p, m, new), p.state = "MSG_COMPLETE"
    PROVE  /\ p.msg = IF DOMAIN m = {} THEN new ELSE {m}
           /\ DOMAIN m = {} => m = <<>>
           /\ Need(p, m) = <<>>
<1> DEFINE n == Len(EntrySet(m))
<1>1. p.fields_parsed = n /\ p.msg = IF n = 0 THEN new ELSE {Read(m, n)}
  BY DEF Agrees, HeadStates
<1>2. /\ n \in Nat /\ (n = 0 <=> DOMAIN m = {})
      /\ \A i \in 1 .. n : NameAt(m, i) \in DOMAIN m
      /\ \A x \in DOMAIN m : \E i \in 1 .. n : NameAt(m, i) = x
  BY EntrySetIs DEF Encodable
<1> HIDE DEF n
<1>3. {NameAt(m, i) : i \in 1 .. n} = DOMAIN m
  BY <1>2
<1>4. m = [x \in DOMAIN m |-> m[x]]
  BY DEF Encodable, MsgOK
<1>5. Read(m, n) = m
  BY <1>3, <1>4 DEF Read
<1>6. DOMAIN m = {} => m = <<>>
  BY <1>4
<1> QED BY <1>1, <1>2, <1>5, <1>6 DEF Need

\* A whole run on the bytes of m.
LEMMA RunFits ==
    ASSUME NEW m, Encodable(m), NEW new, Fresh(new),
           NEW x \in Seq(Byte), NEW L \in Seq(Byte),
           NEW q, ParOK(q), NEW b \in Seq(Byte),
           Agrees(q, m, new), Cat(b, x) = Cat(Need(q, m), L)
    PROVE  /\ RunOK(ParserRun(q, b)) /\ Fits(ParserRun(q, b), m, new, x, L)
           /\ ParserRun(q, b).stat \in {"AGAIN", "COMPLETE"}
<1>0. PICK run : IsLoop(run, q, b) /\ ParserRun(q, b) = run[Turns(b)]
  BY ParserRunIs
<1> DEFINE Fine(t) == RunOK(t) /\ Fits(t, m, new, x, L)
           Q == {n \in Nat : n <= Turns(b) => Fine(run[n])}
<1>1. Fine(run[0])
  <2>1. run[0] = Run(q, b, "RUN")
    BY <1>0 DEF IsLoop
  <2>2. RunOK(run[0]) /\ run[0].stat = "RUN" /\ run[0].par = q /\ run[0].buf = b
    BY <2>1, RunParts DEF Stats
  <2> QED BY <2>2 DEF Fits
<1>2. ASSUME NEW n \in Nat, n < Turns(b), Fine(run[n]) PROVE Fine(run[n + 1])
  <2>1. run[n + 1] = Turn(run[n])
    BY <1>0, <1>2 DEF IsLoop
  <2> DEFINE s == run[n]
             t == run[n + 1]
  <2>2. Fine(s) /\ t = Turn(s)
    BY <1>2, <2>1
  <2> HIDE DEF s, t
  <2>3. CASE s.stat = "RUN"
    <3>1. t = ParserStep(s)
      BY <2>2, <2>3 DEF Turn
    <3>2. RunOK(t)
      BY <2>2, <2>3, <3>1, StepOK
    <3>3. Fits(t, m, new, x, L)
      BY <2>2, <2>3, <3>1, StepFits
    <3> QED BY <3>2, <3>3 DEF t
  <2>4. CASE s.stat # "RUN"
    BY <2>2, <2>4 DEF Turn, t
  <2> QED BY <2>3, <2>4
<1>3. Nat \subseteq Q
  <2>0. Turns(b) \in Nat
    BY DEF Turns
  <2>1. 0 \in Q /\ \A n \in Nat : n \in Q => n + 1 \in Q
    <3> HIDE DEF Fine
    <3> QED BY <1>1, <1>2, <2>0
  <2> HIDE DEF Q
  <2> QED BY <2>1, SetInduction
<1>4. Turns(b) \in Nat
  BY DEF Turns
<1>5. Fine(run[Turns(b)])
  <2> HIDE DEF Fine
  <2> QED BY <1>3, <1>4
<1>6. RunOK(ParserRun(q, b)) /\ ParserRun(q, b).stat # "RUN"
  BY ParserRunOK
<1> DEFINE r == ParserRun(q, b)
<1>7. Fine(r)
  BY <1>0, <1>5
<1> HIDE DEF r
<1>8. r.stat \in Stats
  BY <1>7 DEF RunOK, RunType
<1> QED BY <1>6, <1>7, <1>8 DEF Stats, Fits, r

-----------------------------------------------------------------------------
(* A stream of messages. *)

EncMsgs == {m \in ReqMsgs \cup RepMsgs : Encodable(m)}

Wire(ms) == [i \in 1 .. Len(ms) |-> MsgBytes(ms[i])]
Stream(ms) == FlattenSeq(Wire(ms))

LEMMA EncMsgIs ==
    ASSUME NEW m \in EncMsgs
    PROVE  Encodable(m) /\ MsgOK(m) /\ MsgBytes(m) \in Seq(Byte) /\ MsgBytes(m) # <<>>
<1>1. Encodable(m) /\ MsgOK(m)
  BY DEF EncMsgs, Encodable
<1> QED BY <1>1, MsgBytesType

LEMMA WireType ==
    ASSUME NEW ms \in Seq(EncMsgs)
    PROVE  Wire(ms) \in Seq(Seq(Byte)) /\ Len(Wire(ms)) = Len(ms) /\ Stream(ms) \in Seq(Byte)
<1>1. \A i \in 1 .. Len(ms) : MsgBytes(ms[i]) \in Seq(Byte)
  BY EncMsgIs
<1>2. Wire(ms) \in Seq(Seq(Byte)) /\ Len(Wire(ms)) = Len(ms)
  BY <1>1 DEF Wire
<1> QED BY <1>2, FlattenType DEF Stream

LEMMA StreamEmpty == Stream(<<>>) = <<>>
<1>1. Wire(<<>>) = <<>>
  BY DEF Wire
<1> QED BY <1>1, FlattenEmpty DEF Stream

LEMMA StreamAppend ==
    ASSUME NEW ms \in Seq(EncMsgs), NEW m \in EncMsgs
    PROVE  Stream(Append(ms, m)) = Cat(Stream(ms), MsgBytes(m))
<1> DEFINE b == MsgBytes(m)
           w == Wire(ms)
<1>1. w \in Seq(Seq(Byte)) /\ b \in Seq(Byte) /\ Len(w) = Len(ms)
  BY WireType, EncMsgIs
<1>2. Wire(Append(ms, m)) = Append(w, b)
  <2>1. Len(Append(ms, m)) = Len(ms) + 1 /\ \A i \in 1 .. Len(ms) + 1 : Append(ms, m)[i] = IF i <= Len(ms) THEN ms[i] ELSE m
    OBVIOUS
  <2> DEFINE u == Wire(Append(ms, m))
  <2>2. u = [i \in 1 .. Len(ms) + 1 |-> IF i <= Len(ms) THEN MsgBytes(ms[i]) ELSE b]
    BY <2>1 DEF Wire
  <2>3. \A i \in 1 .. Len(ms) : w[i] = MsgBytes(ms[i])
    BY DEF Wire
  <2> HIDE DEF w, b, u
  <2>4. Append(w, b) \in Seq(Seq(Byte)) /\ Len(Append(w, b)) = Len(ms) + 1
        /\ \A i \in 1 .. Len(ms) + 1 : Append(w, b)[i] = IF i <= Len(ms) THEN w[i] ELSE b
    BY <1>1
  <2>5. u \in Seq(Seq(Byte)) /\ Len(u) = Len(ms) + 1
    <3>1. \A i \in 1 .. Len(ms) + 1 : (IF i <= Len(ms) THEN MsgBytes(ms[i]) ELSE b) \in Seq(Byte)
      BY <1>1, EncMsgIs
    <3> QED BY <2>2, <3>1
  <2>6. \A i \in 1 .. Len(ms) + 1 : u[i] = Append(w, b)[i]
    BY <2>2, <2>3, <2>4
  <2>7. u = Append(w, b)
    BY <2>4, <2>5, <2>6, SeqEqual
  <2> QED BY <2>7 DEF u
<1> HIDE DEF b, w
<1>3. FlattenSeq(Append(w, b)) = FlattenSeq(w) \o b
  BY <1>1, FlattenAppend
<1> QED BY <1>2, <1>3 DEF Stream, Cat, w, b

LEMMA StreamCons ==
    ASSUME NEW ms \in Seq(EncMsgs), ms # <<>>
    PROVE  Stream(ms) = Cat(MsgBytes(Head(ms)), Stream(Tail(ms)))
<1> DEFINE w == Wire(ms)
<1>1. w \in Seq(Seq(Byte)) /\ Len(w) = Len(ms)
  BY WireType
<1>2. Len(ms) \in Nat /\ Len(ms) > 0 /\ \A i \in 1 .. Len(ms) : w[i] = MsgBytes(ms[i])
  BY DEF Wire
<1>3. Head(ms) = ms[1] /\ Tail(ms) \in Seq(EncMsgs) /\ Len(Tail(ms)) = Len(ms) - 1
      /\ \A i \in 1 .. Len(ms) - 1 : Tail(ms)[i] = ms[i + 1]
  OBVIOUS
<1>4. Wire(Tail(ms)) = [i \in 1 .. Len(ms) - 1 |-> MsgBytes(ms[i + 1])]
  BY <1>3 DEF Wire
<1> HIDE DEF w
<1>5. w # <<>> /\ Head(w) = w[1]
  BY <1>1, <1>2
<1>6. Tail(w) \in Seq(Seq(Byte)) /\ Len(Tail(w)) = Len(ms) - 1 /\ \A i \in 1 .. Len(ms) - 1 : Tail(w)[i] = w[i + 1]
  BY <1>1, <1>2, <1>5
<1>7. Tail(w) = Wire(Tail(ms))
  <2>1. Wire(Tail(ms)) \in Seq(Seq(Byte)) /\ Len(Wire(Tail(ms))) = Len(ms) - 1
    BY <1>3, WireType
  <2>2. \A i \in 1 .. Len(ms) - 1 : w[i + 1] = MsgBytes(ms[i + 1])
    BY <1>2
  <2>3. \A i \in 1 .. Len(ms) - 1 : Tail(w)[i] = Wire(Tail(ms))[i]
    BY <1>4, <1>6, <2>2
  <2> QED BY <1>6, <2>1, <2>3, SeqEqual
<1>8. FlattenSeq(w) = Head(w) \o FlattenSeq(Tail(w))
  BY <1>1, <1>5, FlattenCons
<1>9. Head(w) = MsgBytes(Head(ms))
  BY <1>2, <1>3, <1>5
<1> QED BY <1>7, <1>8, <1>9 DEF Stream, Cat, w

LEMMA CatType ==
    ASSUME NEW a \in Seq(Byte), NEW b \in Seq(Byte)
    PROVE  Cat(a, b) \in Seq(Byte) /\ Cat(a, <<>>) = a /\ Cat(<<>>, a) = a
BY DEF Cat

LEMMA CatAssoc ==
    ASSUME NEW a \in Seq(Byte), NEW b \in Seq(Byte), NEW c \in Seq(Byte)
    PROVE  Cat(Cat(a, b), c) = Cat(a, Cat(b, c))
BY CatSame

LEMMA NeedType ==
    ASSUME NEW m, Encodable(m), NEW new, NEW p, ParOK(p), Agrees(p, m, new)
    PROVE  Need(p, m) \in Seq(Byte)
<1> DEFINE n == Len(EntrySet(m))
           j == p.fields_parsed
           nm == NameAt(m, j + 1)
           v == m[nm]
<1>0. p.state \in ParStates /\ j \in Nat
  BY DEF ParOK, ParType
<1>1. CASE p.state \in {"MSG_BEGIN", "MAGIC"}
  BY <1>1, MsgBytesType DEF Need, Encodable
<1>2. CASE p.state = "VERSION"
  <2> DEFINE a == <<VER_1>>
             b == NetBytes2(n)
             c == Rest(m, 0)
  <2>1. a \in Seq(Byte) /\ b \in Seq(Byte) /\ c \in Seq(Byte) /\ Need(p, m) = a \o (b \o c)
    BY <1>2, HeadBytes DEF Need
  <2> HIDE DEF a, b, c
  <2> QED BY <2>1
<1>3. CASE p.state = "FIELD_COUNT"
  <2> DEFINE b == NetBytes2(n)
             c == Rest(m, 0)
  <2>1. b \in Seq(Byte) /\ c \in Seq(Byte) /\ Need(p, m) = b \o c
    BY <1>3, HeadBytes DEF Need
  <2> HIDE DEF b, c
  <2> QED BY <2>1
<1>4. CASE p.state = "FIELD_BEGIN"
  <2>1. j \in 0 .. n
    BY <1>4 DEF Agrees, HeadStates
  <2>2. Rest(m, j) \in Seq(Byte)
    BY <2>1, RestIs DEF Encodable
  <2> QED BY <1>4, <2>2 DEF Need
<1>5. CASE p.state \in FieldStates
  <2>1. j < n
    BY <1>5 DEF Agrees
  <2>2. /\ Rest(m, j) \in Seq(Byte) /\ Rest(m, j + 1) \in Seq(Byte)
        /\ FromName(m, j) \in Seq(Byte) /\ FromType(m, j) \in Seq(Byte) /\ FieldOK(nm, v)
    BY <1>0, <2>1, FieldAhead
  <2> DEFINE r == Rest(m, j + 1)
             c == Content(v)
             b == ValueBytes(v)
  <2>3. c \in Seq(Byte) /\ b \in Seq(Byte)
    <3> HIDE DEF v, nm
    <3> QED BY <2>2, ValueParts
  <2>4. c \o r \in Seq(Byte) /\ b \o r \in Seq(Byte)
    <3>1. r \in Seq(Byte)
      BY <2>2
    <3> HIDE DEF r, c, b
    <3> QED BY <2>3, <3>1
  <2>5. Need(p, m) \in {Rest(m, j), r, FromName(m, j), FromType(m, j), c \o r, b \o r}
    BY <1>5 DEF Need, FieldStates
  <2> HIDE DEF r, c, b
  <2> QED BY <2>2, <2>4, <2>5 DEF r
<1>6. CASE p.state = "MSG_COMPLETE"
  BY <1>6 DEF Need
<1> QED BY <1>0, <1>1, <1>2, <1>3, <1>4, <1>5, <1>6 DEF ParStates

\* The bytes R to come are the rest of the first message of ms, of which the
\* parser has the beginning, and the others; or there is no message.
Framed(p, new, R, ms) ==
    IF ms = <<>> THEN R = <<>> /\ p.state \in {"MSG_BEGIN", "MAGIC"} /\ p.msg = new
    ELSE Agrees(p, Head(ms), new) /\ R = Cat(Need(p, Head(ms)), Stream(Tail(ms)))

LEMMA OutstandingIs ==
    ASSUME NEW ms \in Seq(EncMsgs), ms # <<>>
    PROVE  /\ Head(ms) \in EncMsgs /\ Encodable(Head(ms)) /\ Tail(ms) \in Seq(EncMsgs)
           /\ Stream(Tail(ms)) \in Seq(Byte) /\ Len(ms) > 0
<1>1. Head(ms) \in EncMsgs /\ Tail(ms) \in Seq(EncMsgs) /\ Len(ms) > 0
  OBVIOUS
<1> QED BY <1>1, EncMsgIs, WireType

LEMMA FramedAppend ==
    ASSUME NEW p, ParOK(p), NEW new, NEW R, NEW ms \in Seq(EncMsgs), Framed(p, new, R, ms),
           NEW m \in EncMsgs
    PROVE  Framed(p, new, Cat(R, MsgBytes(m)), Append(ms, m))
<1> DEFINE b == MsgBytes(m)
           ns == Append(ms, m)
<1>0. b \in Seq(Byte) /\ Encodable(m)
  BY EncMsgIs
<1>1. ns # <<>> /\ ns \in Seq(EncMsgs)
  <2>1. ns \in Seq(EncMsgs) /\ Len(ns) = Len(ms) + 1
    OBVIOUS
  <2>2. Len(ns) # 0
    BY <2>1
  <2> HIDE DEF ns
  <2> QED BY <2>1, <2>2
<1>2. CASE ms = <<>>
  <2>1. Head(ns) = m /\ Tail(ns) = <<>>
    BY <1>2
  <2>2. Need(p, m) = b /\ Agrees(p, m, new) /\ R = <<>>
    BY <1>2 DEF Framed, Need, Agrees, HeadStates, FieldStates
  <2> HIDE DEF ns, b
  <2>3. Cat(R, b) = Cat(Need(p, m), Stream(<<>>))
    BY <1>0, <2>2, CatType, StreamEmpty
  <2> QED BY <1>1, <2>1, <2>2, <2>3 DEF Framed, ns, b
<1>3. CASE ms # <<>>
  <2> DEFINE t == Stream(Tail(ms))
             w == Need(p, Head(ms))
  <2>1. Head(ns) = Head(ms) /\ Tail(ns) = Append(Tail(ms), m)
    BY <1>3
  <2>2. Agrees(p, Head(ms), new) /\ R = Cat(w, t)
    BY <1>3 DEF Framed
  <2>3. t \in Seq(Byte) /\ Encodable(Head(ms)) /\ Tail(ms) \in Seq(EncMsgs)
    BY <1>3, OutstandingIs
  <2>4. w \in Seq(Byte)
    BY <2>2, <2>3, NeedType
  <2>5. Stream(Tail(ns)) = Cat(t, b)
    BY <2>1, <2>3, StreamAppend
  <2> HIDE DEF t, w, b
  <2>6. Cat(R, b) = Cat(w, Cat(t, b))
    BY <1>0, <2>2, <2>3, <2>4, CatAssoc
  <2> QED BY <1>1, <2>1, <2>2, <2>5, <2>6 DEF Framed, b, t, w
<1> QED BY <1>2, <1>3

LEMMA FramedStart ==
    ASSUME NEW ms \in Seq(EncMsgs), NEW p, p.state = "MSG_BEGIN"
    PROVE  Framed(p, p.msg, Stream(ms), ms)
<1>1. CASE ms = <<>>
  BY <1>1, StreamEmpty DEF Framed
<1>2. CASE ms # <<>>
  <2>1. Stream(ms) = Cat(MsgBytes(Head(ms)), Stream(Tail(ms)))
    BY <1>2, StreamCons
  <2>2. Need(p, Head(ms)) = MsgBytes(Head(ms)) /\ Agrees(p, Head(ms), p.msg)
    BY DEF Need, Agrees, HeadStates, FieldStates
  <2> QED BY <1>2, <2>1, <2>2 DEF Framed
<1> QED BY <1>1, <1>2

AtStart(p) == p.state \in {"MSG_BEGIN", "MAGIC"}

LEMMA FramedBack ==
    ASSUME NEW ms \in Seq(EncMsgs), NEW p, AtStart(p), NEW new, NEW R,
           Framed(p, new, R, ms)
    PROVE  R = Stream(ms)
<1>1. CASE ms = <<>>
  BY <1>1, StreamEmpty DEF Framed
<1>2. CASE ms # <<>>
  <2>1. Stream(ms) = Cat(MsgBytes(Head(ms)), Stream(Tail(ms)))
    BY <1>2, StreamCons
  <2>2. Need(p, Head(ms)) = MsgBytes(Head(ms))
    BY DEF Need, AtStart
  <2> QED BY <1>2, <2>1, <2>2 DEF Framed
<1> QED BY <1>1, <1>2

LEMMA FramedDone ==
    ASSUME NEW ms \in Seq(EncMsgs), ms # <<>>, NEW p, p.state = "MSG_COMPLETE", NEW new, NEW R,
           Framed(p, new, R, ms)
    PROVE  R = Stream(Tail(ms)) /\ p.msg = IF DOMAIN Head(ms) = {} THEN new ELSE {Head(ms)}
<1>1. Agrees(p, Head(ms), new) /\ R = Cat(Need(p, Head(ms)), Stream(Tail(ms)))
  BY DEF Framed
<1>2. Encodable(Head(ms)) /\ Stream(Tail(ms)) \in Seq(Byte)
  BY OutstandingIs
<1>3. Need(p, Head(ms)) = <<>> /\ p.msg = IF DOMAIN Head(ms) = {} THEN new ELSE {Head(ms)}
  BY <1>1, <1>2, ReadAll
<1> QED BY <1>1, <1>2, <1>3, CatType

\* A run of the parser on the next bytes of the stream.
LEMMA FramedRun ==
    ASSUME NEW ms \in Seq(EncMsgs), NEW p, ParOK(p), NEW new, Fresh(new),
           NEW b \in Seq(Byte), b # <<>>, NEW x \in Seq(Byte), Framed(p, new, Cat(b, x), ms)
    PROVE  /\ ms # <<>>
           /\ RunOK(ParserRun(p, b)) /\ ParserRun(p, b).stat \in {"AGAIN", "COMPLETE"}
           /\ Framed(ParserRun(p, b).par, new, Cat(ParserRun(p, b).buf, x), ms)
           /\ ParserRun(p, b).stat = "COMPLETE" => ParserRun(p, b).par.state = "MSG_COMPLETE"
<1>1. ms # <<>>
  <2> SUFFICES ASSUME ms = <<>> PROVE FALSE
    OBVIOUS
  <2>1. b \o x = <<>>
    BY DEF Framed, Cat
  <2>2. Len(b \o x) = Len(b) + Len(x) /\ Len(b) > 0 /\ Len(x) \in Nat
    OBVIOUS
  <2>3. Len(b \o x) > 0
    BY <2>2
  <2> QED BY <2>1, <2>3
<1> DEFINE m == Head(ms)
           L == Stream(Tail(ms))
           r == ParserRun(p, b)
<1>2. Encodable(m) /\ L \in Seq(Byte)
  BY <1>1, OutstandingIs
<1>3. Agrees(p, m, new) /\ Cat(b, x) = Cat(Need(p, m), L)
  BY <1>1 DEF Framed
<1> HIDE DEF m, L
<1>4. RunOK(r) /\ Fits(r, m, new, x, L) /\ r.stat \in {"AGAIN", "COMPLETE"}
  BY <1>2, <1>3, RunFits
<1> HIDE DEF r
<1>5. Framed(r.par, new, Cat(r.buf, x), ms)
  BY <1>1, <1>4 DEF Framed, Fits, m, L
<1> QED BY <1>1, <1>4, <1>5 DEF Fits, r

-----------------------------------------------------------------------------
(* The connection. *)

USE DEF vars, sockVars, readVars, sendVars, clVars, netVars, histVars

\* What was got is a beginning of what was sent; what is still out.
Behind(g, s) == Len(g) \in Nat /\ Len(g) <= Len(s) /\ g = SubSeq(s, 1, Len(g))
Out(g, s) == SubSeq(s, Len(g) + 1, Len(s))

NmTypes ==
    /\ recvbuf \in Seq(Byte) /\ sendbuf \in Seq(Byte) /\ clout \in Seq(Byte) /\ clbuf \in Seq(Byte)
    /\ c2s \in Seq(Byte) /\ s2c \in Seq(Byte) /\ Len(c2s) <= PipeCap /\ Len(s2c) <= PipeCap
    /\ reqSent \in Seq(EncMsgs) /\ repSent \in Seq(EncMsgs)
    /\ writing \in BOOLEAN /\ cl \in {"idle", "send", "recv", "closed"}
    /\ cl # "send" => clout = <<>>

ReqBytes == Cat(Cat(recvbuf, c2s), clout)
RepBytes == Cat(Cat(clbuf, s2c), sendbuf)

\* The requests: the bytes under way are the rest of the first request that
\* was not handed out, and the ones after it.
ReqInv ==
    /\ ParOK(par)
    /\ Behind(reqGot, reqSent)
    /\ ~Closed => Framed(par, {}, ReqBytes, Out(reqGot, reqSent))
    /\ srv = "msg" => /\ Out(reqGot, reqSent) # <<>>
                      /\ par.msg = IF DOMAIN Head(Out(reqGot, reqSent)) = {} THEN {} ELSE {Head(Out(reqGot, reqSent))}
                      /\ ~Closed => par.state = "MSG_COMPLETE"
    /\ "server" \notin bad

\* The replies, as long as no event has broken their framing.
RepInv ==
    /\ ParOK(clpar)
    /\ mishaps \subseteq {"write"} =>
         /\ Behind(repGot, repSent)
         /\ bad = {}
         /\ cl = "recv" => Framed(clpar, {<<>>}, RepBytes, Out(repGot, repSent))
         /\ cl \in {"idle", "send"} => RepBytes = Stream(Out(repGot, repSent))

\* The queue of unsent bytes and the socket's flags.
FlagInv ==
    /\ con = "none" => flags = {} /\ sendbuf = <<>> /\ ~writing
    /\ con # "none" => "NBL_AUTO" \in flags
    /\ srv # "idle" => con # "none"
    /\ "READ_AGAIN_WHEN_WRITEABLE" \notin flags
    /\ PendingWatched

NmInv == NmTypes /\ ReqInv /\ RepInv /\ FlagInv

LEMMA OutType ==
    ASSUME NEW s \in Seq(EncMsgs), NEW g, Behind(g, s)
    PROVE  Out(g, s) \in Seq(EncMsgs) /\ g \in Seq(EncMsgs)
<1> DEFINE k == Len(g)
<1>1. k \in Nat /\ k <= Len(s) /\ g = SubSeq(s, 1, k)
  BY DEF Behind
<1>2. Out(g, s) = SubSeq(s, k + 1, Len(s))
  BY DEF Out
<1> HIDE DEF k
<1>3. SubSeq(s, k + 1, Len(s)) \in Seq(EncMsgs) /\ SubSeq(s, 1, k) \in Seq(EncMsgs)
  BY <1>1
<1> QED BY <1>1, <1>2, <1>3

\* One more is sent.
LEMMA OutSent ==
    ASSUME NEW s \in Seq(EncMsgs), NEW g, Behind(g, s), NEW m \in EncMsgs
    PROVE  Behind(g, Append(s, m)) /\ Out(g, Append(s, m)) = Append(Out(g, s), m)
<1> DEFINE k == Len(g)
           n == Len(s)
           t == Append(s, m)
<1>1. k \in Nat /\ k <= n /\ g = SubSeq(s, 1, k)
  BY DEF Behind
<1>2. t \in Seq(EncMsgs) /\ Len(t) = n + 1 /\ n \in Nat
      /\ \A i \in 1 .. n + 1 : t[i] = IF i <= n THEN s[i] ELSE m
  OBVIOUS
<1>3. Out(g, s) = SubSeq(s, k + 1, n) /\ Out(g, t) = SubSeq(t, k + 1, n + 1)
  BY <1>2 DEF Out
<1> HIDE DEF k, n, t
<1>4. SubSeq(t, 1, k) = SubSeq(s, 1, k)
  <2>1. SubSeq(t, 1, k) \in Seq(EncMsgs) /\ SubSeq(s, 1, k) \in Seq(EncMsgs)
        /\ Len(SubSeq(t, 1, k)) = k /\ Len(SubSeq(s, 1, k)) = k
    BY <1>1, <1>2 DEF n
  <2>2. \A i \in 1 .. k : SubSeq(t, 1, k)[i] = t[i] /\ SubSeq(s, 1, k)[i] = s[i]
    BY <1>1, <1>2 DEF n
  <2>3. \A i \in 1 .. k : SubSeq(t, 1, k)[i] = SubSeq(s, 1, k)[i]
    BY <1>1, <1>2, <2>2
  <2> QED BY <2>1, <2>3, SeqEqual
<1>5. SubSeq(t, k + 1, n + 1) = Append(SubSeq(s, k + 1, n), m)
  <2> DEFINE a == SubSeq(t, k + 1, n + 1)
             b == SubSeq(s, k + 1, n)
             c == Append(b, m)
  <2>1. a \in Seq(EncMsgs) /\ Len(a) = n + 1 - k /\ \A i \in 1 .. n + 1 - k : a[i] = t[k + i]
    BY <1>1, <1>2
  <2>2. b \in Seq(EncMsgs) /\ Len(b) = n - k /\ \A i \in 1 .. n - k : b[i] = s[k + i]
    BY <1>1, <1>2 DEF n
  <2> HIDE DEF a, b
  <2>2a. b \in Seq(EncMsgs)
    BY <2>2
  <2>2b. c \in Seq(EncMsgs) /\ Len(c) = Len(b) + 1 /\ \A i \in 1 .. Len(b) + 1 : c[i] = IF i <= Len(b) THEN b[i] ELSE m
    BY <2>2a
  <2>3. c \in Seq(EncMsgs) /\ Len(c) = n - k + 1 /\ \A i \in 1 .. n - k + 1 : c[i] = IF i <= n - k THEN b[i] ELSE m
    BY <2>2, <2>2b
  <2> HIDE DEF c
  <2>4. \A i \in 1 .. n + 1 - k : a[i] = c[i]
    <3> SUFFICES ASSUME NEW i \in 1 .. n + 1 - k PROVE a[i] = c[i]
      OBVIOUS
    <3>1. k + i \in 1 .. n + 1 /\ i \in 1 .. n - k + 1 /\ (i <= n - k <=> k + i <= n)
      BY <1>1, <1>2
    <3>2. a[i] = IF k + i <= n THEN s[k + i] ELSE m
      BY <1>2, <2>1, <3>1
    <3>3. c[i] = IF i <= n - k THEN b[i] ELSE m
      BY <2>3, <3>1
    <3>4. i <= n - k => b[i] = s[k + i]
      BY <1>1, <1>2, <2>2, <3>1
    <3> QED BY <3>1, <3>2, <3>3, <3>4
  <2>5. Len(a) = Len(c)
    BY <1>1, <1>2, <2>1, <2>3
  <2>6. a = c
    BY <2>1, <2>3, <2>4, <2>5, SeqEqual
  <2> QED BY <2>6 DEF a, c, b
<1>6. k <= n + 1 /\ Len(g) = k
  BY <1>1, <1>2 DEF k
<1> QED BY <1>1, <1>2, <1>3, <1>4, <1>5, <1>6 DEF Behind, t

\* The next one is got.
LEMMA OutGot ==
    ASSUME NEW s \in Seq(EncMsgs), NEW g, Behind(g, s), Out(g, s) # <<>>
    PROVE  /\ Head(Out(g, s)) \in EncMsgs /\ Head(Out(g, s)) = s[Len(g) + 1] /\ Len(g) < Len(s)
           /\ Behind(Append(g, Head(Out(g, s))), s)
           /\ Out(Append(g, Head(Out(g, s))), s) = Tail(Out(g, s))
<1> DEFINE k == Len(g)
           n == Len(s)
           o == Out(g, s)
           m == Head(o)
           h == Append(g, m)
<1>1. k \in Nat /\ k <= n /\ g = SubSeq(s, 1, k) /\ n \in Nat
  BY DEF Behind
<1>2. g \in Seq(EncMsgs) /\ o \in Seq(EncMsgs) /\ o # <<>>
  BY OutType
<1>3. o = SubSeq(s, k + 1, n)
  BY DEF Out
<1> HIDE DEF o, k, n
<1>4. Len(o) = n - k /\ \A i \in 1 .. n - k : o[i] = s[k + i]
  BY <1>1, <1>3 DEF n
<1>5. k < n
  <2>1. Len(o) > 0
    BY <1>2
  <2> QED BY <1>1, <1>4, <2>1
<1>6. m = o[1] /\ m \in EncMsgs
  BY <1>2
<1>6a. 1 \in 1 .. n - k
  BY <1>1, <1>5
<1>7. m = s[k + 1]
  BY <1>4, <1>6, <1>6a
<1> HIDE DEF m
<1>8. h \in Seq(EncMsgs) /\ Len(h) = k + 1 /\ \A i \in 1 .. k + 1 : h[i] = IF i <= k THEN g[i] ELSE m
  BY <1>1, <1>2, <1>6 DEF k
<1> HIDE DEF h
<1>9. \A i \in 1 .. k : g[i] = s[i]
  BY <1>1 DEF n
<1>10. h = SubSeq(s, 1, k + 1)
  <2> DEFINE a == SubSeq(s, 1, k + 1)
  <2>1. a \in Seq(EncMsgs) /\ Len(a) = k + 1 /\ \A i \in 1 .. k + 1 : a[i] = s[i]
    BY <1>1, <1>5 DEF n
  <2> HIDE DEF a
  <2>2. \A i \in 1 .. k + 1 : h[i] = a[i]
    BY <1>1, <1>7, <1>8, <1>9, <2>1
  <2>3. h = a
    BY <1>8, <2>1, <2>2, SeqEqual
  <2> QED BY <2>3 DEF a
<1>11. Behind(h, s)
  BY <1>1, <1>5, <1>8, <1>10 DEF Behind, n
<1>12. Out(h, s) = Tail(o)
  <2> DEFINE a == SubSeq(s, (k + 1) + 1, n)
  <2>1. a \in Seq(EncMsgs) /\ Len(a) = n - (k + 1) /\ \A i \in 1 .. n - (k + 1) : a[i] = s[(k + 1) + i]
    BY <1>1, <1>5 DEF n
  <2>2. Out(h, s) = a
    BY <1>8 DEF Out, n
  <2> HIDE DEF a
  <2>3. Tail(o) \in Seq(EncMsgs) /\ Len(Tail(o)) = Len(o) - 1 /\ \A i \in 1 .. Len(o) - 1 : Tail(o)[i] = o[i + 1]
    BY <1>2
  <2>4. \A i \in 1 .. n - (k + 1) : Tail(o)[i] = a[i]
    <3> SUFFICES ASSUME NEW i \in 1 .. n - (k + 1) PROVE Tail(o)[i] = a[i]
      OBVIOUS
    <3>1. i \in 1 .. Len(o) - 1 /\ i + 1 \in 1 .. n - k /\ k + (i + 1) = (k + 1) + i
      BY <1>1, <1>4, <1>5
    <3> QED BY <1>4, <2>1, <2>3, <3>1
  <2>5. Len(Tail(o)) = Len(a)
    BY <1>1, <1>4, <1>5, <2>1, <2>3
  <2>6. Len(Tail(o)) = n - (k + 1)
    BY <2>1, <2>5
  <2>7. Tail(o) = a
    BY <2>1, <2>3, <2>4, <2>6, SeqEqual
  <2> QED BY <2>2, <2>7
<1> QED BY <1>5, <1>6, <1>7, <1>11, <1>12 DEF o, m, h, k, n

\* A buffer in two parts.
LEMMA Split ==
    ASSUME NEW s \in Seq(Byte), NEW n \in Nat, n <= Len(s)
    PROVE  /\ Prefix(s, n) \in Seq(Byte) /\ Len(Prefix(s, n)) = n
           /\ Drop(s, n) \in Seq(Byte) /\ Len(Drop(s, n)) = Len(s) - n
           /\ Cat(Prefix(s, n), Drop(s, n)) = s
           /\ Drop(s, n) = <<>> <=> n = Len(s)
<1> DEFINE a == SubSeq(s, 1, n)
           b == SubSeq(s, n + 1, Len(s))
<1>1. a \in Seq(Byte) /\ Len(a) = n /\ \A i \in 1 .. n : a[i] = s[i]
  OBVIOUS
<1>2. b \in Seq(Byte) /\ Len(b) = Len(s) - n /\ \A i \in 1 .. Len(s) - n : b[i] = s[n + i]
  OBVIOUS
<1>3. Prefix(s, n) = a /\ Drop(s, n) = b
  BY DEF Prefix, Drop
<1> HIDE DEF a, b
<1>4. a \o b \in Seq(Byte) /\ Len(a \o b) = Len(s)
      /\ \A i \in 1 .. Len(s) : (a \o b)[i] = IF i <= n THEN a[i] ELSE b[i - n]
  BY <1>1, <1>2
<1>5. \A i \in 1 .. Len(s) : (a \o b)[i] = s[i]
  <2> SUFFICES ASSUME NEW i \in 1 .. Len(s) PROVE (a \o b)[i] = s[i]
    OBVIOUS
  <2>1. CASE i <= n
    BY <1>1, <1>4, <2>1
  <2>2. CASE ~(i <= n)
    <3>1. i - n \in 1 .. Len(s) - n /\ n + (i - n) = i
      BY <2>2
    <3> QED BY <1>2, <1>4, <2>2, <3>1
  <2> QED BY <2>1, <2>2
<1>6. a \o b = s
  BY <1>4, <1>5, SeqEqual
<1>7. b = <<>> <=> n = Len(s)
  <2>1. b = <<>> <=> Len(b) = 0
    BY <1>2
  <2>2. Len(b) = 0 <=> n = Len(s)
    BY <1>2
  <2> QED BY <2>1, <2>2
<1> QED BY <1>1, <1>2, <1>3, <1>6, <1>7 DEF Cat

-----------------------------------------------------------------------------
(* Writing on the server's side. *)

LEMMA OutcomeIs ==
    ASSUME NmTypes, NEW buf \in Seq(Byte), NEW o \in WriteOutcomes(buf)
    PROVE  /\ o.n \in Nat /\ o.n <= Len(buf)
           /\ cl # "closed" => Len(s2c) + o.n <= PipeCap
           /\ o.res \in {"closed", "ok", "again", "error", "failed"}
           /\ o.res = "closed" <=> Closed
           /\ o.res = "ok" => o.n = Len(buf)
           /\ o.res = "again" => o.n < Len(buf)
<1> DEFINE k == Len(buf)
           c == Len(s2c)
           n == Smaller(k, PipeCap - c)
<1>1. k \in Nat /\ c \in Nat /\ c <= PipeCap /\ PipeCap \in Nat
  BY BoundsAssumption DEF NmTypes
<1>2. WriteOutcomes(buf) = IF Closed THEN {[res |-> "closed", n |-> 0]}
                           ELSE IF cl = "closed"
                           THEN {[res |-> "ok", n |-> k], [res |-> "error", n |-> 0]}
                           ELSE {[res |-> IF n = k THEN "ok" ELSE "again", n |-> n], [res |-> "failed", n |-> 0]}
  BY DEF WriteOutcomes
<1> HIDE DEF k, c
<1>3. n \in Nat /\ n <= k /\ c + n <= PipeCap /\ (n # k => n < k)
  BY <1>1 DEF Smaller
<1> HIDE DEF n
<1>4. CASE Closed
  BY <1>1, <1>2, <1>4 DEF k, c
<1>5. CASE ~Closed /\ cl = "closed"
  BY <1>1, <1>2, <1>5 DEF k, c
<1>6. CASE ~Closed /\ cl # "closed"
  BY <1>1, <1>2, <1>3, <1>6 DEF k, c
<1> QED BY <1>4, <1>5, <1>6

LEMMA QueueStep ==
    ASSUME NmTypes, NEW buf \in Seq(Byte), NEW o \in WriteOutcomes(buf), WriteQueue(buf, o)
    PROVE  /\ sendbuf' \in Seq(Byte) /\ s2c' \in Seq(Byte) /\ Len(s2c') <= PipeCap /\ writing' \in BOOLEAN
           /\ cl # "closed" => Cat(Cat(clbuf, s2c'), sendbuf') = Cat(Cat(clbuf, s2c), buf)
           /\ sendbuf' = <<>> <=> o.n = Len(buf)
           /\ writing' = (o.res # "ok")
<1> DEFINE p == Prefix(buf, o.n)
           d == Drop(buf, o.n)
<1>1. o.n \in Nat /\ o.n <= Len(buf) /\ (cl # "closed" => Len(s2c) + o.n <= PipeCap)
  BY OutcomeIs
<1>2. p \in Seq(Byte) /\ Len(p) = o.n /\ d \in Seq(Byte) /\ Cat(p, d) = buf /\ (d = <<>> <=> o.n = Len(buf))
  BY <1>1, Split
<1>3. sendbuf' = d /\ s2c' = (IF cl = "closed" THEN s2c ELSE s2c \o p) /\ writing' = (o.res # "ok")
  BY DEF WriteQueue
<1>4. s2c \in Seq(Byte) /\ clbuf \in Seq(Byte) /\ Len(s2c) <= PipeCap
  BY DEF NmTypes
<1> HIDE DEF p, d
<1>5. s2c \o p \in Seq(Byte) /\ Len(s2c \o p) = Len(s2c) + Len(p)
  <2>1. s2c \in Seq(Byte) /\ p \in Seq(Byte)
    BY <1>2, <1>4
  <2> QED BY <2>1
<1>6. ASSUME cl # "closed" PROVE Cat(Cat(clbuf, s2c'), sendbuf') = Cat(Cat(clbuf, s2c), buf)
  <2>0. p \in Seq(Byte) /\ d \in Seq(Byte) /\ s2c \in Seq(Byte) /\ clbuf \in Seq(Byte)
    BY <1>2, <1>4
  <2>1. (clbuf \o (s2c \o p)) \o d = (clbuf \o s2c) \o (p \o d)
    BY <2>0, SMTT(60)
  <2>2. s2c' = s2c \o p
    BY <1>3, <1>6
  <2> QED BY <1>2, <1>3, <2>1, <2>2 DEF Cat
<1> QED BY <1>1, <1>2, <1>3, <1>4, <1>5, <1>6

LEMMA WriteFlagsAre ==
    ASSUME "NBL_AUTO" \in flags, "READ_AGAIN_WHEN_WRITEABLE" \notin flags, NEW o,
           o.res \in {"closed", "ok", "again", "error", "failed"}, o.res = "closed" <=> Closed
    PROVE  /\ "NBL_AUTO" \in WriteFlags(o) /\ "READ_AGAIN_WHEN_WRITEABLE" \notin WriteFlags(o)
           /\ "CLOSED" \in WriteFlags(o) <=> Closed
           /\ o.res = "ok" => Interest(WriteFlags(o)) = {"IN"}
           /\ o.res = "again" => Interest(WriteFlags(o)) = {"OUT"}
<1>1. CASE o.res = "closed"
  BY <1>1 DEF WriteFlags, Closed
<1>2. CASE o.res \in {"ok", "failed"}
  <2>1. WriteFlags(o) = WriteState(flags, "ok")
    BY <1>2 DEF WriteFlags
  <2> QED BY <1>2, <2>1 DEF Closed, WriteState, WriteResult, WriteAgain, NblReadOnly, NblWriteOnly, Interest
<1>3. CASE o.res = "again"
  <2>1. WriteFlags(o) = WriteState(flags, "again")
    BY <1>3 DEF WriteFlags
  <2> QED BY <1>3, <2>1 DEF Closed, WriteState, WriteResult, WriteAgain, NblReadOnly, NblWriteOnly, Interest
<1>4. CASE o.res = "error"
  <2>1. WriteFlags(o) = WriteState(flags, "error")
    BY <1>4 DEF WriteFlags
  <2> QED BY <1>4, <2>1 DEF Closed, WriteState, WriteResult, WriteAgain, NblReadOnly, NblWriteOnly, Interest
<1> QED BY <1>1, <1>2, <1>3, <1>4

\* con_send as the client sees it: unless the encoding fails the message is
\* added to the stream.
LEMMA SendStep ==
    ASSUME NmTypes, NEW m \in ReqMsgs \cup RepMsgs, ConSend(m)
    PROVE  /\ sendbuf' \in Seq(Byte) /\ s2c' \in Seq(Byte) /\ Len(s2c') <= PipeCap /\ writing' \in BOOLEAN
           /\ repSent' \in Seq(EncMsgs)
           /\ mishaps' \subseteq {"write"} =>
                /\ mishaps \subseteq {"write"} /\ m \in EncMsgs /\ repSent' = Append(repSent, m)
                /\ cl # "closed" => Cat(Cat(clbuf, s2c'), sendbuf') = Cat(RepBytes, MsgBytes(m))
<1> DEFINE b == MsgBytes(m)
           buf == sendbuf \o b
<1>0. MsgOK(m)
  BY MsgsAssumption
<1>1. b \in Seq(Byte)
  BY <1>0, MsgBytesType
<1>2. sendbuf \in Seq(Byte) /\ s2c \in Seq(Byte) /\ clbuf \in Seq(Byte) /\ repSent \in Seq(EncMsgs)
      /\ Len(s2c) <= PipeCap /\ writing \in BOOLEAN
  BY DEF NmTypes
<1>3. PICK rc \in EncodeResults(m) :
            IF rc = "OK" THEN WriteStart(buf) /\ repSent' = Append(repSent, m)
            ELSE /\ sendbuf' = buf /\ mishaps' = mishaps \cup {"encode"}
                 /\ UNCHANGED <<flags, s2c, writing, repSent>>
  BY DEF ConSend
<1> HIDE DEF b
<1>4. buf \in Seq(Byte) /\ Cat(Cat(clbuf, s2c), buf) = Cat(RepBytes, b)
  <2>1. (clbuf \o s2c) \o (sendbuf \o b) = ((clbuf \o s2c) \o sendbuf) \o b
    BY <1>1, <1>2, SMTT(60)
  <2> QED BY <1>1, <1>2, <2>1 DEF Cat, RepBytes
<1> HIDE DEF buf
<1>5. CASE rc = "OK"
  <2>1. m \in EncMsgs
    BY <1>0, <1>3, <1>5 DEF EncodeResults, EncMsgs, Encodable
  <2>2. Append(repSent, m) \in Seq(EncMsgs)
    BY <1>2, <2>1
  <2>3. WriteStart(buf)
    BY <1>3, <1>5
  <2>4. CASE writing
    <3>1. sendbuf' = buf /\ UNCHANGED <<s2c, writing, mishaps>>
      BY <2>3, <2>4 DEF WriteStart
    <3> QED BY <1>2, <1>3, <1>4, <1>5, <2>1, <2>2, <3>1 DEF b
  <2>5. CASE ~writing
    <3>1. PICK o \in WriteOutcomes(buf) :
               /\ WriteQueue(buf, o)
               /\ mishaps' = IF o.res \in {"ok", "again"} THEN mishaps ELSE mishaps \cup {"write"}
      BY <2>3, <2>5 DEF WriteStart
    <3>2. /\ sendbuf' \in Seq(Byte) /\ s2c' \in Seq(Byte) /\ Len(s2c') <= PipeCap /\ writing' \in BOOLEAN
          /\ cl # "closed" => Cat(Cat(clbuf, s2c'), sendbuf') = Cat(Cat(clbuf, s2c), buf)
      BY <1>4, <3>1, QueueStep
    <3>3. mishaps \subseteq mishaps'
      BY <3>1
    <3> QED BY <1>3, <1>4, <1>5, <2>1, <2>2, <3>2, <3>3 DEF b
  <2> QED BY <1>2, <2>4, <2>5
<1>6. CASE rc # "OK"
  <2>1. "encode" \in mishaps'
    BY <1>3, <1>6
  <2> QED BY <1>2, <1>3, <1>4, <1>6, <2>1
<1> QED BY <1>5, <1>6

\* con_send and the socket's flags.
LEMMA SendFlags ==
    ASSUME NmTypes, FlagInv, con # "none", NEW m \in ReqMsgs \cup RepMsgs, ConSend(m)
    PROVE  /\ "NBL_AUTO" \in flags' /\ "READ_AGAIN_WHEN_WRITEABLE" \notin flags'
           /\ "CLOSED" \in flags' <=> Closed
           /\ con = "live" /\ ~Closed /\ mishaps' \subseteq {"cut"} =>
                /\ mishaps \subseteq {"cut"}
                /\ (sendbuf' # <<>>) = writing'
                /\ Interest(flags') = IF writing' THEN {"OUT"} ELSE {"IN"}
<1> DEFINE b == MsgBytes(m)
           buf == sendbuf \o b
<1>0. MsgOK(m)
  BY MsgsAssumption
<1>1. b \in Seq(Byte) /\ sendbuf \in Seq(Byte) /\ b # <<>>
  BY <1>0, MsgBytesType DEF NmTypes
<1>2. "NBL_AUTO" \in flags /\ "READ_AGAIN_WHEN_WRITEABLE" \notin flags /\ PendingWatched /\ writing \in BOOLEAN
  BY DEF FlagInv, NmTypes
<1>3. PICK rc \in EncodeResults(m) :
            IF rc = "OK" THEN WriteStart(buf) /\ repSent' = Append(repSent, m)
            ELSE /\ sendbuf' = buf /\ mishaps' = mishaps \cup {"encode"}
                 /\ UNCHANGED <<flags, s2c, writing, repSent>>
  BY DEF ConSend
<1> HIDE DEF b
<1>4. buf \in Seq(Byte) /\ buf # <<>>
  <2>1. buf \in Seq(Byte) /\ Len(buf) = Len(sendbuf) + Len(b) /\ Len(b) > 0 /\ Len(sendbuf) \in Nat
    BY <1>1
  <2>2. Len(buf) > 0
    BY <2>1
  <2> QED BY <2>1, <2>2
<1> HIDE DEF buf
<1>5. CASE rc = "OK"
  <2>3. WriteStart(buf)
    BY <1>3, <1>5
  <2>4. CASE writing
    <3>1. sendbuf' = buf /\ UNCHANGED <<flags, s2c, writing, mishaps>>
      BY <2>3, <2>4 DEF WriteStart
    <3> QED BY <1>2, <1>4, <2>4, <3>1 DEF PendingWatched, Open, Closed
  <2>5. CASE ~writing
    <3>1. PICK o \in WriteOutcomes(buf) :
               /\ WriteQueue(buf, o) /\ flags' = WriteFlags(o)
               /\ mishaps' = IF o.res \in {"ok", "again"} THEN mishaps ELSE mishaps \cup {"write"}
      BY <2>3, <2>5 DEF WriteStart
    <3>2. (sendbuf' = <<>> <=> o.n = Len(buf)) /\ writing' = (o.res # "ok")
      BY <1>4, <3>1, QueueStep
    <3>3. /\ o.res \in {"closed", "ok", "again", "error", "failed"} /\ (o.res = "closed" <=> Closed)
          /\ o.n \in Nat /\ Len(buf) \in Nat
          /\ (o.res = "ok" => o.n = Len(buf)) /\ (o.res = "again" => o.n < Len(buf))
      BY <1>4, OutcomeIs
    <3>4. /\ "NBL_AUTO" \in flags' /\ "READ_AGAIN_WHEN_WRITEABLE" \notin flags'
          /\ ("CLOSED" \in flags' <=> Closed)
          /\ (o.res = "ok" => Interest(flags') = {"IN"}) /\ (o.res = "again" => Interest(flags') = {"OUT"})
      BY <1>2, <3>1, <3>3, WriteFlagsAre
    <3>5. CASE o.res = "ok"
      BY <3>1, <3>2, <3>3, <3>4, <3>5
    <3>6. CASE o.res = "again"
      <4>1. o.n # Len(buf)
        BY <3>3, <3>6
      <4> QED BY <3>1, <3>2, <3>4, <3>6, <4>1
    <3>7. CASE o.res \notin {"ok", "again"}
      <4>1. "write" \in mishaps'
        BY <3>1, <3>7
      <4> QED BY <3>4, <4>1
    <3> QED BY <3>5, <3>6, <3>7
  <2> QED BY <1>2, <2>4, <2>5
<1>6. CASE rc # "OK"
  <2>1. "encode" \in mishaps' /\ flags' = flags
    BY <1>3, <1>6
  <2> QED BY <1>2, <2>1 DEF Closed
<1> QED BY <1>5, <1>6

-----------------------------------------------------------------------------
(* Initially and from step to step. *)

LEMMA NewParserOK ==
    ASSUME NEW msg
    PROVE  /\ ParOK(NewParser(msg)) /\ NewParser(msg).state = "MSG_BEGIN" /\ NewParser(msg).msg = msg
<1> DEFINE p == NewParser(msg)
<1>1. p = [state |-> "MSG_BEGIN", msg |-> msg, field_count |-> 0, fields_parsed |-> 0,
           name_len |-> 0, name |-> <<>>, type |-> "INT8", value_len |-> 0, value |-> <<>>]
  BY DEF NewParser
<1>2. "INT8" \in WireTypes
  <2>1. 1 \in DOMAIN TypeOfNum /\ TypeOfNum[1] = "INT8"
    BY DEF TypeOfNum
  <2> QED BY <2>1 DEF WireTypes
<1>3. <<>> \in Seq(Byte)
  OBVIOUS
<1> HIDE DEF p
<1>4. p.state = "MSG_BEGIN" /\ p.msg = msg /\ p.field_count = 0 /\ p.fields_parsed = 0
  BY <1>1
<1>5. ParType(p)
  BY <1>1, <1>2, <1>3 DEF ParType, ParStates
<1> QED BY <1>4, <1>5 DEF ParOK, FieldStates, p

\* get_msg and the end of recv leave the counts as they are.
LEMMA ParserReset ==
    ASSUME NEW p, ParOK(p)
    PROVE  /\ ParOK([p EXCEPT !.msg = {}])
           /\ ParOK([p EXCEPT !.msg = {}, !.state = "MSG_BEGIN"])
           /\ [p EXCEPT !.msg = {}, !.state = "MSG_BEGIN"].state = "MSG_BEGIN"
           /\ [p EXCEPT !.msg = {}, !.state = "MSG_BEGIN"].msg = {}
<1> DEFINE q == [p EXCEPT !.msg = {}]
           r == [p EXCEPT !.msg = {}, !.state = "MSG_BEGIN"]
<1>0. ParType(p)
  BY DEF ParOK
<1>1. ParType(q) /\ ParType(r)
  BY <1>0 DEF ParType, ParStates
<1>2. q.state = p.state /\ q.fields_parsed = p.fields_parsed /\ q.field_count = p.field_count
      /\ q.name_len = p.name_len
  BY <1>0 DEF ParType
<1>3. r.state = "MSG_BEGIN" /\ r.msg = {} /\ r.fields_parsed = p.fields_parsed /\ r.field_count = p.field_count
  BY <1>0 DEF ParType
<1> HIDE DEF q, r
<1>4. ParOK(q) /\ ParOK(r)
  BY <1>1, <1>2, <1>3 DEF ParOK, FieldStates
<1> QED BY <1>3, <1>4 DEF q, r

LEMMA NmInitInv == Init => NmInv
<1> SUFFICES ASSUME Init PROVE NmInv
  OBVIOUS
<1> USE DEF Init
<1>1. <<>> \in Seq(Byte) /\ <<>> \in Seq(EncMsgs) /\ Len(<<>>) = 0 /\ PipeCap \in Nat
  BY BoundsAssumption
<1>2. NmTypes
  <2>1. Len(c2s) <= PipeCap /\ Len(s2c) <= PipeCap
    BY <1>1
  <2>2. writing \in BOOLEAN /\ cl \in {"idle", "send", "recv", "closed"} /\ clout = <<>>
    OBVIOUS
  <2>3. /\ recvbuf \in Seq(Byte) /\ sendbuf \in Seq(Byte) /\ clout \in Seq(Byte) /\ clbuf \in Seq(Byte)
        /\ c2s \in Seq(Byte) /\ s2c \in Seq(Byte) /\ reqSent \in Seq(EncMsgs) /\ repSent \in Seq(EncMsgs)
    BY <1>1, Zenon
  <2> QED BY <2>1, <2>2, <2>3, Zenon DEF NmTypes
<1>3. Cat(Cat(<<>>, <<>>), <<>>) = <<>>
  BY <1>1, CatType
<1>4. Behind(<<>>, <<>>) /\ Out(<<>>, <<>>) = <<>>
  BY DEF Behind, Out
<1>5. ParOK(par) /\ par.state = "MSG_BEGIN" /\ par.msg = {} /\ ParOK(clpar)
  BY NewParserOK
<1>6. ReqInv
  BY <1>3, <1>4, <1>5 DEF ReqInv, ReqBytes, Framed
<1>7. RepInv
  BY <1>3, <1>4, <1>5, StreamEmpty DEF RepInv, RepBytes
<1>8. FlagInv
  BY DEF FlagInv, PendingWatched, Open
<1> QED BY <1>2, <1>6, <1>7, <1>8 DEF NmInv

\* The parts of the invariant read only these variables.
LEMMA ReqSame ==
    ASSUME ReqInv, UNCHANGED <<par, reqGot, reqSent, recvbuf, c2s, clout>>,
           srv' = "msg" => srv = "msg", Closed => Closed', "server" \in bad' => "server" \in bad
    PROVE  ReqInv'
BY DEF ReqInv, ReqBytes, Closed

LEMMA RepSame ==
    ASSUME RepInv, UNCHANGED <<clpar, repGot, repSent, clbuf, s2c, sendbuf>>,
           cl' = cl, mishaps' \subseteq {"write"} => mishaps \subseteq {"write"} /\ bad' = bad
    PROVE  RepInv'
BY DEF RepInv, RepBytes

LEMMA FlagSame ==
    ASSUME FlagInv, UNCHANGED <<flags, con, sendbuf, writing>>, srv' # "idle" => srv # "idle",
           mishaps \subseteq mishaps'
    PROVE  FlagInv'
BY DEF FlagInv, PendingWatched, Open

LEMMA SimpleSteps ==
    ASSUME NmInv,
           SockConnected \/ SockDisconnected \/ CanRead \/ ConReadFails \/ ConClose \/ ClientClose
             \/ UNCHANGED vars
    PROVE  NmInv'
<1>0. NmTypes /\ ReqInv /\ RepInv /\ FlagInv
  BY DEF NmInv
<1>1. CASE SockConnected
  <2>1. NmTypes'
    BY <1>0, <1>1 DEF SockConnected, NmTypes
  <2>2. ReqInv'
    BY <1>0, <1>1, ReqSame DEF SockConnected, Closed
  <2>3. RepInv'
    BY <1>0, <1>1, RepSame DEF SockConnected
  <2>4. FlagInv'
    <3>1. con = "none" /\ flags = {} /\ sendbuf = <<>> /\ ~writing /\ srv = "idle"
      BY <1>0, <1>1 DEF SockConnected, FlagInv
    <3>2. con' = "live" /\ flags' = {"NBL_AUTO", "NBL_READ"} /\ sendbuf' = <<>> /\ ~writing'
      BY <1>1, <3>1 DEF SockConnected
    <3>3. Interest(flags') = {"IN"}
      BY <3>2 DEF Interest
    <3>4. writing' = FALSE /\ (sendbuf' # <<>>) = FALSE
      BY <2>1, <3>2 DEF NmTypes
    <3>5. PendingWatched'
      BY <3>2, <3>3, <3>4 DEF PendingWatched
    <3> QED BY <3>2, <3>5 DEF FlagInv
  <2> QED BY <2>1, <2>2, <2>3, <2>4 DEF NmInv
<1>2. CASE SockDisconnected
  <2>1. NmTypes'
    BY <1>0, <1>2 DEF SockDisconnected, NmTypes
  <2>2. ReqInv'
    BY <1>0, <1>2, ReqSame DEF SockDisconnected, Closed
  <2>3. RepInv'
    BY <1>0, <1>2, RepSame DEF SockDisconnected
  <2>4. FlagInv'
    BY <1>0, <1>2 DEF SockDisconnected, FlagInv, PendingWatched, Open
  <2> QED BY <2>1, <2>2, <2>3, <2>4 DEF NmInv
<1>3. CASE CanRead
  <2>1. NmTypes'
    BY <1>0, <1>3 DEF CanRead, NmTypes
  <2>2. ReqInv'
    BY <1>0, <1>3, ReqSame DEF CanRead, Closed
  <2>3. RepInv'
    BY <1>0, <1>3, RepSame DEF CanRead
  <2>4. FlagInv'
    BY <1>0, <1>3 DEF CanRead, FlagInv, PendingWatched, Open
  <2> QED BY <2>1, <2>2, <2>3, <2>4 DEF NmInv
<1>4. CASE ConReadFails
  <2>0. /\ srv' = "idle" /\ "CLOSED" \in flags'
        /\ "NBL_AUTO" \in flags' /\ "READ_AGAIN_WHEN_WRITEABLE" \notin flags' /\ con # "none"
    <3>1. con # "none" /\ "NBL_AUTO" \in flags /\ "READ_AGAIN_WHEN_WRITEABLE" \notin flags /\ srv' = "idle"
      BY <1>0, <1>4 DEF ConReadFails, FlagInv
    <3>2. CASE Closed /\ UNCHANGED flags
      BY <3>1, <3>2 DEF Closed
    <3>3. CASE ~Closed /\ \E r \in {"error", "eof"} : flags' = CloseState(ReadState(flags, r))
      <4>1. PICK r \in {"error", "eof"} : flags' = CloseState(ReadState(flags, r))
        BY <3>3
      <4> QED BY <3>1, <3>3, <4>1
           DEF Closed, CloseState, ReadState, ReadResult, ReadAgain, NblWriteOnly
    <3> QED BY <1>4, <3>2, <3>3 DEF ConReadFails
  <2>1. NmTypes'
    BY <1>0, <1>4 DEF ConReadFails, NmTypes
  <2>2. ReqInv'
    BY <1>0, <1>4, <2>0, ReqSame DEF ConReadFails, Closed
  <2>3. RepInv'
    BY <1>0, <1>4, RepSame DEF ConReadFails
  <2>4. FlagInv'
    BY <1>0, <1>4, <2>0 DEF ConReadFails, FlagInv, PendingWatched, Open
  <2> QED BY <2>1, <2>2, <2>3, <2>4 DEF NmInv
<1>5. CASE ConClose
  <2>0. flags' = flags \cup {"CLOSED"} /\ con = "live"
    BY <1>5 DEF ConClose, CloseState, Open
  <2>1. NmTypes'
    BY <1>0, <1>5 DEF ConClose, NmTypes
  <2>2. ReqInv'
    BY <1>0, <1>5, <2>0, ReqSame DEF ConClose, Closed
  <2>3. RepInv'
    BY <1>0, <1>5, RepSame DEF ConClose
  <2>4. FlagInv'
    BY <1>0, <1>5, <2>0 DEF ConClose, FlagInv, PendingWatched, Open
  <2> QED BY <2>1, <2>2, <2>3, <2>4 DEF NmInv
<1>6. CASE ClientClose
  <2>1. NmTypes'
    BY <1>0, <1>6 DEF ClientClose, NmTypes
  <2>2. ReqInv'
    BY <1>0, <1>6, ReqSame DEF ClientClose, Closed
  <2>3. RepInv'
    BY <1>0, <1>6 DEF ClientClose, RepInv
  <2>4. FlagInv'
    BY <1>0, <1>6, FlagSame DEF ClientClose
  <2> QED BY <2>1, <2>2, <2>3, <2>4 DEF NmInv
<1>7. CASE UNCHANGED vars
  <2>1. NmTypes'
    BY <1>0, <1>7 DEF NmTypes
  <2>2. ReqInv'
    BY <1>0, <1>7, ReqSame DEF Closed
  <2>3. RepInv'
    BY <1>0, <1>7, RepSame
  <2>4. FlagInv'
    BY <1>0, <1>7, FlagSame
  <2> QED BY <2>1, <2>2, <2>3, <2>4 DEF NmInv
<1> QED BY <1>1, <1>2, <1>3, <1>4, <1>5, <1>6, <1>7

LEMMA ReadFlags ==
    ASSUME ~Closed, "READ_AGAIN_WHEN_WRITEABLE" \notin flags, NEW r \in {"data", "again"}
    PROVE  /\ "CLOSED" \notin ReadState(flags, r) /\ "READ_AGAIN_WHEN_WRITEABLE" \notin ReadState(flags, r)
           /\ "NBL_AUTO" \in flags => "NBL_AUTO" \in ReadState(flags, r)
           /\ Interest(ReadState(flags, r)) = Interest(flags)
<1>1. CASE r = "data"
  BY <1>1 DEF Closed, ReadState, ReadResult, ReadAgain, NblWriteOnly, Interest
<1>2. CASE r = "again"
  BY <1>2 DEF Closed, ReadState, ReadResult, ReadAgain, NblWriteOnly, Interest
<1> QED BY <1>1, <1>2

LEMMA FlagRead ==
    ASSUME FlagInv, NmTypes, ~Closed, srv # "idle", NEW r \in {"data", "again"}, flags' = ReadState(flags, r),
           UNCHANGED <<con, sendbuf, writing, mishaps>>
    PROVE  FlagInv'
<1>1. con # "none" /\ "NBL_AUTO" \in flags /\ "READ_AGAIN_WHEN_WRITEABLE" \notin flags /\ PendingWatched
  BY DEF FlagInv
<1>2. /\ "CLOSED" \notin flags' /\ "READ_AGAIN_WHEN_WRITEABLE" \notin flags'
      /\ "NBL_AUTO" \in flags' /\ Interest(flags') = Interest(flags)
  BY <1>1, ReadFlags
<1>3. PendingWatched'
  BY <1>1, <1>2 DEF PendingWatched, Open, Closed
<1> QED BY <1>1, <1>2, <1>3 DEF FlagInv

\* con_read on the bytes buf, with x behind them.
LEMMA ParseStep ==
    ASSUME NmTypes, ReqInv, ~Closed, NEW buf \in Seq(Byte), buf # <<>>, NEW x \in Seq(Byte),
           Cat(buf, x) = ReqBytes, NEW again, NEW fl, "CLOSED" \notin fl, Parse(buf, again, fl),
           UNCHANGED <<reqGot, reqSent>>,
           c2s' \in Seq(Byte), clout' \in Seq(Byte), Cat(c2s', clout') = x
    PROVE  ReqInv' /\ recvbuf' \in Seq(Byte) /\ flags' = fl /\ bad' = bad
<1> DEFINE r == ParserRun(par, buf)
           ms == Out(reqGot, reqSent)
<1>1. ParOK(par) /\ Behind(reqGot, reqSent) /\ Framed(par, {}, Cat(buf, x), ms) /\ "server" \notin bad
  BY DEF ReqInv
<1>2. ms \in Seq(EncMsgs)
  BY <1>1, OutType DEF NmTypes
<1> HIDE DEF ms
<1>3. Fresh({})
  BY DEF Fresh
<1>4. /\ ms # <<>> /\ RunOK(r) /\ r.stat \in {"AGAIN", "COMPLETE"}
      /\ Framed(r.par, {}, Cat(r.buf, x), ms)
      /\ r.stat = "COMPLETE" => r.par.state = "MSG_COMPLETE"
  BY <1>1, <1>2, <1>3, FramedRun
<1>5. /\ par' = r.par /\ recvbuf' = r.buf /\ flags' = fl /\ bad' = bad
      /\ srv' = "msg" => r.stat = "COMPLETE"
  BY <1>4 DEF Parse
<1> HIDE DEF r
<1>6. ParOK(r.par) /\ r.buf \in Seq(Byte)
  BY <1>4 DEF RunOK, RunType
<1>7. ReqBytes' = Cat(r.buf, x)
  <2>1. ReqBytes' = Cat(Cat(r.buf, c2s'), clout')
    BY <1>5 DEF ReqBytes
  <2> DEFINE a == r.buf
             b == c2s'
             c == clout'
  <2>2. a \in Seq(Byte) /\ b \in Seq(Byte) /\ c \in Seq(Byte)
    BY <1>6
  <2> HIDE DEF a, b, c
  <2>3. Cat(Cat(a, b), c) = Cat(a, Cat(b, c))
    BY <2>2, CatAssoc
  <2> QED BY <2>1, <2>3 DEF a, b, c
<1>8. r.stat = "COMPLETE" => r.par.msg = IF DOMAIN Head(ms) = {} THEN {} ELSE {Head(ms)}
  BY <1>2, <1>4, FramedDone
<1>9. ms' = ms
  BY DEF ms
<1> QED BY <1>1, <1>4, <1>5, <1>6, <1>7, <1>8, <1>9 DEF ReqInv, ms

LEMMA ServerReads ==
    ASSUME NmInv, ConRead \/ ConReadAgain
    PROVE  NmInv'
<1>0. NmTypes /\ ReqInv /\ RepInv /\ FlagInv
  BY DEF NmInv
<1>0a. /\ recvbuf \in Seq(Byte) /\ c2s \in Seq(Byte) /\ clout \in Seq(Byte) /\ Len(c2s) <= PipeCap
       /\ Len(c2s) \in Nat /\ PipeCap \in Nat
  BY <1>0, BoundsAssumption DEF NmTypes
<1>0b. "READ_AGAIN_WHEN_WRITEABLE" \notin flags
  BY <1>0 DEF FlagInv
<1>1. CASE ConRead
  <2>0. srv = "read" /\ ~Closed
    BY <1>1 DEF ConRead
  <2>1. PICK n \in 1 .. Len(c2s) : /\ Parse(recvbuf \o Prefix(c2s, n), FALSE, ReadState(flags, "data"))
                                   /\ c2s' = Drop(c2s, n)
    BY <1>1 DEF ConRead
  <2> DEFINE p == Prefix(c2s, n)
             d == Drop(c2s, n)
             buf == recvbuf \o p
             x == d \o clout
  <2>1a. n \in Nat /\ n <= Len(c2s) /\ n > 0
    BY <1>0a
  <2>2. p \in Seq(Byte) /\ d \in Seq(Byte) /\ Len(p) = n /\ Cat(p, d) = c2s /\ Len(d) = Len(c2s) - n
    BY <1>0a, <2>1a, Split
  <2> HIDE DEF p, d
  <2>2a. p \in Seq(Byte) /\ d \in Seq(Byte) /\ recvbuf \in Seq(Byte) /\ clout \in Seq(Byte)
    BY <1>0a, <2>2
  <2>3. buf \in Seq(Byte) /\ x \in Seq(Byte) /\ Len(buf) = Len(recvbuf) + Len(p) /\ Len(recvbuf) \in Nat
    BY <2>2a
  <2>4. Cat(buf, x) = ReqBytes
    <3>1. (recvbuf \o p) \o (d \o clout) = (recvbuf \o (p \o d)) \o clout
      BY <2>2a, SMTT(60)
    <3> QED BY <2>2, <3>1 DEF Cat, ReqBytes
  <2>5. Cat(d, clout) = x
    BY DEF Cat
  <2> HIDE DEF buf, x
  <2>6. buf # <<>>
    <3>1. Len(buf) > 0
      BY <2>1a, <2>2, <2>3
    <3> QED BY <3>1
  <2>7. Parse(buf, FALSE, ReadState(flags, "data")) /\ c2s' = d
    BY <2>1 DEF buf, p, d
  <2>8. UNCHANGED <<reqGot, reqSent, clout>>
    BY <1>1 DEF ConRead
  <2>9. "CLOSED" \notin ReadState(flags, "data")
    BY <1>0b, <2>0, ReadFlags
  <2>10. c2s' \in Seq(Byte) /\ clout' \in Seq(Byte) /\ Cat(c2s', clout') = x
    BY <2>2a, <2>5, <2>7, <2>8
  <2>11. ReqInv' /\ recvbuf' \in Seq(Byte) /\ flags' = ReadState(flags, "data") /\ bad' = bad
    BY <1>0, <2>0, <2>3, <2>4, <2>6, <2>7, <2>8, <2>9, <2>10, ParseStep
  <2>12. Len(c2s') <= PipeCap
    BY <1>0a, <2>1a, <2>2, <2>7
  <2>13. NmTypes'
    BY <1>0, <1>1, <2>10, <2>11, <2>12 DEF NmTypes, ConRead
  <2>14. RepInv'
    BY <1>0, <1>1, <2>11, RepSame DEF ConRead
  <2>15. FlagInv'
    BY <1>0, <1>1, <2>0, <2>11, FlagRead DEF ConRead
  <2> QED BY <2>11, <2>13, <2>14, <2>15 DEF NmInv
<1>2. CASE ConReadAgain
  <2>0. srv = "read" /\ ~Closed
    BY <1>2 DEF ConReadAgain
  <2>1. ReqInv' /\ recvbuf' \in Seq(Byte) /\ flags' = ReadState(flags, "again") /\ bad' = bad
    <3>1. CASE recvbuf = <<>>
      <4>1. srv' = "idle" /\ flags' = ReadState(flags, "again") /\ UNCHANGED <<par, recvbuf, bad>>
        BY <1>2, <3>1 DEF ConReadAgain
      <4>2. UNCHANGED <<par, reqGot, reqSent, recvbuf, c2s, clout, bad>>
        BY <1>2, <4>1 DEF ConReadAgain
      <4>3. ReqInv'
        BY <1>0, <2>0, <4>1, <4>2, ReqSame
      <4> QED BY <1>0a, <4>1, <4>3
    <3>2. CASE recvbuf # <<>>
      <4> DEFINE x == Cat(c2s, clout)
      <4>1. x \in Seq(Byte) /\ Cat(recvbuf, x) = ReqBytes
        BY <1>0a, CatType, CatAssoc DEF ReqBytes
      <4>2. Parse(recvbuf, TRUE, ReadState(flags, "again")) /\ UNCHANGED <<reqGot, reqSent, c2s, clout>>
        BY <1>2, <3>2 DEF ConReadAgain
      <4>3. "CLOSED" \notin ReadState(flags, "again")
        BY <1>0b, <2>0, ReadFlags
      <4>4. c2s' \in Seq(Byte) /\ clout' \in Seq(Byte) /\ Cat(c2s', clout') = x
        BY <1>0a, <4>2
      <4> HIDE DEF x
      <4> QED BY <1>0, <1>0a, <2>0, <3>2, <4>1, <4>2, <4>3, <4>4, ParseStep
    <3> QED BY <3>1, <3>2
  <2>2. NmTypes'
    BY <1>0, <1>2, <2>1 DEF NmTypes, ConReadAgain
  <2>3. RepInv'
    BY <1>0, <1>2, <2>1, RepSame DEF ConReadAgain
  <2>4. FlagInv'
    BY <1>0, <1>2, <2>0, <2>1, FlagRead DEF ConReadAgain
  <2> QED BY <2>1, <2>2, <2>3, <2>4 DEF NmInv
<1> QED BY <1>1, <1>2

\* A reply is added to the stream.
LEMMA RepSend ==
    ASSUME NmTypes, RepInv, NEW m \in ReqMsgs \cup RepMsgs, ConSend(m),
           UNCHANGED <<clpar, repGot, clbuf, cl, bad>>
    PROVE  RepInv'
<1> SUFFICES ASSUME mishaps' \subseteq {"write"}
             PROVE  /\ Behind(repGot', repSent')
                    /\ bad' = {}
                    /\ cl' = "recv" => Framed(clpar', {<<>>}, RepBytes', Out(repGot', repSent'))
                    /\ cl' \in {"idle", "send"} => RepBytes' = Stream(Out(repGot', repSent'))
  BY DEF RepInv
<1> DEFINE ms == Out(repGot, repSent)
           b == MsgBytes(m)
<1>1. /\ mishaps \subseteq {"write"} /\ m \in EncMsgs /\ repSent' = Append(repSent, m)
      /\ cl # "closed" => Cat(Cat(clbuf, s2c'), sendbuf') = Cat(RepBytes, b)
  BY SendStep
<1>2. /\ ParOK(clpar) /\ Behind(repGot, repSent) /\ bad = {} /\ repSent \in Seq(EncMsgs)
      /\ cl = "recv" => Framed(clpar, {<<>>}, RepBytes, ms)
      /\ cl \in {"idle", "send"} => RepBytes = Stream(ms)
  BY <1>1 DEF RepInv, NmTypes
<1>3. ms \in Seq(EncMsgs)
  BY <1>2, OutType
<1>4. Behind(repGot, Append(repSent, m)) /\ Out(repGot, Append(repSent, m)) = Append(ms, m)
  BY <1>1, <1>2, OutSent
<1>5. cl # "closed" => RepBytes' = Cat(RepBytes, b)
  BY <1>1 DEF RepBytes
<1> HIDE DEF ms, b
<1>6. cl = "recv" => Framed(clpar, {<<>>}, Cat(RepBytes, b), Append(ms, m))
  BY <1>1, <1>2, <1>3, FramedAppend DEF b
<1>7. cl \in {"idle", "send"} => Cat(RepBytes, b) = Stream(Append(ms, m))
  BY <1>1, <1>2, <1>3, StreamAppend DEF b
<1> QED BY <1>1, <1>2, <1>4, <1>5, <1>6, <1>7

LEMMA FlagSend ==
    ASSUME NmTypes, FlagInv, con # "none", NEW m \in ReqMsgs \cup RepMsgs, ConSend(m), con' = con
    PROVE  FlagInv'
<1>1. /\ "NBL_AUTO" \in flags' /\ "READ_AGAIN_WHEN_WRITEABLE" \notin flags'
      /\ "CLOSED" \in flags' <=> Closed
      /\ con = "live" /\ ~Closed /\ mishaps' \subseteq {"cut"} =>
           /\ (sendbuf' # <<>>) = writing'
           /\ Interest(flags') = IF writing' THEN {"OUT"} ELSE {"IN"}
  BY SendFlags
<1>2. PendingWatched'
  BY <1>1 DEF PendingWatched, Open, Closed
<1> QED BY <1>1, <1>2 DEF FlagInv

LEMMA ServerSends ==
    ASSUME NmInv, Push \/ ClientMsg
    PROVE  NmInv'
<1>0. NmTypes /\ ReqInv /\ RepInv /\ FlagInv
  BY DEF NmInv
<1>1. CASE Push
  <2>0. con = "live"
    BY <1>1 DEF Push
  <2>1. PICK m \in RepMsgs : ConSend(m)
    BY <1>1 DEF Push
  <2>2. m \in ReqMsgs \cup RepMsgs
    OBVIOUS
  <2>3. UNCHANGED <<con, srv, par, recvbuf, cl, clout, clpar, clbuf, c2s, bad, reqSent, reqGot, repGot>>
    BY <1>1 DEF Push
  <2>4. RepInv'
    BY <1>0, <2>1, <2>2, <2>3, RepSend
  <2>5. FlagInv'
    BY <1>0, <2>0, <2>1, <2>2, <2>3, FlagSend
  <2>6. "CLOSED" \in flags' <=> Closed
    BY <1>0, <2>0, <2>1, <2>2, SendFlags
  <2>7. ReqInv'
    BY <1>0, <2>3, <2>6, ReqSame DEF Closed
  <2>8. /\ sendbuf' \in Seq(Byte) /\ s2c' \in Seq(Byte) /\ Len(s2c') <= PipeCap /\ writing' \in BOOLEAN
        /\ repSent' \in Seq(EncMsgs)
    BY <1>0, <2>1, <2>2, SendStep
  <2>9. NmTypes'
    BY <1>0, <2>3, <2>8 DEF NmTypes
  <2> QED BY <2>4, <2>5, <2>7, <2>9 DEF NmInv
<1>2. CASE ClientMsg
  <2> DEFINE ms == Out(reqGot, reqSent)
  <2>0. /\ srv = "msg" /\ par' = [par EXCEPT !.msg = {}, !.state = "MSG_BEGIN"]
        /\ UNCHANGED <<con, recvbuf, cl, clout, clpar, clbuf, c2s, bad, reqSent, repGot>>
    BY <1>2 DEF ClientMsg
  <2>1. /\ ms # <<>> /\ par.msg = IF DOMAIN Head(ms) = {} THEN {} ELSE {Head(ms)}
        /\ Behind(reqGot, reqSent) /\ reqSent \in Seq(EncMsgs) /\ con # "none" /\ "server" \notin bad
        /\ ~Closed => par.state = "MSG_COMPLETE" /\ Framed(par, {}, ReqBytes, ms)
    BY <1>0, <2>0 DEF ReqInv, NmTypes, FlagInv
  <2>2. ParOK(par') /\ par'.state = "MSG_BEGIN" /\ par'.msg = {}
    BY <1>0, <2>0, ParserReset DEF ReqInv
  <2>3. ms \in Seq(EncMsgs)
    BY <2>1, OutType
  <2>4. CASE par.msg = {} /\ flags' = CloseState(flags) /\ srv' = "idle"
               /\ UNCHANGED <<sendbuf, writing, s2c, mishaps, reqGot, repSent>>
    <3>1. "CLOSED" \in flags' /\ flags' = flags \cup {"CLOSED"}
      BY <2>4 DEF CloseState
    <3>2. ReqInv'
      BY <2>0, <2>1, <2>2, <2>4, <3>1 DEF ReqInv, Closed
    <3>3. NmTypes'
      BY <1>0, <2>0, <2>4 DEF NmTypes
    <3>4. RepInv'
      BY <1>0, <2>0, <2>4, RepSame
    <3>5. FlagInv'
      BY <1>0, <2>0, <2>1, <2>4, <3>1 DEF FlagInv, PendingWatched, Open
    <3> QED BY <3>2, <3>3, <3>4, <3>5 DEF NmInv
  <2>5. ASSUME NEW m \in par.msg, reqGot' = Append(reqGot, m), srv' = "read",
               \/ ConSend(m)
               \/ UNCHANGED <<flags, sendbuf, writing, s2c, mishaps, repSent>>
        PROVE  NmInv'
    <3>1. m = Head(ms) /\ m \in EncMsgs
      BY <2>1, <2>3, <2>5, OutstandingIs
    <3>2. m \in ReqMsgs \cup RepMsgs
      BY <3>1 DEF EncMsgs
    <3>3. /\ "CLOSED" \in flags' <=> Closed
          /\ RepInv' /\ FlagInv' /\ NmTypes'
      <4>1. CASE ConSend(m)
        <5>1. "CLOSED" \in flags' <=> Closed
          BY <1>0, <2>1, <3>2, <4>1, SendFlags
        <5>2. RepInv'
          BY <1>0, <2>0, <3>2, <4>1, RepSend
        <5>3. FlagInv'
          BY <1>0, <2>0, <2>1, <3>2, <4>1, FlagSend
        <5>4. /\ sendbuf' \in Seq(Byte) /\ s2c' \in Seq(Byte) /\ Len(s2c') <= PipeCap /\ writing' \in BOOLEAN
              /\ repSent' \in Seq(EncMsgs)
          BY <1>0, <3>2, <4>1, SendStep
        <5>5. NmTypes'
          BY <1>0, <2>0, <5>4 DEF NmTypes
        <5> QED BY <5>1, <5>2, <5>3, <5>5
      <4>2. CASE UNCHANGED <<flags, sendbuf, writing, s2c, mishaps, repSent>>
        <5>1. RepInv'
          BY <1>0, <2>0, <4>2, RepSame
        <5>2. FlagInv'
          BY <1>0, <2>0, <4>2, FlagSame
        <5>3. NmTypes'
          BY <1>0, <2>0, <4>2 DEF NmTypes
        <5> QED BY <4>2, <5>1, <5>2, <5>3 DEF Closed
      <4> QED BY <2>5, <4>1, <4>2
    <3>4. Behind(reqGot', reqSent') /\ Out(reqGot', reqSent') = Tail(ms)
      BY <2>0, <2>1, <2>5, <3>1, OutGot
    <3>5. ~Closed => ReqBytes = Stream(Tail(ms))
      BY <2>1, <2>3, FramedDone
    <3>6. ReqBytes' = ReqBytes
      BY <2>0 DEF ReqBytes
    <3>7. Tail(ms) \in Seq(EncMsgs)
      BY <2>1, <2>3, OutstandingIs
    <3>7a. PICK q : q = par'
      OBVIOUS
    <3>7b. PICK ns : ns = Tail(ms)
      OBVIOUS
    <3>8. Framed(q, {}, Stream(ns), ns)
      <4>1. q.state = "MSG_BEGIN" /\ q.msg = {} /\ ns \in Seq(EncMsgs)
        BY <2>2, <3>7, <3>7a, <3>7b
      <4>2. Framed(q, q.msg, Stream(ns), ns)
        BY <4>1, FramedStart
      <4> QED BY <4>1, <4>2
    <3>9. ~Closed' => Framed(par', {}, ReqBytes', Out(reqGot', reqSent'))
      BY <3>3, <3>4, <3>5, <3>6, <3>7a, <3>7b, <3>8 DEF Closed
    <3>10. ReqInv'
      BY <2>0, <2>1, <2>2, <2>5, <3>4, <3>9 DEF ReqInv
    <3> QED BY <3>3, <3>10 DEF NmInv
  <2> QED BY <1>2, <2>4, <2>5 DEF ClientMsg
<1> QED BY <1>1, <1>2

\* can_write: the unsent bytes move on, in their order.
LEMMA CanWriteInv ==
    ASSUME NmInv, CanWrite
    PROVE  NmInv'
<1>0. NmTypes /\ ReqInv /\ RepInv /\ FlagInv /\ sendbuf \in Seq(Byte)
  BY DEF NmInv, NmTypes
<1>1. con = "live" /\ ~Closed /\ srv = "idle"
  BY DEF CanWrite, Open, Closed
<1>2. PICK o \in WriteOutcomes(sendbuf) :
          /\ WriteQueue(sendbuf, o)
          /\ flags' = IF o.res \in {"ok", "again"} THEN WriteFlags(o) ELSE CloseState(WriteFlags(o))
  BY DEF CanWrite
<1>3. UNCHANGED <<con, srv, par, recvbuf, cl, clout, clpar, clbuf, c2s, mishaps, bad,
                  reqSent, reqGot, repSent, repGot>>
  BY DEF CanWrite
<1>4. /\ sendbuf' \in Seq(Byte) /\ s2c' \in Seq(Byte) /\ Len(s2c') <= PipeCap /\ writing' \in BOOLEAN
      /\ cl # "closed" => Cat(Cat(clbuf, s2c'), sendbuf') = Cat(Cat(clbuf, s2c), sendbuf)
      /\ sendbuf' = <<>> <=> o.n = Len(sendbuf)
      /\ writing' = (o.res # "ok")
  BY <1>0, <1>2, QueueStep
<1>5. /\ o.res \in {"closed", "ok", "again", "error", "failed"} /\ (o.res = "closed" <=> Closed)
      /\ o.n \in Nat /\ Len(sendbuf) \in Nat
      /\ (o.res = "ok" => o.n = Len(sendbuf)) /\ (o.res = "again" => o.n < Len(sendbuf))
  BY <1>0, <1>2, OutcomeIs
<1>6. "NBL_AUTO" \in flags /\ "READ_AGAIN_WHEN_WRITEABLE" \notin flags
  BY <1>0, <1>1 DEF FlagInv
<1>7. /\ "NBL_AUTO" \in WriteFlags(o) /\ "READ_AGAIN_WHEN_WRITEABLE" \notin WriteFlags(o)
      /\ (o.res = "ok" => Interest(WriteFlags(o)) = {"IN"})
      /\ (o.res = "again" => Interest(WriteFlags(o)) = {"OUT"})
  BY <1>5, <1>6, WriteFlagsAre
<1>8. NmTypes'
  BY <1>0, <1>3, <1>4 DEF NmTypes
<1>9. ReqInv'
  BY <1>0, <1>1, <1>3, ReqSame
<1>10. RepInv'
  <2>1. cl # "closed" => RepBytes' = RepBytes
    BY <1>3, <1>4 DEF RepBytes
  <2> QED BY <1>0, <1>3, <2>1 DEF RepInv, NmTypes
<1>11. "NBL_AUTO" \in flags' /\ "READ_AGAIN_WHEN_WRITEABLE" \notin flags'
  BY <1>2, <1>7 DEF CloseState
<1>12. PendingWatched'
  <2>1. CASE o.res = "ok"
    <3>1. flags' = WriteFlags(o)
      BY <1>2, <2>1
    <3>2. writing' = FALSE /\ (sendbuf' # <<>>) = FALSE
      BY <1>4, <1>5, <2>1
    <3> QED BY <1>7, <2>1, <3>1, <3>2 DEF PendingWatched
  <2>2. CASE o.res = "again"
    <3>1. flags' = WriteFlags(o)
      BY <1>2, <2>2
    <3>2. o.n # Len(sendbuf)
      BY <1>5, <2>2
    <3>3. writing' = TRUE /\ (sendbuf' # <<>>) = TRUE
      BY <1>4, <2>2, <3>2
    <3> QED BY <1>7, <2>2, <3>1, <3>3 DEF PendingWatched
  <2>3. CASE o.res \notin {"ok", "again"}
    <3>1. "CLOSED" \in flags'
      BY <1>2, <2>3 DEF CloseState
    <3> QED BY <3>1 DEF PendingWatched, Open
  <2> QED BY <2>1, <2>2, <2>3
<1>13. FlagInv'
  BY <1>1, <1>3, <1>11, <1>12 DEF FlagInv
<1> QED BY <1>8, <1>9, <1>10, <1>13 DEF NmInv

\* The client puts a request on the wire.
LEMMA ClientSends ==
    ASSUME NmInv, ClientSend
    PROVE  NmInv'
<1>0. NmTypes /\ ReqInv /\ RepInv /\ FlagInv
  BY DEF NmInv
<1>1a. PICK m \in ReqMsgs : \E rc \in EncodeResults(m) :
          IF rc = "OK" THEN cl' = "send" /\ clout' = MsgBytes(m) /\ reqSent' = Append(reqSent, m)
          ELSE UNCHANGED <<cl, clout, reqSent>>
  BY DEF ClientSend
<1>1. PICK rc \in EncodeResults(m) :
          IF rc = "OK" THEN cl' = "send" /\ clout' = MsgBytes(m) /\ reqSent' = Append(reqSent, m)
          ELSE UNCHANGED <<cl, clout, reqSent>>
  BY <1>1a
<1>2. /\ cl = "idle"
      /\ UNCHANGED <<flags, con, srv, par, recvbuf, sendbuf, writing, clpar, clbuf, c2s, s2c,
                     mishaps, bad, reqGot, repSent, repGot>>
  BY DEF ClientSend
<1>3. FlagInv'
  BY <1>0, <1>2, FlagSame
<1>4. CASE rc # "OK"
  <2>1. UNCHANGED <<cl, clout, reqSent>>
    BY <1>1, <1>4
  <2>2. ReqInv'
    BY <1>0, <1>2, <2>1, ReqSame DEF Closed
  <2>3. RepInv'
    BY <1>0, <1>2, <2>1, RepSame
  <2>4. NmTypes'
    BY <1>0, <1>2, <2>1 DEF NmTypes
  <2> QED BY <1>3, <2>2, <2>3, <2>4 DEF NmInv
<1>5. CASE rc = "OK"
  <2> DEFINE b == MsgBytes(m)
             ms == Out(reqGot, reqSent)
             ns == Append(ms, m)
  <2>1. cl' = "send" /\ clout' = b /\ reqSent' = Append(reqSent, m)
    BY <1>1, <1>5
  <2>2. MsgOK(m)
    BY MsgsAssumption
  <2>3. m \in EncMsgs
    BY <1>5, <2>2 DEF EncodeResults, EncMsgs, Encodable
  <2>4. b \in Seq(Byte)
    BY <2>3, EncMsgIs
  <2>5. /\ reqSent \in Seq(EncMsgs) /\ clout = <<>> /\ recvbuf \in Seq(Byte) /\ c2s \in Seq(Byte)
    BY <1>0, <1>2 DEF NmTypes
  <2>6. /\ ParOK(par) /\ Behind(reqGot, reqSent)
        /\ ~Closed => Framed(par, {}, ReqBytes, ms)
        /\ srv = "msg" => /\ ms # <<>> /\ par.msg = IF DOMAIN Head(ms) = {} THEN {} ELSE {Head(ms)}
                          /\ ~Closed => par.state = "MSG_COMPLETE"
        /\ "server" \notin bad
    BY <1>0 DEF ReqInv
  <2>7. ms \in Seq(EncMsgs)
    BY <2>5, <2>6, OutType
  <2>8. Behind(reqGot', reqSent') /\ Out(reqGot', reqSent') = ns
    BY <1>2, <2>1, <2>3, <2>5, <2>6, OutSent
  <2>9. ReqBytes' = Cat(ReqBytes, b)
    <3>1. ReqBytes = Cat(recvbuf, c2s)
      BY <2>5, CatType DEF ReqBytes
    <3> QED BY <1>2, <2>1, <3>1 DEF ReqBytes
  <2>10. ns # <<>> /\ (ms # <<>> => Head(ns) = Head(ms))
    <3>1. Len(ns) = Len(ms) + 1 /\ Len(ms) \in Nat
      BY <2>7
    <3>2. ms # <<>> => Head(ns) = Head(ms)
      BY <2>3, <2>7
    <3>3. ns # <<>>
      BY <3>1
    <3> QED BY <3>2, <3>3
  <2> HIDE DEF b, ms
  <2>11. ~Closed => Framed(par, {}, Cat(ReqBytes, b), ns)
    BY <2>3, <2>6, <2>7, FramedAppend DEF b
  <2> HIDE DEF ns
  <2>12. ReqInv'
    BY <1>2, <2>6, <2>8, <2>9, <2>10, <2>11 DEF ReqInv, Closed
  <2>13. RepInv'
    BY <1>0, <1>2, <2>1 DEF RepInv, RepBytes
  <2>14. reqSent' \in Seq(EncMsgs)
    BY <2>1, <2>3, <2>5
  <2>15. NmTypes'
    BY <1>0, <1>2, <2>1, <2>4, <2>14 DEF NmTypes
  <2> QED BY <1>3, <2>12, <2>13, <2>15 DEF NmInv
<1> QED BY <1>4, <1>5

\* What fits of a request moves into the pipe.
LEMMA ClientWrites ==
    ASSUME NmInv, ClientWrite
    PROVE  NmInv'
<1>0. NmTypes /\ ReqInv /\ RepInv /\ FlagInv
  BY DEF NmInv
<1>1. /\ cl = "send"
      /\ UNCHANGED <<flags, con, srv, par, recvbuf, sendbuf, writing, clpar, clbuf, s2c,
                     mishaps, bad, reqSent, reqGot, repSent, repGot>>
  BY DEF ClientWrite
<1>2. cl' \in {"idle", "send"}
  BY DEF ClientWrite
<1>3. FlagInv'
  BY <1>0, <1>1, FlagSame
<1>4. RepInv'
  BY <1>0, <1>1, <1>2 DEF RepInv, RepBytes
<1>5. CASE Closed
  <2>1. clout' = <<>> /\ cl' = "idle" /\ UNCHANGED c2s
    BY <1>5 DEF ClientWrite
  <2>2. ReqInv'
    BY <1>0, <1>1, <1>5, <2>1 DEF ReqInv, Closed
  <2>3. <<>> \in Seq(Byte)
    OBVIOUS
  <2>4. NmTypes'
    BY <1>0, <1>1, <2>1, <2>3 DEF NmTypes
  <2> QED BY <1>3, <1>4, <2>2, <2>4 DEF NmInv
<1>6. CASE ~Closed
  <2> DEFINE n == Smaller(Len(clout), PipeCap - Len(c2s))
             p == Prefix(clout, n)
             d == Drop(clout, n)
  <2>1. c2s' = c2s \o p /\ clout' = d /\ cl' = (IF n = Len(clout) THEN "idle" ELSE "send")
    BY <1>6 DEF ClientWrite
  <2>2. /\ clout \in Seq(Byte) /\ c2s \in Seq(Byte) /\ recvbuf \in Seq(Byte)
        /\ Len(clout) \in Nat /\ Len(c2s) \in Nat /\ Len(c2s) <= PipeCap /\ PipeCap \in Nat
    BY <1>0, BoundsAssumption DEF NmTypes
  <2>3. n \in Nat /\ n <= Len(clout) /\ Len(c2s) + n <= PipeCap
    BY <2>2 DEF Smaller
  <2> HIDE DEF n
  <2>4. p \in Seq(Byte) /\ Len(p) = n /\ d \in Seq(Byte) /\ Cat(p, d) = clout /\ (d = <<>> <=> n = Len(clout))
    BY <2>2, <2>3, Split
  <2> HIDE DEF p, d
  <2>4a. c2s \in Seq(Byte) /\ p \in Seq(Byte) /\ d \in Seq(Byte) /\ recvbuf \in Seq(Byte)
    BY <2>2, <2>4
  <2>5. c2s \o p \in Seq(Byte) /\ Len(c2s \o p) = Len(c2s) + Len(p)
    BY <2>4a
  <2>6. ReqBytes' = ReqBytes
    <3>1. (recvbuf \o (c2s \o p)) \o d = (recvbuf \o c2s) \o (p \o d)
      BY <2>4a, SMTT(60)
    <3> QED BY <1>1, <2>1, <2>4, <3>1 DEF ReqBytes, Cat
  <2>7. ReqInv'
    BY <1>0, <1>1, <2>6 DEF ReqInv, Closed
  <2>8. Len(c2s') <= PipeCap
    BY <2>1, <2>3, <2>4, <2>5
  <2>9. cl' # "send" => clout' = <<>>
    BY <2>1, <2>4
  <2>10. c2s' \in Seq(Byte) /\ clout' \in Seq(Byte)
    BY <2>1, <2>4, <2>5
  <2>11. NmTypes'
    BY <1>0, <1>1, <1>2, <2>8, <2>9, <2>10 DEF NmTypes
  <2> QED BY <1>3, <1>4, <2>7, <2>11 DEF NmInv
<1> QED BY <1>5, <1>6

\* The client's parser on the bytes buf, with x behind them.
LEMMA ClientParseStep ==
    ASSUME NmTypes, NEW p, ParOK(p), NEW buf \in Seq(Byte), buf # <<>>, NEW x \in Seq(Byte),
           mishaps \subseteq {"write"} =>
              Behind(repGot, repSent) /\ bad = {} /\ Framed(p, {<<>>}, Cat(buf, x), Out(repGot, repSent)),
           ClientParse(p, buf), UNCHANGED <<repSent, mishaps>>,
           s2c' \in Seq(Byte), sendbuf' \in Seq(Byte), Cat(s2c', sendbuf') = x
    PROVE  /\ RepInv' /\ clbuf' \in Seq(Byte) /\ cl' \in {"recv", "idle"}
           /\ "server" \in bad' => "server" \in bad
<1> DEFINE r == ParserRun(p, buf)
           ms == Out(repGot, repSent)
<1>1. /\ clbuf' = r.buf
      /\ cl' = (IF r.stat = "AGAIN" THEN "recv" ELSE "idle")
      /\ clpar' = (IF r.stat = "AGAIN" THEN r.par ELSE [r.par EXCEPT !.msg = {}])
      /\ repGot' = (IF r.stat = "COMPLETE" THEN repGot \o SetToSeq(r.par.msg) ELSE repGot)
      /\ bad' = (IF r.stat = "INVALID" THEN bad \cup {"client"} ELSE bad)
  BY DEF ClientParse
<1>2. RunOK(r)
  BY ParserRunOK
<1>3. mishaps \subseteq {"write"} =>
        /\ Behind(repGot, repSent) /\ bad = {} /\ ms \in Seq(EncMsgs) /\ ms # <<>>
        /\ r.stat \in {"AGAIN", "COMPLETE"}
        /\ Framed(r.par, {<<>>}, Cat(r.buf, x), ms)
        /\ r.stat = "COMPLETE" => r.par.state = "MSG_COMPLETE"
  <2> SUFFICES ASSUME mishaps \subseteq {"write"}
               PROVE  /\ Behind(repGot, repSent) /\ bad = {} /\ ms \in Seq(EncMsgs) /\ ms # <<>>
                      /\ r.stat \in {"AGAIN", "COMPLETE"}
                      /\ Framed(r.par, {<<>>}, Cat(r.buf, x), ms)
                      /\ r.stat = "COMPLETE" => r.par.state = "MSG_COMPLETE"
    OBVIOUS
  <2> DEFINE new == {<<>>}
  <2>1. Fresh(new)
    BY DEF Fresh
  <2>2. Behind(repGot, repSent) /\ bad = {} /\ Framed(p, new, Cat(buf, x), ms)
    OBVIOUS
  <2>3. ms \in Seq(EncMsgs)
    BY <2>2, OutType DEF NmTypes
  <2> HIDE DEF new, ms
  <2>4. /\ ms # <<>> /\ r.stat \in {"AGAIN", "COMPLETE"}
        /\ Framed(r.par, new, Cat(r.buf, x), ms)
        /\ r.stat = "COMPLETE" => r.par.state = "MSG_COMPLETE"
    BY <2>1, <2>2, <2>3, FramedRun
  <2> QED BY <2>2, <2>3, <2>4 DEF new
<1> HIDE DEF r
<1>4. ParOK(r.par) /\ r.buf \in Seq(Byte)
  BY <1>2 DEF RunOK, RunType
<1>5. ParOK(clpar')
  BY <1>1, <1>4, ParserReset
<1>6. RepBytes' = Cat(r.buf, x)
  <2>1. RepBytes' = Cat(Cat(r.buf, s2c'), sendbuf')
    BY <1>1 DEF RepBytes
  <2> DEFINE a == r.buf
             b == s2c'
             c == sendbuf'
  <2>2. a \in Seq(Byte) /\ b \in Seq(Byte) /\ c \in Seq(Byte)
    BY <1>4
  <2> HIDE DEF a, b, c
  <2>3. Cat(Cat(a, b), c) = Cat(a, Cat(b, c))
    BY <2>2, CatAssoc
  <2> QED BY <2>1, <2>3 DEF a, b, c
<1>7. ASSUME mishaps' \subseteq {"write"}
      PROVE  /\ Behind(repGot', repSent') /\ bad' = {}
             /\ cl' = "recv" => Framed(clpar', {<<>>}, RepBytes', Out(repGot', repSent'))
             /\ cl' \in {"idle", "send"} => RepBytes' = Stream(Out(repGot', repSent'))
  <2>1. /\ Behind(repGot, repSent) /\ bad = {} /\ ms \in Seq(EncMsgs) /\ ms # <<>>
        /\ r.stat \in {"AGAIN", "COMPLETE"}
        /\ Framed(r.par, {<<>>}, Cat(r.buf, x), ms)
        /\ r.stat = "COMPLETE" => r.par.state = "MSG_COMPLETE"
    BY <1>3, <1>7
  <2>2. bad' = {}
    BY <1>1, <2>1
  <2>3. CASE r.stat = "AGAIN"
    <3>1. repGot' = repGot /\ cl' = "recv" /\ clpar' = r.par
      BY <1>1, <2>3
    <3> QED BY <1>6, <2>1, <2>2, <3>1 DEF ms
  <2>4. CASE r.stat = "COMPLETE"
    <3> DEFINE m == Head(ms)
               new == {<<>>}
               q == r.par
               R == Cat(r.buf, x)
    <3>1. Framed(q, new, R, ms) /\ q.state = "MSG_COMPLETE"
      BY <2>1, <2>4
    <3>2. m \in EncMsgs /\ Encodable(m)
      BY <2>1, OutstandingIs
    <3>2a. Agrees(q, m, new)
      BY <2>1, <3>1 DEF Framed
    <3> HIDE DEF new, q, R
    <3>3. R = Stream(Tail(ms))
      BY <2>1, <3>1, FramedDone
    <3> HIDE DEF m
    <3>4. q.msg = (IF DOMAIN m = {} THEN new ELSE {m}) /\ (DOMAIN m = {} => m = <<>>)
      BY <3>1, <3>2, <3>2a, ReadAll
    <3>5. q.msg = {m}
      BY <3>4 DEF new
    <3>6. SetToSeq(q.msg) = <<m>>
      BY <3>5, SetToSeqOne
    <3>7. repGot' = Append(repGot, m) /\ cl' = "idle"
      <4>1. repGot \in Seq(EncMsgs)
        BY <2>1, OutType DEF NmTypes
      <4>2. repGot \o <<m>> = Append(repGot, m)
        BY <3>2, <4>1
      <4> QED BY <1>1, <2>4, <3>6, <4>2 DEF q
    <3>8. Behind(repGot', repSent') /\ Out(repGot', repSent') = Tail(ms)
      BY <2>1, <3>7, OutGot DEF m, ms, NmTypes
    <3> QED BY <1>6, <2>2, <3>3, <3>7, <3>8 DEF R
  <2> QED BY <2>1, <2>3, <2>4
<1>8. RepInv'
  BY <1>5, <1>7 DEF RepInv
<1> QED BY <1>1, <1>4, <1>8

LEMMA ClientReceives ==
    ASSUME NmInv, ClientRecv \/ ClientRead
    PROVE  NmInv'
<1>0. NmTypes /\ ReqInv /\ RepInv /\ FlagInv
  BY DEF NmInv
<1>1. /\ clbuf \in Seq(Byte) /\ s2c \in Seq(Byte) /\ sendbuf \in Seq(Byte) /\ Len(s2c) <= PipeCap
      /\ Len(s2c) \in Nat /\ PipeCap \in Nat
  BY <1>0, BoundsAssumption DEF NmTypes
<1>2. UNCHANGED <<flags, con, srv, par, recvbuf, sendbuf, writing, clout, c2s, mishaps, reqSent, reqGot, repSent>>
  BY DEF ClientRecv, ClientRead
<1>3. FlagInv'
  BY <1>0, <1>2, FlagSame
<1>4. CASE ClientRecv
  <2>0. cl = "idle" /\ UNCHANGED s2c
    BY <1>4 DEF ClientRecv
  <2>0a. clout = <<>>
    BY <1>0, <2>0 DEF NmTypes
  <2>1. PICK q : q = NewParser({<<>>})
    OBVIOUS
  <2>2. ParOK(q) /\ q.state = "MSG_BEGIN" /\ q.msg = {<<>>}
    BY <2>1, NewParserOK
  <2>3. mishaps \subseteq {"write"} =>
           Behind(repGot, repSent) /\ bad = {} /\ Framed(q, {<<>>}, RepBytes, Out(repGot, repSent))
    <3> SUFFICES ASSUME mishaps \subseteq {"write"}
                 PROVE  Behind(repGot, repSent) /\ bad = {} /\ Framed(q, {<<>>}, RepBytes, Out(repGot, repSent))
      OBVIOUS
    <3>0. PICK ms : ms = Out(repGot, repSent)
      OBVIOUS
    <3>1. Behind(repGot, repSent) /\ bad = {} /\ RepBytes = Stream(ms)
      BY <1>0, <2>0, <3>0 DEF RepInv
    <3>2. ms \in Seq(EncMsgs)
      BY <1>0, <3>0, <3>1, OutType DEF NmTypes
    <3>3. Framed(q, q.msg, Stream(ms), ms)
      BY <2>2, <3>2, FramedStart
    <3> QED BY <2>2, <3>0, <3>1, <3>3
  <2>4. CASE clbuf = <<>>
    <3>1. cl' = "recv" /\ clpar' = q /\ UNCHANGED <<clbuf, repGot, bad>>
      BY <1>4, <2>1, <2>4 DEF ClientRecv
    <3>2. RepBytes' = RepBytes
      BY <1>2, <2>0, <3>1 DEF RepBytes
    <3>3. RepInv'
      BY <1>2, <2>2, <2>3, <3>1, <3>2 DEF RepInv
    <3>4. ReqInv'
      BY <1>0, <1>2, <3>1, ReqSame DEF Closed
    <3>5. NmTypes'
      BY <1>0, <1>2, <2>0, <2>0a, <3>1 DEF NmTypes
    <3> QED BY <1>3, <3>3, <3>4, <3>5 DEF NmInv
  <2>5. CASE clbuf # <<>>
    <3> DEFINE x == Cat(s2c, sendbuf)
    <3>1. ClientParse(q, clbuf)
      BY <1>4, <2>1, <2>5 DEF ClientRecv
    <3>2. x \in Seq(Byte) /\ Cat(clbuf, x) = RepBytes
      BY <1>1, CatType, CatAssoc DEF RepBytes
    <3>3. s2c' \in Seq(Byte) /\ sendbuf' \in Seq(Byte) /\ Cat(s2c', sendbuf') = x
      BY <1>1, <1>2, <2>0
    <3> HIDE DEF x
    <3>4. mishaps \subseteq {"write"} =>
            Behind(repGot, repSent) /\ bad = {} /\ Framed(q, {<<>>}, Cat(clbuf, x), Out(repGot, repSent))
      BY <2>3, <3>2
    <3>5. /\ RepInv' /\ clbuf' \in Seq(Byte) /\ cl' \in {"recv", "idle"}
          /\ "server" \in bad' => "server" \in bad
      BY <1>0, <1>1, <1>2, <2>2, <2>5, <3>1, <3>2, <3>3, <3>4, ClientParseStep
    <3>6. ReqInv'
      BY <1>0, <1>2, <3>5, ReqSame DEF Closed
    <3>7. NmTypes'
      BY <1>0, <1>2, <2>0, <2>0a, <3>5 DEF NmTypes
    <3> QED BY <1>3, <3>5, <3>6, <3>7 DEF NmInv
  <2> QED BY <2>4, <2>5
<1>5. CASE ClientRead
  <2>0. cl = "recv"
    BY <1>5 DEF ClientRead
  <2>0a. clout = <<>>
    BY <1>0, <2>0 DEF NmTypes
  <2>1. PICK n \in 1 .. Len(s2c) : ClientParse(clpar, clbuf \o Prefix(s2c, n)) /\ s2c' = Drop(s2c, n)
    BY <1>5 DEF ClientRead
  <2> DEFINE p == Prefix(s2c, n)
             d == Drop(s2c, n)
             buf == clbuf \o p
             x == d \o sendbuf
  <2>1a. n \in Nat /\ n <= Len(s2c) /\ n > 0
    BY <1>1
  <2>2. p \in Seq(Byte) /\ d \in Seq(Byte) /\ Len(p) = n /\ Cat(p, d) = s2c /\ Len(d) = Len(s2c) - n
    BY <1>1, <2>1a, Split
  <2> HIDE DEF p, d
  <2>2a. p \in Seq(Byte) /\ d \in Seq(Byte) /\ clbuf \in Seq(Byte) /\ sendbuf \in Seq(Byte)
    BY <1>1, <2>2
  <2>3. buf \in Seq(Byte) /\ x \in Seq(Byte) /\ Len(buf) = Len(clbuf) + Len(p) /\ Len(clbuf) \in Nat
    BY <2>2a
  <2>4. Cat(buf, x) = RepBytes
    <3>1. (clbuf \o p) \o (d \o sendbuf) = (clbuf \o (p \o d)) \o sendbuf
      BY <2>2a, SMTT(30)
    <3> QED BY <2>2, <3>1 DEF Cat, RepBytes
  <2>5. Cat(d, sendbuf) = x
    BY DEF Cat
  <2> HIDE DEF buf, x
  <2>6. buf # <<>>
    <3>1. Len(buf) > 0
      BY <2>1a, <2>2, <2>3
    <3> QED BY <3>1
  <2>7. ClientParse(clpar, buf) /\ s2c' = d
    BY <2>1 DEF buf, p, d
  <2>8. s2c' \in Seq(Byte) /\ sendbuf' \in Seq(Byte) /\ Cat(s2c', sendbuf') = x
    BY <1>2, <2>2a, <2>5, <2>7
  <2>9. /\ ParOK(clpar)
        /\ mishaps \subseteq {"write"} =>
            Behind(repGot, repSent) /\ bad = {} /\ Framed(clpar, {<<>>}, Cat(buf, x), Out(repGot, repSent))
    BY <1>0, <2>0, <2>4 DEF RepInv
  <2>10. /\ RepInv' /\ clbuf' \in Seq(Byte) /\ cl' \in {"recv", "idle"}
         /\ "server" \in bad' => "server" \in bad
    BY <1>0, <1>2, <2>3, <2>6, <2>7, <2>8, <2>9, ClientParseStep
  <2>11. ReqInv'
    BY <1>0, <1>2, <2>10, ReqSame DEF Closed
  <2>12. Len(s2c') <= PipeCap
    BY <1>1, <2>1a, <2>2, <2>7
  <2>13. NmTypes'
    BY <1>0, <1>2, <2>0a, <2>8, <2>10, <2>12 DEF NmTypes
  <2> QED BY <1>3, <2>10, <2>11, <2>13 DEF NmInv
<1> QED BY <1>4, <1>5

\* A recv that ends at the boundary of a message leaves the stream as it is.
LEMMA ClientFails ==
    ASSUME NmInv, ClientRecvFails
    PROVE  NmInv'
<1>0. NmTypes /\ ReqInv /\ RepInv /\ FlagInv
  BY DEF NmInv
<1>1. /\ cl = "recv" /\ cl' = "idle" /\ clpar' = [clpar EXCEPT !.msg = {}]
      /\ mishaps' = IF AtStart(clpar) THEN mishaps ELSE mishaps \cup {"cut"}
      /\ UNCHANGED <<flags, con, srv, par, recvbuf, sendbuf, writing, clout, clbuf, c2s, s2c, bad,
                     reqSent, reqGot, repSent, repGot>>
  BY DEF ClientRecvFails, AtStart
<1>2. NmTypes'
  BY <1>0, <1>1 DEF NmTypes
<1>3. ReqInv'
  BY <1>0, <1>1, ReqSame DEF Closed
<1>4. FlagInv'
  BY <1>0, <1>1, FlagSame
<1>5. ParOK(clpar')
  BY <1>0, <1>1, ParserReset DEF RepInv
<1>6. ASSUME mishaps' \subseteq {"write"}
      PROVE  /\ Behind(repGot', repSent') /\ bad' = {}
             /\ RepBytes' = Stream(Out(repGot', repSent'))
  <2>0. PICK ms : ms = Out(repGot, repSent)
    OBVIOUS
  <2>1. AtStart(clpar) /\ mishaps \subseteq {"write"}
    BY <1>1, <1>6
  <2>2. Behind(repGot, repSent) /\ bad = {} /\ Framed(clpar, {<<>>}, RepBytes, ms)
    BY <1>0, <1>1, <2>0, <2>1 DEF RepInv
  <2>3. ms \in Seq(EncMsgs)
    BY <1>0, <2>0, <2>2, OutType DEF NmTypes
  <2>4. PICK new : new = {<<>>}
    OBVIOUS
  <2>5. RepBytes = Stream(ms)
    BY <2>1, <2>2, <2>3, <2>4, FramedBack
  <2>6. RepBytes' = RepBytes
    BY <1>1 DEF RepBytes
  <2> QED BY <1>1, <2>0, <2>2, <2>5, <2>6
<1>7. RepInv'
  BY <1>1, <1>5, <1>6 DEF RepInv
<1> QED BY <1>2, <1>3, <1>4, <1>7 DEF NmInv

LEMMA NmStepInv ==
    ASSUME NmInv, [Next]_vars
    PROVE  NmInv'
<1>1. CASE SockConnected \/ SockDisconnected \/ CanRead \/ ConReadFails \/ ConClose \/ ClientClose
             \/ UNCHANGED vars
  BY <1>1, SimpleSteps
<1>2. CASE ConRead \/ ConReadAgain
  BY <1>2, ServerReads
<1>3. CASE ClientMsg \/ Push
  BY <1>3, ServerSends
<1>4. CASE CanWrite
  BY <1>4, CanWriteInv
<1>5. CASE ClientSend
  BY <1>5, ClientSends
<1>6. CASE ClientWrite
  BY <1>6, ClientWrites
<1>7. CASE ClientRecv \/ ClientRead
  BY <1>7, ClientReceives
<1>8. CASE ClientRecvFails
  BY <1>8, ClientFails
<1> QED BY <1>1, <1>2, <1>3, <1>4, <1>5, <1>6, <1>7, <1>8 DEF Next

-----------------------------------------------------------------------------
(* The theorems. *)

LEMMA NmInvariant == Spec => []NmInv
<1>1. Init => NmInv
  BY NmInitInv
<1>2. NmInv /\ [Next]_vars => NmInv'
  BY NmStepInv
<1> QED BY <1>1, <1>2, PTL DEF Spec

\* No parser meets a byte it must refuse, whatever pieces the messages arrive
\* in (vtm_nm_parser_run): for every set of messages, every bound and every
\* size of the pipe.
THEOREM FramingIsKept == Spec => []WellFramed
<1>1. NmInv => WellFramed
  <2> SUFFICES ASSUME NmInv PROVE WellFramed
    OBVIOUS
  <2>1. ReqInv /\ RepInv
    BY DEF NmInv
  <2>2. ParOK(par) /\ ParOK(clpar) /\ "server" \notin bad
    BY <2>1 DEF ReqInv, RepInv
  <2>3. mishaps \subseteq {"write"} => bad = {}
    BY <2>1 DEF RepInv
  <2> QED BY <2>2, <2>3 DEF WellFramed, ParOK
<1> QED BY <1>1, NmInvariant, PTL

\* The replies that vtm_nm_stream_client_recv returns are those that con_send
\* was given, whole and in order, however the server's threads interleave and
\* wherever the writes stop.
THEOREM RepliesKeepOrder == Spec => []RepliesInOrder
<1>1. NmInv => RepliesInOrder
  BY DEF NmInv, RepInv, RepliesInOrder, Behind, Prefix
<1> QED BY <1>1, NmInvariant, PTL

\* Unsent replies are watched for (vtm_socket_con_write_internal and the
\* socket's flags under NBL_AUTO).
THEOREM PendingIsWatched == Spec => []PendingWatched
<1>1. NmInv => PendingWatched
  BY DEF NmInv, FlagInv
<1> QED BY <1>1, NmInvariant, PTL

\* The connection implements the channel for its requests: each step sends
\* one, hands out the next one or changes neither history.
THEOREM RequestsKeepOrder == Spec => RequestsInOrder
<1>1. Init => Requests!ChanInit
  BY DEF Init, Requests!ChanInit
<1>2. NmInv /\ [Next]_vars => [Requests!Send \/ Requests!Deliver]_<<reqSent, reqGot>>
  <2> SUFFICES ASSUME NmInv, [Next]_vars
               PROVE  Requests!Send \/ Requests!Deliver \/ UNCHANGED <<reqSent, reqGot>>
    OBVIOUS
  <2>0. reqSent \in Seq(EncMsgs) /\ Behind(reqGot, reqSent)
    BY DEF NmInv, NmTypes, ReqInv
  <2>1. CASE ClientSend
    <3>1. (\E m \in ReqMsgs : reqSent' = Append(reqSent, m)) \/ reqSent' = reqSent
      BY <2>1 DEF ClientSend
    <3>2. reqGot' = reqGot
      BY <2>1 DEF ClientSend
    <3>3. ASSUME NEW m \in ReqMsgs, reqSent' = Append(reqSent, m)
          PROVE  Len(reqSent') = Len(reqSent) + 1 /\ SubSeq(reqSent', 1, Len(reqSent)) = reqSent
      BY <2>0, <3>3
    <3> QED BY <3>1, <3>2, <3>3 DEF Requests!Send
  <2>2. CASE ClientMsg
    <3>1. srv = "msg" /\ reqSent' = reqSent
      BY <2>2 DEF ClientMsg
    <3>2. CASE reqGot' = reqGot
      BY <3>1, <3>2
    <3>3. CASE \E m \in par.msg : reqGot' = Append(reqGot, m)
      <4>1. PICK m \in par.msg : reqGot' = Append(reqGot, m)
        BY <3>3
      <4> DEFINE ms == Out(reqGot, reqSent)
      <4>2. ms # <<>> /\ par.msg = IF DOMAIN Head(ms) = {} THEN {} ELSE {Head(ms)}
        BY <3>1 DEF NmInv, ReqInv
      <4>3. m = Head(ms)
        BY <4>2
      <4>4. Head(ms) = reqSent[Len(reqGot) + 1] /\ Len(reqGot) < Len(reqSent)
        BY <2>0, <4>2, OutGot
      <4> QED BY <3>1, <4>1, <4>3, <4>4 DEF Requests!Deliver
    <3> QED BY <2>2, <3>2, <3>3 DEF ClientMsg
  <2>3. CASE ~(ClientSend \/ ClientMsg)
    BY <2>3 DEF Next, SockConnected, SockDisconnected, CanRead, ConRead, ConReadAgain, ConReadFails,
                CanWrite, Push, ConClose, ClientWrite, ClientRecv, ClientRead, ClientRecvFails, ClientClose
  <2> QED BY <2>1, <2>2, <2>3
<1> QED BY <1>1, <1>2, NmInvariant, PTL DEF Spec, RequestsInOrder, Requests!ChanSpec
=============================================================================
