----------------------------- MODULE HttpProofs -----------------------------
(***************************************************************************)
(* AnswerBelongs of the HTTP client, for any servers and any number of     *)
(* requests, and WsCallbacks and AnswersInOrder of the HTTP server, for    *)
(* any number of connections and workers; RoutedInOrder of the router, for *)
(* any routes and paths; FramedAsWritten of the response, for any body,    *)
(* file and buffer; and StopReaches of the server wrapper, for any number  *)
(* of threads that call stop and any number of runs.                       *)
(*                                                                         *)
(* AnswerBelongs is not inductive: that the next whole answer which comes  *)
(* is the one that is waited for needs to know that a connection which is  *)
(* kept owes nothing, and that the receive buffer, which outlives the      *)
(* connections, is empty when a request begins.  For the server one needs  *)
(* to know that a connection has at most one reader, that what it is at    *)
(* its socket decides which callbacks it has made, and which request the   *)
(* answer belongs to that was sent last.  For the response one needs to    *)
(* know what its buffer holds after every call (ResInv): the head and the  *)
(* chunks, where they begin, and that what the socket has taken, what is   *)
(* in a file emitter's buffer and what is not read yet are the body.  That *)
(* a stop which was answered with VTM_OK is not undone by the next run     *)
(* needs to know that run makes a new socket server while no thread in     *)
(* stop can have seen it.                                                  *)
(***************************************************************************)
EXTENDS HttpClient, HttpServer, HttpRoutes, HttpResponse, ServerWrapper, SeqLemmas, FiniteSetTheorems, TLAPS

-----------------------------------------------------------------------------
(* Sequences of one and two elements.                                      *)

LEMMA SingleSeq ==
    ASSUME NEW a
    PROVE  /\ Head(<<a>>) = a /\ Tail(<<a>>) = <<>> /\ Len(<<a>>) = 1
           /\ SubSeq(<<a>>, 1, 1) = <<a>> /\ SubSeq(<<a>>, 2, 1) = <<>>
<1>1. <<a>> \in Seq({a}) /\ Len(<<a>>) = 1 /\ Head(<<a>>) = a
  OBVIOUS
<1>2. Tail(<<a>>) = <<>>
  BY <1>1
<1>3. SubSeq(<<a>>, 2, 1) = <<>>
  BY <1>1
<1>4. SubSeq(<<a>>, 1, 1) = <<a>>
  BY <1>1, SubSeqFull
<1>5. QED
  BY <1>1, <1>2, <1>3, <1>4

LEMMA PairSeq ==
    ASSUME NEW a, NEW b
    PROVE  /\ Head(<<a, b>>) = a /\ Tail(<<a, b>>) = <<b>> /\ Len(<<a, b>>) = 2
           /\ SubSeq(<<a, b>>, 1, 1) = <<a>> /\ SubSeq(<<a, b>>, 2, 2) = <<b>>
           /\ SubSeq(<<a, b>>, 1, 2) = <<a, b>> /\ SubSeq(<<a, b>>, 3, 2) = <<>>
           /\ <<>> \o <<a, b>> = <<a, b>>
<1>1. <<a, b>> \in Seq({a, b}) /\ Len(<<a, b>>) = 2 /\ Head(<<a, b>>) = a
  OBVIOUS
<1>2. Tail(<<a, b>>) = <<b>>
  BY <1>1
<1>3. SubSeq(<<a, b>>, 2, 2) = <<b>>
  BY <1>1, <1>2, TailIsSubSeq
<1>4. SubSeq(<<a, b>>, 1, 2) = <<a, b>>
  BY <1>1, SubSeqFull
<1>5. SubSeq(<<a, b>>, 3, 2) = <<>>
  BY <1>1
<1>6. <<>> \o <<a, b>> = <<a, b>>
  BY <1>1
<1>7. SubSeq(<<a, b>>, 1, 1) = <<a>>
  <2> DEFINE s == SubSeq(<<a, b>>, 1, 1)
  <2>1. s \in Seq({a, b}) /\ Len(s) = 1
    BY <1>1
  <2>2. s[1] = a
    BY <1>1
  <2> HIDE DEF s
  <2>3. s = <<a>>
    BY <2>1, <2>2
  <2>4. QED
    BY <2>3 DEF s
<1>8. QED
  BY <1>1, <1>2, <1>3, <1>4, <1>5, <1>6, <1>7

-----------------------------------------------------------------------------
(* The client.                                                             *)

Pieces == {1, 2} \X Nat
ClientSteps == {"idle", "open", "send", "recv", "done"}
Hosts == Addrs \cup {NoAddr}
Client == [sock : Nat, host : Hosts, recvbuf : Seq(Pieces), half : Nat, step : ClientSteps,
           req : Nat, to : Hosts]
Connection == [in : Seq(Pieces), asked : Seq(Nat), addr : Hosts]

ClientTypeOK ==
    /\ cl \in Client
    /\ net \in Seq(Connection)
    /\ answer \in [ok : BOOLEAN, for : Nat, to : Hosts]

\* A request is under way to an address, on a connection to it.
Underway ==
    /\ cl.step # "idle" => cl.to \in Addrs /\ cl.req # 0
    /\ cl.sock # NoSock => cl.sock \in DOMAIN net
    /\ cl.step \in {"send", "recv", "done"} => cl.sock # NoSock /\ net[cl.sock].addr = cl.to

\* The saved address is the one of the connection, and a connection that is kept
\* has one.
HostSaved ==
    /\ cl.sock # NoSock /\ cl.host # NoAddr => net[cl.sock].addr = cl.host
    /\ cl.step \in {"idle", "open"} => (cl.sock # NoSock <=> cl.host # NoAddr)

\* Nothing is left over when no answer is waited for: neither in the receive
\* buffer nor on the connection the next request may use.
NothingOwed ==
    cl.step # "recv" =>
        /\ cl.recvbuf = <<>>
        /\ cl.sock # NoSock => net[cl.sock].in = <<>> /\ net[cl.sock].asked = <<>>

\* While an answer is waited for it is all that is still to come: not yet given, or
\* its two pieces on the connection, in the buffer, or the first one parsed.
OneOwed ==
    LET n == net[cl.sock]
        one == Piece(1, cl.req)
        two == Piece(2, cl.req)
    IN  cl.step = "recv" =>
          \/ n.asked = <<cl.req>> /\ n.in = <<>> /\ cl.recvbuf = <<>> /\ cl.half = 0
          \/ /\ n.asked = <<>>
             /\ \/ cl.half = 0 /\ n.in = <<one, two>> /\ cl.recvbuf = <<>>
                \/ cl.half = 0 /\ n.in = <<two>> /\ cl.recvbuf = <<one>>
                \/ cl.half = 0 /\ n.in = <<>> /\ cl.recvbuf = <<one, two>>
                \/ cl.half = cl.req /\ n.in = <<two>> /\ cl.recvbuf = <<>>
                \/ cl.half = cl.req /\ n.in = <<>> /\ cl.recvbuf = <<two>>

\* The answer that was returned last is the one to the last request.
LastAnswer == answer.ok /\ cl.step \in {"done", "idle"} => answer.for = cl.req

ClientInv ==
    /\ ClientTypeOK /\ Underway /\ HostSaved /\ NothingOwed /\ OneOwed /\ LastAnswer

USE DEF NoSock

\* The first state of the client: no connection, nothing asked.
LEMMA ClientInitInv == ClientInit => ClientInv
<1> SUFFICES ASSUME ClientInit PROVE ClientInv
  OBVIOUS
<1> USE DEF ClientInit
<1>1. ClientTypeOK
  BY DEF ClientTypeOK, Client, Hosts, ClientSteps
<1>2. QED
  BY <1>1 DEF ClientInv, Underway, HostSaved, NothingOwed, OneOwed, LastAnswer

\* A request that begins, and the connection it finds, opens or does not get.
LEMMA RequestInv ==
    ASSUME ClientInv, NEW a \in Addrs, Request(a)
    PROVE  ClientInv'
<1> USE DEF ClientInv, Request
<1>1. ClientTypeOK'
  <2>1. cl.req + 1 \in Nat /\ a \in Hosts
    BY DEF ClientTypeOK, Client, Hosts
  <2>2. QED
    BY <2>1 DEF ClientTypeOK, Client, ClientSteps
<1>2. QED
  BY <1>1, HttpClientAssumption
     DEF ClientTypeOK, Client, Underway, HostSaved, NothingOwed, OneOwed, LastAnswer

LEMMA ConReuseInv == ClientInv /\ ConReuse => ClientInv'
<1> SUFFICES ASSUME ClientInv, ConReuse PROVE ClientInv'
  OBVIOUS
<1> USE DEF ClientInv, ConReuse, Same
<1>1. ClientTypeOK'
  BY DEF ClientTypeOK, Client, ClientSteps
<1>2. QED
  BY <1>1, HttpClientAssumption
     DEF ClientTypeOK, Client, Underway, HostSaved, NothingOwed, OneOwed, LastAnswer

\* The new connection stands behind the others, which it leaves alone.
LEMMA ConOpenInv == ClientInv /\ ConOpen => ClientInv'
<1> SUFFICES ASSUME ClientInv, ConOpen PROVE ClientInv'
  OBVIOUS
<1> USE DEF ClientInv, ConOpen, ConClosed
<1> DEFINE new == [in |-> <<>>, asked |-> <<>>, addr |-> cl.to]
<1>1. new \in Connection /\ net' = Append(net, new)
  <2>1. cl.to \in Hosts
    BY DEF ClientTypeOK, Client
  <2>2. [NoNet EXCEPT !.addr = cl.to] = new
    BY DEF NoNet
  <2>3. new \in Connection
    BY <2>1 DEF Connection
  <2>4. QED
    BY <2>2, <2>3
<1> HIDE DEF new
<1>2. /\ net' \in Seq(Connection) /\ Len(net') = Len(net) + 1
      /\ net'[Len(net) + 1] = new
  BY <1>1 DEF ClientTypeOK
<1>3. /\ cl' = [cl EXCEPT !.sock = Len(net) + 1, !.host = NoAddr, !.step = "send"]
      /\ Len(net) + 1 \in DOMAIN net' /\ Len(net) + 1 \in Nat \ {0}
  <2>1. Len(net) \in Nat /\ DOMAIN net' = 1 .. Len(net')
    BY <1>2 DEF ClientTypeOK
  <2>2. cl' = [cl EXCEPT !.sock = Len(net) + 1, !.host = NoAddr, !.step = "send"]
    BY DEF ClientTypeOK, Client
  <2>3. QED
    BY <1>2, <2>1, <2>2
<1>4. ClientTypeOK'
  BY <1>2, <1>3 DEF ClientTypeOK, Client, ClientSteps, Hosts
<1>5. /\ cl'.sock = Len(net) + 1 /\ cl'.host = NoAddr /\ cl'.step = "send" /\ cl'.to = cl.to
      /\ cl'.req = cl.req /\ cl'.recvbuf = cl.recvbuf /\ cl.step = "open"
  BY <1>3 DEF ClientTypeOK, Client
<1>6. net'[cl'.sock] = [in |-> <<>>, asked |-> <<>>, addr |-> cl.to]
  BY <1>2, <1>5 DEF new
<1>7. QED
  BY <1>3, <1>4, <1>5, <1>6
     DEF Underway, HostSaved, NothingOwed, OneOwed, LastAnswer

\* Every error gives the connection up; it comes with an empty receive buffer.
LEMMA ReturnErrorInv == ClientInv /\ ReturnError /\ cl.recvbuf = <<>> => ClientInv'
<1> SUFFICES ASSUME ClientInv, ReturnError, cl.recvbuf = <<>> PROVE ClientInv'
  OBVIOUS
<1> USE DEF ClientInv, ReturnError, ConClosed
<1>1. ClientTypeOK'
  BY DEF ClientTypeOK, Client, ClientSteps, Hosts
<1>2. QED
  BY <1>1 DEF ClientTypeOK, Client, Underway, HostSaved, NothingOwed, OneOwed, LastAnswer

\* What one entry of the network becomes leaves the others as they are.
LEMMA NetEntry ==
    ASSUME net \in Seq(Connection), NEW n \in DOMAIN net, NEW r \in Connection,
           net' = [net EXCEPT ![n] = r]
    PROVE  /\ net' \in Seq(Connection) /\ DOMAIN net' = DOMAIN net /\ net'[n] = r
           /\ \A m \in DOMAIN net : m # n => net'[m] = net[m]
  OBVIOUS

LEMMA InChanged ==
    ASSUME NEW c \in Connection, NEW i \in Seq(Pieces)
    PROVE  /\ [c EXCEPT !.in = i] \in Connection
           /\ [c EXCEPT !.in = i].in = i
           /\ [c EXCEPT !.in = i].asked = c.asked
           /\ [c EXCEPT !.in = i].addr = c.addr
  BY DEF Connection

LEMMA AskedChanged ==
    ASSUME NEW c \in Connection, NEW q \in Seq(Nat)
    PROVE  /\ [c EXCEPT !.asked = q] \in Connection
           /\ [c EXCEPT !.asked = q].in = c.in
           /\ [c EXCEPT !.asked = q].asked = q
           /\ [c EXCEPT !.asked = q].addr = c.addr
  BY DEF Connection

LEMMA SendInv == ClientInv /\ Send => ClientInv'
<1> SUFFICES ASSUME ClientInv, Send PROVE ClientInv'
  OBVIOUS
<1> USE DEF ClientInv, Send
<1>1. cl.sock \in DOMAIN net /\ net[cl.sock] \in Connection /\ cl.sock # 0
  BY DEF Underway, ClientTypeOK
<1>2. net[cl.sock].in = <<>> /\ net[cl.sock].asked = <<>> /\ cl.recvbuf = <<>>
  BY <1>1 DEF NothingOwed
<1> DEFINE r == [net[cl.sock] EXCEPT !.asked = Append(@, cl.req)]
<1>3. r \in Connection /\ r.in = <<>> /\ r.asked = <<cl.req>> /\ r.addr = net[cl.sock].addr
  <2>1. Append(net[cl.sock].asked, cl.req) = <<cl.req>> /\ <<cl.req>> \in Seq(Nat)
    BY <1>2 DEF ClientTypeOK, Client
  <2>2. QED
    BY <1>1, <1>2, <2>1, AskedChanged
<1>0. net' = [net EXCEPT ![cl.sock] = r]
  OBVIOUS
<1> HIDE DEF r
<1>4. /\ net' \in Seq(Connection) /\ DOMAIN net' = DOMAIN net /\ net'[cl.sock] = r
  BY <1>0, <1>1, <1>3, NetEntry DEF ClientTypeOK
<1>5. /\ cl'.sock = cl.sock /\ cl'.host = cl.host /\ cl'.step = "recv" /\ cl'.to = cl.to
      /\ cl'.req = cl.req /\ cl'.recvbuf = cl.recvbuf /\ cl'.half = 0
  BY DEF ClientTypeOK, Client
<1>6. ClientTypeOK'
  BY <1>4 DEF ClientTypeOK, Client, ClientSteps
<1>7. QED
  BY <1>1, <1>2, <1>3, <1>4, <1>5, <1>6
     DEF Underway, HostSaved, NothingOwed, OneOwed, LastAnswer

\* A server that answers a connection the client has given up changes nothing for
\* it; on the client's own connection the answer is the one that is waited for.
LEMMA ServerAnswerInv ==
    ASSUME ClientInv, NEW n \in DOMAIN net, ServerAnswer(n)
    PROVE  ClientInv'
<1> USE DEF ClientInv, ServerAnswer
<1> DEFINE a == Head(net[n].asked)
           both == <<Piece(1, a), Piece(2, a)>>
           r == [net[n] EXCEPT !.in = @ \o both, !.asked = Tail(@)]
<1>1. net[n] \in Connection /\ a \in Nat
  <2>1. net[n] \in Connection
    BY DEF ClientTypeOK
  <2>2. net[n].asked \in Seq(Nat) /\ net[n].asked # <<>>
    BY <2>1 DEF Connection
  <2>3. QED
    BY <2>1, <2>2
<1>2. /\ r \in Connection /\ r.in = net[n].in \o both /\ r.asked = Tail(net[n].asked)
      /\ r.addr = net[n].addr
  <2>1. both \in Seq(Pieces)
    BY <1>1 DEF Piece, Pieces
  <2> HIDE DEF both
  <2>2. net[n].in \o both \in Seq(Pieces) /\ Tail(net[n].asked) \in Seq(Nat)
    BY <1>1, <2>1 DEF Connection
  <2>3. QED
    BY <1>1, <2>2 DEF Connection
<1>3. net' = [net EXCEPT ![n] = r]
  OBVIOUS
<1> HIDE DEF both, r
<1>4. /\ net' \in Seq(Connection) /\ DOMAIN net' = DOMAIN net /\ net'[n] = r
      /\ \A m \in DOMAIN net : m # n => net'[m] = net[m]
  BY <1>2, <1>3, NetEntry DEF ClientTypeOK
<1>5. ClientTypeOK'
  BY <1>4 DEF ClientTypeOK
<1>6. \A m \in DOMAIN net : net'[m].addr = net[m].addr
  BY <1>2, <1>4, SMTT(60)
<1>7. CASE cl.sock # n
  BY <1>4, <1>5, <1>6, <1>7 DEF Underway, HostSaved, NothingOwed, OneOwed, LastAnswer
<1>8. CASE cl.sock = n
  <2>1. n # 0
    BY DEF ClientTypeOK
  <2>2. cl.step = "recv" /\ net[n].asked = <<cl.req>>
    BY <1>8, <2>1 DEF NothingOwed, OneOwed
  <2>3. net[n].in = <<>> /\ cl.recvbuf = <<>> /\ cl.half = 0
    BY <1>8, <2>2 DEF OneOwed
  <2>4. a = cl.req /\ Tail(net[n].asked) = <<>>
    BY <2>2 DEF ClientTypeOK, Client
  <2>5. net'[n].in = <<Piece(1, cl.req), Piece(2, cl.req)>> /\ net'[n].asked = <<>>
    <3>1. both = <<Piece(1, cl.req), Piece(2, cl.req)>> /\ <<>> \o both = both
      BY <2>4, PairSeq DEF both
    <3>2. QED
      BY <1>2, <1>4, <2>3, <2>4, <3>1
  <2>6. OneOwed'
    BY <1>8, <2>2, <2>3, <2>5 DEF OneOwed
  <2>7. QED
    BY <1>4, <1>5, <1>6, <1>8, <2>2, <2>6 DEF Underway, HostSaved, NothingOwed, LastAnswer
<1>9. QED
  BY <1>7, <1>8

\* A read takes a piece or both from the connection into the buffer.
LEMMA RecvReadInv ==
    ASSUME ClientInv, NEW k \in 1 .. 2, RecvRead(k)
    PROVE  ClientInv'
<1> USE DEF ClientInv, RecvRead
<1> DEFINE in == net[cl.sock].in
           one == Piece(1, cl.req)
           two == Piece(2, cl.req)
<1>1. cl.sock \in DOMAIN net /\ net[cl.sock] \in Connection /\ cl.sock # 0
  BY DEF Underway, ClientTypeOK
<1>2. in \in Seq(Pieces) /\ one \in Pieces /\ two \in Pieces /\ Len(in) \in Nat
  BY <1>1 DEF Connection, Piece, Pieces, ClientTypeOK, Client
<1> DEFINE r == [net[cl.sock] EXCEPT !.in = SubSeq(@, k + 1, Len(@))]
<1>3. /\ r \in Connection /\ r.in = SubSeq(in, k + 1, Len(in))
      /\ r.asked = net[cl.sock].asked /\ r.addr = net[cl.sock].addr
      /\ SubSeq(in, 1, k) \in Seq(Pieces)
  <2>1. SubSeq(in, 1, k) \in Seq(Pieces) /\ SubSeq(in, k + 1, Len(in)) \in Seq(Pieces)
    BY <1>2, SubSeqProperties
  <2>2. QED
    BY <1>1, <2>1, InChanged
<1>0. net' = [net EXCEPT ![cl.sock] = r]
  OBVIOUS
<1> HIDE DEF r
<1>4. /\ net' \in Seq(Connection) /\ DOMAIN net' = DOMAIN net /\ net'[cl.sock] = r
  BY <1>0, <1>1, <1>3, NetEntry DEF ClientTypeOK
<1>5. /\ cl'.sock = cl.sock /\ cl'.host = cl.host /\ cl'.step = "recv" /\ cl'.to = cl.to
      /\ cl'.req = cl.req /\ cl'.recvbuf = SubSeq(in, 1, k) /\ cl'.half = cl.half
  BY DEF ClientTypeOK, Client
<1>6. ClientTypeOK'
  BY <1>3, <1>4 DEF ClientTypeOK, Client, ClientSteps
<1>7. OneOwed'
  <2>1. /\ net'[cl.sock].in = SubSeq(in, k + 1, Len(in))
        /\ net'[cl.sock].asked = net[cl.sock].asked
    BY <1>3, <1>4
  <2>2. CASE in = <<one, two>> /\ k = 1
    <3>1. SubSeq(in, 1, k) = <<one>> /\ SubSeq(in, k + 1, Len(in)) = <<two>>
      <4> DEFINE pair == <<one, two>>
      <4>1. /\ Len(pair) = 2
            /\ SubSeq(pair, 1, 1) = <<one>> /\ SubSeq(pair, 2, 2) = <<two>>
        BY PairSeq
      <4>2. in = pair /\ k = 1 /\ k + 1 = 2
        BY <2>2
      <4> HIDE DEF pair
      <4>3. Len(in) = 2
        BY <4>1, <4>2
      <4>4. QED
        BY <4>1, <4>2, <4>3 DEF pair
    <3>2. cl.half = 0 /\ net[cl.sock].asked = <<>>
      BY <1>2, <2>2 DEF OneOwed
    <3>3. QED
      BY <1>5, <2>1, <3>1, <3>2 DEF OneOwed
  <2>3. CASE in = <<one, two>> /\ k = 2
    <3>1. SubSeq(in, 1, k) = <<one, two>> /\ SubSeq(in, k + 1, Len(in)) = <<>>
      <4> DEFINE pair == <<one, two>>
      <4>1. /\ Len(pair) = 2
            /\ SubSeq(pair, 1, 2) = <<one, two>> /\ SubSeq(pair, 3, 2) = <<>>
        BY PairSeq
      <4>2. in = pair /\ k = 2 /\ k + 1 = 3
        BY <2>3
      <4> HIDE DEF pair
      <4>3. Len(in) = 2
        BY <4>1, <4>2
      <4>4. QED
        BY <4>1, <4>2, <4>3 DEF pair
    <3>2. cl.half = 0 /\ net[cl.sock].asked = <<>>
      BY <1>2, <2>3 DEF OneOwed
    <3>3. QED
      BY <1>5, <2>1, <3>1, <3>2 DEF OneOwed
  <2>4. CASE in = <<two>>
    <3>1. k = 1
      BY <1>2, <2>4, SingleSeq
    <3>2. SubSeq(in, 1, k) = <<two>> /\ SubSeq(in, k + 1, Len(in)) = <<>>
      BY <2>4, <3>1, SingleSeq
    <3>3. cl.half = cl.req /\ net[cl.sock].asked = <<>>
      BY <1>2, <2>4 DEF OneOwed
    <3>4. QED
      BY <1>5, <2>1, <3>2, <3>3 DEF OneOwed
  <2>5. in # <<>>
    BY <1>2
  <2>6. in = <<one, two>> \/ in = <<two>>
    BY <2>5 DEF OneOwed
  <2>7. k = 1 \/ k = 2
    OBVIOUS
  <2>8. QED
    BY <2>2, <2>3, <2>4, <2>6, <2>7
<1>8. net'[cl.sock].addr = net[cl.sock].addr
  BY <1>3, <1>4
<1>9. QED
  BY <1>1, <1>4, <1>5, <1>6, <1>7, <1>8 DEF Underway, HostSaved, NothingOwed, LastAnswer

\* The parser gets the first piece of the answer, then the second one; no piece of
\* another answer is ever in its way.
LEMMA ParseInv == ClientInv /\ Parse => ClientInv'
<1> SUFFICES ASSUME ClientInv, Parse PROVE ClientInv'
  OBVIOUS
<1> USE DEF ClientInv
<1> DEFINE one == Piece(1, cl.req)
           two == Piece(2, cl.req)
           n == net[cl.sock]
<1>1. /\ cl.step = "recv" /\ cl.recvbuf # <<>> /\ cl.req \in Nat /\ cl.req # 0
      /\ cl.sock # 0 /\ cl.half \in Nat /\ n.asked = <<>>
  BY DEF Parse, ClientTypeOK, Client, Underway, OneOwed
<1>2. one[1] = 1 /\ one[2] = cl.req /\ two[1] = 2 /\ two[2] = cl.req
  BY DEF Piece
<1>3. CASE cl.half = 0
  <2>1. \/ n.in = <<two>> /\ cl.recvbuf = <<one>>
        \/ n.in = <<>> /\ cl.recvbuf = <<one, two>>
    BY <1>1, <1>3 DEF OneOwed
  <2>2. Head(cl.recvbuf) = one
    BY <2>1
  <2>3. /\ cl' = [[cl EXCEPT !.recvbuf = Tail(@)] EXCEPT !.half = cl.req]
        /\ UNCHANGED <<net, answer>>
    BY <1>2, <1>3, <2>2 DEF Parse
  <2>4. /\ cl'.sock = cl.sock /\ cl'.host = cl.host /\ cl'.step = "recv" /\ cl'.to = cl.to
        /\ cl'.req = cl.req /\ cl'.recvbuf = Tail(cl.recvbuf) /\ cl'.half = cl.req
    BY <1>1, <2>3 DEF ClientTypeOK, Client
  <2>5. \/ n.in = <<two>> /\ Tail(cl.recvbuf) = <<>>
        \/ n.in = <<>> /\ Tail(cl.recvbuf) = <<two>>
    <3>1. Tail(<<one>>) = <<>> /\ Tail(<<one, two>>) = <<two>>
      BY SingleSeq, PairSeq
    <3> HIDE DEF one, two
    <3>2. QED
      BY <2>1, <3>1
  <2>6. ClientTypeOK'
    <3>1. cl.recvbuf \in Seq(Pieces)
      BY DEF ClientTypeOK, Client
    <3>2. Tail(cl.recvbuf) \in Seq(Pieces)
      BY <1>1, <3>1
    <3>3. QED
      BY <1>1, <2>3, <3>2 DEF ClientTypeOK, Client
  <2>7. OneOwed'
    BY <1>1, <2>3, <2>4, <2>5 DEF OneOwed
  <2>8. QED
    BY <2>3, <2>4, <2>6, <2>7 DEF Underway, HostSaved, NothingOwed, LastAnswer
<1>4. CASE cl.half # 0
  <2>1. n.in = <<>> /\ cl.recvbuf = <<two>>
    BY <1>1, <1>4 DEF OneOwed
  <2>2. Head(cl.recvbuf) = two /\ Tail(cl.recvbuf) = <<>>
    BY <2>1
  <2>3. /\ cl' = [[cl EXCEPT !.recvbuf = Tail(@)] EXCEPT !.step = "done", !.half = 0]
        /\ answer' = [ok |-> TRUE, for |-> cl.req, to |-> cl.to]
        /\ UNCHANGED net
    BY <1>2, <1>4, <2>2 DEF Parse
  <2>4. /\ cl'.sock = cl.sock /\ cl'.host = cl.host /\ cl'.step = "done" /\ cl'.to = cl.to
        /\ cl'.req = cl.req /\ cl'.recvbuf = <<>>
    BY <2>2, <2>3 DEF ClientTypeOK, Client
  <2>5. ClientTypeOK'
    <3>1. <<>> \in Seq(Pieces)
      OBVIOUS
    <3>2. QED
      BY <1>1, <2>2, <2>3, <3>1 DEF ClientTypeOK, Client, ClientSteps
  <2>6. QED
    BY <1>1, <2>1, <2>3, <2>4, <2>5 DEF Underway, HostSaved, NothingOwed, OneOwed, LastAnswer
<1>5. QED
  BY <1>3, <1>4

\* The end of a request keeps or closes the connection; it may be taken over later.
LEMMA EndInv == ClientInv /\ (Keep \/ Close \/ TakeSocket) => ClientInv'
<1> SUFFICES ASSUME ClientInv, Keep \/ Close \/ TakeSocket PROVE ClientInv'
  OBVIOUS
<1> USE DEF ClientInv
<1>1. CASE Keep
  <2>1. ClientTypeOK'
    BY <1>1 DEF Keep, ClientTypeOK, Client, ClientSteps
  <2>2. QED
    BY <1>1, <2>1, HttpClientAssumption
       DEF Keep, ClientTypeOK, Client, Hosts, Underway, HostSaved, NothingOwed, OneOwed, LastAnswer
<1>2. CASE Close \/ TakeSocket
  <2>1. ClientTypeOK'
    <3>1. CASE Close
      BY <3>1 DEF Close, ConClosed, ClientTypeOK, Client, ClientSteps, Hosts
    <3>2. CASE TakeSocket
      BY <3>2 DEF TakeSocket, ConClosed, ClientTypeOK, Client, Hosts
    <3>3. QED
      BY <1>2, <3>1, <3>2
  <2>2. QED
    BY <1>2, <2>1, ZenonT(60)
       DEF Close, TakeSocket, ConClosed, ClientTypeOK, Client, Underway, HostSaved, NothingOwed,
           OneOwed, LastAnswer
<1>3. QED
  BY <1>1, <1>2

LEMMA ClientStepInv == ClientInv /\ [ClientNext]_clientVars => ClientInv'
<1> SUFFICES ASSUME ClientInv, [ClientNext]_clientVars PROVE ClientInv'
  OBVIOUS
<1>1. CASE UNCHANGED clientVars
  BY <1>1 DEF clientVars, ClientInv, ClientTypeOK, Underway, HostSaved, NothingOwed, OneOwed, LastAnswer
<1>2. ASSUME NEW a \in Addrs, Request(a) PROVE ClientInv'
  BY <1>2, RequestInv
<1>3. CASE ConFail \/ SendFail \/ RecvFail
  BY <1>3, ReturnErrorInv DEF ConFail, SendFail, RecvFail, ClientInv, NothingOwed
<1>4. ASSUME NEW n \in DOMAIN net, ServerAnswer(n) PROVE ClientInv'
  BY <1>4, ServerAnswerInv
<1>5. ASSUME NEW k \in 1 .. 2, RecvRead(k) PROVE ClientInv'
  BY <1>5, RecvReadInv
<1>6. QED
  BY <1>1, <1>2, <1>3, <1>4, <1>5, ConReuseInv, ConOpenInv, SendInv, ParseInv, EndInv DEF ClientNext

\* The answer vtm_http_client_request returns is the answer of the server it asked
\* to the request it sent, whatever timed out, was cut off, was kept, closed or
\* taken over before.
THEOREM AnswersBelong == ClientSpec => []AnswerBelongs
<1>1. ClientInv => AnswerBelongs
  BY DEF ClientInv, AnswerBelongs, Underway, HostSaved, LastAnswer
<1>2. QED
  BY <1>1, ClientInitInv, ClientStepInv, PTL DEF ClientSpec

-----------------------------------------------------------------------------
(* The server.                                                             *)

HKinds == {"new", "H1", "WS", "null", "freed"}
Callbacks == {"request", "ws_connect", "ws_message", "ws_close"}
Emitters == [w : HWorkers \cup {NoCon}, c : HConns \cup {NoCon}, req : Nat]
Answers == {"whole", "begin", "end", "other"} \X Nat
HConnection ==
    [kind : HKinds, open : BOOLEAN, sent : Nat, inbox : Nat, rbuf : Nat, asked : Nat,
     emt : Emitters, got : Seq(Answers), log : Seq(Callbacks), piped : BOOLEAN, hasty : BOOLEAN]

HttpTypeOK ==
    /\ hc \in [HConns -> HConnection]
    /\ at \in [HWorkers -> HConns \cup {NoCon}]

\* A connection has at most one reader, and none before it is set up or after it
\* was freed.
OneReader == \A w, v \in HWorkers : at[w] = at[v] /\ at[w] # NoCon => w = v
ReadersAlive ==
    /\ \A w \in HWorkers : at[w] # NoCon => hc[at[w]].kind \notin {"new", "freed"}
    /\ \A c \in HConns : hc[c].kind = "freed" => ~hc[c].open

\* The callbacks of the connection r: k requests, then, when it was upgraded,
\* ws_connect, messages and, when it is freed, ws_close.
SplitAt(r, k) ==
    /\ \A i \in 1 .. k : r.log[i] = "request"
    /\ r.kind \notin {"WS", "freed"} => k = Len(r.log)
    /\ r.kind = "WS" => k < Len(r.log)
    /\ k < Len(r.log) =>
         /\ r.log[k + 1] = "ws_connect"
         /\ \A i \in k + 2 .. Len(r.log) - 1 : r.log[i] = "ws_message"
         /\ r.kind = "WS" /\ Len(r.log) > k + 1 => r.log[Len(r.log)] = "ws_message"
         /\ r.kind = "freed" => Len(r.log) > k + 1 /\ r.log[Len(r.log)] = "ws_close"
LogShape(r) == \E k \in 0 .. Len(r.log) : SplitAt(r, k)

\* The number of the answer the client has got last.  It is the one to the last
\* request for as long as there may be another request or another part.
LastNo(got) == IF got = <<>> THEN 0 ELSE got[Len(got)][2]
InOrder(r) == ~r.piped /\ ~r.hasty /\ \A i \in DOMAIN r.got : r.got[i][1] # "other"
Begun(r) == r.got # <<>> /\ r.got[Len(r.got)][1] = "begin"
AnswerShape(r, busy) ==
    InOrder(r) =>
        /\ Whole(r.got) /\ Numbered(r.got)
        /\ r.emt # NoEmt <=> Begun(r) /\ r.kind # "freed"
        /\ r.emt # NoEmt => r.emt.req = LastNo(r.got)
        /\ r.open \/ busy => r.asked = LastNo(r.got)

HttpInv ==
    /\ HttpTypeOK /\ OneReader /\ ReadersAlive
    /\ \A c \in HConns : LogShape(hc[c])
    /\ \A c \in HConns : AnswerShape(hc[c], ~Quiet(c))

\* The next state of one connection when no reader comes or goes.
LEMMA ConStep ==
    ASSUME HttpInv, NEW c \in HConns, NEW r \in HConnection, Con(c, r), UNCHANGED at,
           LogShape(r), AnswerShape(r, ~Quiet(c)),
           r.kind \in {"new", "freed"} => Quiet(c),
           r.kind = "freed" => ~r.open
    PROVE  HttpInv'
<1> USE DEF HttpInv
<1>1. hc' = [hc EXCEPT ![c] = r] /\ at' = at
  BY DEF Con
<1>2. /\ hc' \in [HConns -> HConnection] /\ hc'[c] = r
      /\ \A d \in HConns : d # c => hc'[d] = hc[d]
  BY <1>1 DEF HttpTypeOK
<1>3. HttpTypeOK' /\ OneReader'
  BY <1>1, <1>2 DEF HttpTypeOK, OneReader
<1>4. ReadersAlive'
  <2>1. ASSUME NEW w \in HWorkers, at[w] # NoCon PROVE hc'[at[w]].kind \notin {"new", "freed"}
    <3>1. at[w] \in HConns
      BY <2>1 DEF HttpTypeOK
    <3>2. QED
      BY <1>2, <2>1, <3>1 DEF ReadersAlive, Quiet
  <2>2. QED
    BY <1>1, <1>2, <2>1 DEF ReadersAlive
<1>5. ASSUME NEW d \in HConns PROVE LogShape(hc'[d])
  BY <1>2
<1>6. ASSUME NEW d \in HConns PROVE AnswerShape(hc'[d], ~Quiet(d))
  BY <1>2
<1>7. (\A d \in HConns : LogShape(hc[d]))'
  BY <1>5 DEF LogShape, SplitAt
<1>8. (\A d \in HConns : AnswerShape(hc[d], ~Quiet(d)))'
  <2>1. \A d : Quiet(d)' <=> Quiet(d)
    BY <1>1 DEF Quiet
  <2>2. QED
    BY <1>6, <2>1 DEF AnswerShape, InOrder, Begun
<1>9. QED
  BY <1>3, <1>4, <1>7, <1>8

\* The same when its reader leaves.
LEMMA LeaveStep ==
    ASSUME HttpInv, NEW w \in HWorkers, NEW c \in HConns, at[w] = c,
           NEW r \in HConnection, Con(c, r), Leave(w),
           LogShape(r), AnswerShape(r, FALSE), r.kind = "freed" => ~r.open
    PROVE  HttpInv'
<1> USE DEF HttpInv
<1>0. c # NoCon
  BY HttpServerAssumption
<1>1. hc' = [hc EXCEPT ![c] = r] /\ at' = [at EXCEPT ![w] = NoCon]
  BY DEF Con, Leave
<1>2. /\ hc' \in [HConns -> HConnection] /\ hc'[c] = r
      /\ \A d \in HConns : d # c => hc'[d] = hc[d]
  BY <1>1 DEF HttpTypeOK
<1>3. /\ at' \in [HWorkers -> HConns \cup {NoCon}] /\ at'[w] = NoCon
      /\ \A v \in HWorkers : v # w => at'[v] = at[v]
  BY <1>1 DEF HttpTypeOK
<1>4. HttpTypeOK' /\ OneReader'
  BY <1>2, <1>3 DEF HttpTypeOK, OneReader
<1>5. ASSUME NEW v \in HWorkers, at'[v] # NoCon PROVE at'[v] = at[v] /\ at[v] # c
  BY <1>0, <1>3, <1>5 DEF OneReader
<1>6. ReadersAlive'
  <2>1. ASSUME NEW v \in HWorkers, at'[v] # NoCon PROVE hc'[at'[v]].kind \notin {"new", "freed"}
    <3>1. at'[v] \in HConns
      BY <1>3, <2>1
    <3>2. hc'[at'[v]] = hc[at[v]]
      BY <1>2, <1>5, <2>1, <3>1
    <3>3. QED
      BY <1>5, <2>1, <3>2 DEF ReadersAlive
  <2>2. QED
    BY <1>2, <2>1 DEF ReadersAlive
<1>7. Quiet(c)'
  BY <1>0, <1>3, <1>5 DEF Quiet
<1>8. \A d \in HConns : d # c => (Quiet(d)' <=> Quiet(d))
  <2>1. SUFFICES ASSUME NEW d \in HConns, d # c PROVE Quiet(d)' <=> Quiet(d)
    OBVIOUS
  <2>2. d # NoCon
    BY HttpServerAssumption
  <2>3. QED
    BY <1>3, <2>1, <2>2 DEF Quiet
<1>9. (\A d \in HConns : LogShape(hc[d]))'
  <2>1. ASSUME NEW d \in HConns PROVE LogShape(hc'[d])
    BY <1>2
  <2>2. QED
    BY <2>1 DEF LogShape, SplitAt
<1>10. (\A d \in HConns : AnswerShape(hc[d], ~Quiet(d)))'
  BY <1>2, <1>7, <1>8 DEF AnswerShape, InOrder, Begun
<1>11. QED
  BY <1>4, <1>6, <1>9, <1>10

-----------------------------------------------------------------------------
(* The callbacks.                                                          *)

\* No callback: the connection is what it was, or was never upgraded and will
\* not be.
LEMMA LogSame ==
    ASSUME NEW r \in HConnection, NEW q \in HConnection, LogShape(r), q.log = r.log,
           q.kind = r.kind \/ (r.kind \notin {"WS", "freed"} /\ q.kind # "WS")
    PROVE  LogShape(q)
<1>1. PICK k \in 0 .. Len(r.log) : SplitAt(r, k)
  BY DEF LogShape
<1>2. SplitAt(q, k)
  BY <1>1 DEF SplitAt
<1>3. QED
  BY <1>1, <1>2 DEF LogShape

LEMMA AppendFacts ==
    ASSUME NEW T, NEW s \in Seq(T), NEW e \in T
    PROVE  /\ Append(s, e) \in Seq(T) /\ Len(s) \in Nat /\ Len(Append(s, e)) = Len(s) + 1
           /\ Append(s, e)[Len(s) + 1] = e /\ Append(s, e) # <<>>
           /\ \A i \in 1 .. Len(s) : Append(s, e)[i] = s[i]
           /\ DOMAIN Append(s, e) = 1 .. Len(s) + 1 /\ DOMAIN s = 1 .. Len(s)
  OBVIOUS

\* A request before the upgrade.
LEMMA LogRequest ==
    ASSUME NEW r \in HConnection, NEW q \in HConnection, LogShape(r),
           r.kind = "H1", q.kind \in {"H1", "null"}, q.log = Append(r.log, "request")
    PROVE  LogShape(q)
<1>1. PICK k \in 0 .. Len(r.log) : SplitAt(r, k)
  BY DEF LogShape
<1>2. r.log \in Seq(Callbacks) /\ "request" \in Callbacks
  BY DEF HConnection, Callbacks
<1> DEFINE s == r.log
           n == Len(s)
           u == q.log
<1>3. /\ n \in Nat /\ Len(u) = n + 1 /\ u[n + 1] = "request"
      /\ \A i \in 1 .. n : u[i] = s[i]
  BY <1>2, AppendFacts
<1>4. k = n /\ \A i \in 1 .. n : s[i] = "request"
  BY <1>1 DEF SplitAt
<1> HIDE DEF s, n, u
<1>5. n + 1 \in 0 .. Len(u) /\ \A i \in 1 .. n + 1 : u[i] = "request"
  BY <1>3, <1>4
<1>6. SplitAt(q, n + 1)
  BY <1>3, <1>5 DEF SplitAt, u
<1>7. QED
  BY <1>5, <1>6 DEF LogShape, u

\* The request that upgrades.
LEMMA LogUpgrade ==
    ASSUME NEW r \in HConnection, NEW q \in HConnection, LogShape(r),
           r.kind = "H1", q.kind = "WS", q.log = Append(Append(r.log, "request"), "ws_connect")
    PROVE  LogShape(q)
<1>1. PICK k \in 0 .. Len(r.log) : SplitAt(r, k)
  BY DEF LogShape
<1>2. r.log \in Seq(Callbacks) /\ "request" \in Callbacks /\ "ws_connect" \in Callbacks
  BY DEF HConnection, Callbacks
<1> DEFINE s == r.log
           n == Len(s)
           m == Append(s, "request")
           u == q.log
<1>3. /\ n \in Nat /\ m \in Seq(Callbacks) /\ Len(m) = n + 1 /\ m[n + 1] = "request"
      /\ \A i \in 1 .. n : m[i] = s[i]
  BY <1>2, AppendFacts
<1>4. k = n /\ \A i \in 1 .. n : s[i] = "request"
  BY <1>1 DEF SplitAt
<1> HIDE DEF m
<1>5. /\ Len(u) = Len(m) + 1 /\ u[Len(m) + 1] = "ws_connect"
      /\ \A i \in 1 .. Len(m) : u[i] = m[i]
  BY <1>2, <1>3, AppendFacts DEF m
<1> HIDE DEF s, n, u
<1>6. /\ n + 1 \in 0 .. Len(u) /\ Len(u) = n + 2 /\ u[n + 2] = "ws_connect"
      /\ \A i \in 1 .. n + 1 : u[i] = "request"
  BY <1>3, <1>4, <1>5
<1>7. SplitAt(q, n + 1)
  BY <1>3, <1>6 DEF SplitAt, u
<1>8. QED
  BY <1>6, <1>7 DEF LogShape, u

\* A message of a WebSocket connection, or its end.
LEMMA LogWs ==
    ASSUME NEW r \in HConnection, NEW q \in HConnection, LogShape(r), NEW e, r.kind = "WS",
           q.log = Append(r.log, e),
           \/ q.kind = "WS" /\ e = "ws_message"
           \/ q.kind = "freed" /\ e = "ws_close"
    PROVE  LogShape(q)
<1>1. PICK k \in 0 .. Len(r.log) : SplitAt(r, k)
  BY DEF LogShape
<1>2. r.log \in Seq(Callbacks) /\ e \in Callbacks
  BY DEF HConnection, Callbacks
<1> DEFINE s == r.log
           n == Len(s)
           u == q.log
<1>3. /\ n \in Nat /\ Len(u) = n + 1 /\ u[n + 1] = e
      /\ \A i \in 1 .. n : u[i] = s[i]
  BY <1>2, AppendFacts
<1>4. /\ k \in 0 .. n /\ k < n /\ \A i \in 1 .. k : s[i] = "request"
      /\ s[k + 1] = "ws_connect"
      /\ \A i \in k + 2 .. n - 1 : s[i] = "ws_message"
      /\ n > k + 1 => s[n] = "ws_message"
  BY <1>1 DEF SplitAt
<1> HIDE DEF s, n, u
<1>5. /\ k \in 0 .. Len(u) /\ \A i \in 1 .. k : u[i] = "request"
      /\ u[k + 1] = "ws_connect"
  BY <1>3, <1>4
<1>6. \A i \in k + 2 .. Len(u) - 1 : u[i] = "ws_message"
  BY <1>3, <1>4
<1>7. SplitAt(q, k)
  BY <1>3, <1>4, <1>5, <1>6 DEF SplitAt, u
<1>8. QED
  BY <1>5, <1>7 DEF LogShape, u

-----------------------------------------------------------------------------
(* The answers.                                                            *)

\* Nothing is asked and nothing sent.
LEMMA AnswerSame ==
    ASSUME NEW r \in HConnection, NEW q \in HConnection, NEW b \in BOOLEAN, NEW d \in BOOLEAN,
           AnswerShape(r, b), q.got = r.got, q.emt = r.emt, q.asked = r.asked,
           q.piped = r.piped, r.hasty => q.hasty,
           q.kind = r.kind \/ (q.kind # "freed" /\ r.kind # "freed"),
           q.open \/ d => r.open \/ b
    PROVE  AnswerShape(q, d)
  BY DEF AnswerShape, InOrder, Begun, HConnection

\* The connection is freed.
LEMMA AnswerFreed ==
    ASSUME NEW r \in HConnection, NEW q \in HConnection, NEW b \in BOOLEAN,
           AnswerShape(r, b), q.got = r.got, q.emt = NoEmt, q.piped = r.piped, q.hasty = r.hasty,
           q.kind = "freed", ~q.open
    PROVE  AnswerShape(q, FALSE)
  BY DEF AnswerShape, InOrder, Begun, HConnection

\* The whole of a sequence of answers with one more at its end.
LEMMA OneMore ==
    ASSUME NEW s \in Seq(Answers), NEW x \in Answers, Whole(s), Numbered(s),
           x[1] # "other",
           s # <<>> /\ s[Len(s)][1] = "begin" => x[1] = "end" /\ x[2] = s[Len(s)][2],
           x[1] = "end" => s # <<>> /\ s[Len(s)][1] = "begin" /\ s[Len(s)][2] = x[2],
           x[2] = LastNo(s) + (IF x[1] = "end" THEN 0 ELSE 1)
    PROVE  /\ Append(s, x) \in Seq(Answers) /\ Whole(Append(s, x)) /\ Numbered(Append(s, x))
           /\ LastNo(Append(s, x)) = x[2] /\ Append(s, x) # <<>>
           /\ Append(s, x)[Len(Append(s, x))] = x
<1> DEFINE u == Append(s, x)
           n == Len(s)
<1>1. /\ u \in Seq(Answers) /\ n \in Nat /\ Len(u) = n + 1 /\ u[n + 1] = x /\ u # <<>>
      /\ \A i \in 1 .. n : u[i] = s[i]
      /\ DOMAIN u = 1 .. n + 1 /\ DOMAIN s = 1 .. n
  BY AppendFacts
<1>2. \A i \in 1 .. n + 1 : u[i] \in Answers
  BY <1>1
<1>3. x[1] \in {"whole", "begin", "end"} /\ (n = 0 <=> s = <<>>)
  BY <1>1 DEF Answers
<1>4. ASSUME n # 0 PROVE LastNo(s) = s[n][2] /\ n \in 1 .. n /\ s # <<>>
  BY <1>1, <1>3, <1>4 DEF LastNo
<1>5. /\ n # 0 /\ s[n][1] = "begin" => x = <<"end", s[n][2]>>
      /\ x[1] = "end" => n # 0 /\ s[n] = <<"begin", x[2]>>
  <2>1. x = <<x[1], x[2]>>
    BY DEF Answers
  <2>2. n # 0 => s[n] = <<s[n][1], s[n][2]>>
    BY <1>1, <1>4, SMTT(60) DEF Answers
  <2>3. QED
    BY <1>3, <1>4, <2>1, <2>2
<1>a. \A i \in 1 .. n :
        /\ s[i][1] # "other"
        /\ s[i][1] = "begin" => i = n \/ s[i + 1] = <<"end", s[i][2]>>
        /\ s[i][1] = "end" => i > 1 /\ s[i - 1] = <<"begin", s[i][2]>>
  BY <1>1 DEF Whole
<1> HIDE DEF u, n
<1>b. ASSUME NEW i \in 1 .. n + 1
      PROVE  /\ u[i][1] # "other"
             /\ u[i][1] = "begin" => i = n + 1 \/ u[i + 1] = <<"end", u[i][2]>>
             /\ u[i][1] = "end" => i > 1 /\ u[i - 1] = <<"begin", u[i][2]>>
  <2>1. CASE i = n + 1
    <3>1. u[i] = x
      BY <1>1, <2>1
    <3>2. n # 0 => u[i - 1] = s[n]
      BY <1>1, <2>1
    <3>3. QED
      BY <1>1, <1>5, <2>1, <3>1, <3>2
  <2>2. CASE i \in 1 .. n /\ i # n
    <3>1. i + 1 \in 1 .. n /\ u[i] = s[i] /\ u[i + 1] = s[i + 1]
      BY <1>1, <2>2
    <3>2. i > 1 => u[i - 1] = s[i - 1]
      BY <1>1, <2>2
    <3>3. QED
      BY <1>a, <2>2, <3>1, <3>2
  <2>3. CASE i = n /\ n # 0
    <3>1. i \in 1 .. n /\ u[i] = s[i] /\ u[i + 1] = x
      BY <1>1, <2>3
    <3>2. i > 1 => u[i - 1] = s[i - 1]
      BY <1>1, <2>3
    <3>3. s[i][1] = "begin" => u[i + 1] = <<"end", u[i][2]>>
      BY <1>5, <2>3, <3>1
    <3>4. QED
      BY <1>a, <3>1, <3>2, <3>3
  <2>4. QED
    BY <1>1, <2>1, <2>2, <2>3
<1>6. Whole(u)
  BY <1>1, <1>b DEF Whole
<1>7. ASSUME NEW i \in 1 .. n + 1
      PROVE  u[i][2] = (IF i = 1 THEN 0 ELSE u[i - 1][2]) + (IF u[i][1] = "end" THEN 0 ELSE 1)
  <2>1. CASE i = n + 1
    <3>1. LastNo(s) = IF i = 1 THEN 0 ELSE u[i - 1][2]
      BY <1>1, <1>3, <1>4, <2>1 DEF LastNo
    <3>2. QED
      BY <1>1, <2>1, <3>1
  <2>2. CASE i \in 1 .. n
    <3>1. i \in DOMAIN s /\ u[i] = s[i]
      BY <1>1, <2>2
    <3>2. i # 1 => u[i - 1] = s[i - 1]
      BY <1>1, <2>2
    <3>3. QED
      BY <3>1, <3>2 DEF Numbered
  <2>3. QED
    BY <1>1, <2>1, <2>2
<1>8. Numbered(u)
  BY <1>1, <1>7 DEF Numbered
<1>9. LastNo(u) = x[2]
  BY <1>1 DEF LastNo
<1>10. QED
  BY <1>1, <1>6, <1>8, <1>9 DEF u

\* An answer, or the first part of one, to the request that is handled.
LEMMA AnswerBegins ==
    ASSUME NEW r \in HConnection, NEW q \in HConnection, NEW d \in BOOLEAN, NEW x \in Answers,
           AnswerShape(r, TRUE), r.kind # "freed", q.kind # "freed",
           x[1] \in {"whole", "begin"}, x[2] = r.asked + 1, q.asked = r.asked + 1,
           q.got = Append(r.got, x),
           r.emt # NoEmt => q.piped \/ q.hasty, r.piped => q.piped, r.hasty => q.hasty,
           x[1] = "whole" => q.emt \in {NoEmt, r.emt},
           x[1] = "begin" => q.hasty \/ (q.emt # NoEmt /\ q.emt.req = x[2])
    PROVE  AnswerShape(q, d)
<1> SUFFICES ASSUME InOrder(q)
             PROVE  /\ Whole(q.got) /\ Numbered(q.got)
                    /\ q.emt # NoEmt <=> Begun(q) /\ q.kind # "freed"
                    /\ q.emt # NoEmt => q.emt.req = LastNo(q.got)
                    /\ q.open \/ d => q.asked = LastNo(q.got)
  BY DEF AnswerShape
<1>1. r.got \in Seq(Answers) /\ r.asked \in Nat
  BY DEF HConnection
<1>2. InOrder(r)
  <2>1. \A i \in DOMAIN r.got : i \in DOMAIN q.got /\ q.got[i] = r.got[i]
    BY <1>1, AppendFacts
  <2>2. QED
    BY <2>1 DEF InOrder
<1>3. r.emt = NoEmt /\ ~Begun(r) /\ r.asked = LastNo(r.got) /\ Whole(r.got) /\ Numbered(r.got)
  BY <1>2 DEF InOrder, AnswerShape
<1>4. /\ Whole(q.got) /\ Numbered(q.got) /\ LastNo(q.got) = x[2] /\ q.got # <<>>
      /\ q.got[Len(q.got)] = x
  BY <1>1, <1>3, OneMore DEF Begun
<1>5. Begun(q) <=> x[1] = "begin"
  BY <1>4 DEF Begun
<1>6. ~q.hasty
  BY DEF InOrder
<1>7. QED
  BY <1>3, <1>4, <1>5, <1>6

\* No answer, and the connection is closed and left.
LEMMA AnswerNone ==
    ASSUME NEW r \in HConnection, NEW q \in HConnection,
           AnswerShape(r, TRUE), r.kind # "freed", q.kind # "freed",
           q.got = r.got, q.emt = r.emt, q.piped = (r.piped \/ r.emt # NoEmt), r.hasty => q.hasty,
           ~q.open
    PROVE  AnswerShape(q, FALSE)
  BY DEF AnswerShape, InOrder, Begun, HConnection

\* The rest of an answer, from the response object it was begun with or from
\* another one.
LEMMA AnswerEnds ==
    ASSUME NEW r \in HConnection, NEW q \in HConnection, NEW b \in BOOLEAN, NEW x \in Answers,
           AnswerShape(r, b), r.emt # NoEmt, r.kind # "freed",
           x = <<"end", r.emt.req>> \/ x[1] = "other",
           q.got = Append(r.got, x), q.emt = NoEmt, q.asked = r.asked, q.open = r.open,
           q.piped = r.piped, q.hasty = r.hasty
    PROVE  AnswerShape(q, b)
<1> SUFFICES ASSUME InOrder(q)
             PROVE  /\ Whole(q.got) /\ Numbered(q.got)
                    /\ q.emt # NoEmt <=> Begun(q) /\ q.kind # "freed"
                    /\ q.emt # NoEmt => q.emt.req = LastNo(q.got)
                    /\ q.open \/ b => q.asked = LastNo(q.got)
  BY DEF AnswerShape
<1>1. r.got \in Seq(Answers) /\ r.emt.req \in Nat
  BY DEF HConnection, Emitters
<1>2. /\ \A i \in DOMAIN r.got : i \in DOMAIN q.got /\ q.got[i] = r.got[i]
      /\ Len(r.got) + 1 \in DOMAIN q.got /\ q.got[Len(r.got) + 1] = x
  BY <1>1, AppendFacts
<1>3. InOrder(r) /\ x[1] # "other"
  BY <1>2 DEF InOrder
<1>4. x[1] = "end" /\ x[2] = r.emt.req
  BY <1>3
<1>5. /\ Begun(r) /\ r.emt.req = LastNo(r.got) /\ Whole(r.got) /\ Numbered(r.got)
      /\ r.open \/ b => r.asked = LastNo(r.got)
  BY <1>3 DEF AnswerShape
<1>6. r.got # <<>> /\ r.got[Len(r.got)][1] = "begin" /\ r.got[Len(r.got)][2] = x[2]
  BY <1>4, <1>5 DEF Begun, LastNo
<1>7. /\ Whole(q.got) /\ Numbered(q.got) /\ LastNo(q.got) = x[2] /\ q.got # <<>>
      /\ q.got[Len(q.got)] = x
  <2>1. x[2] = LastNo(r.got) + (IF x[1] = "end" THEN 0 ELSE 1)
    BY <1>1, <1>4, <1>5
  <2>2. QED
    BY <1>1, <1>4, <1>5, <1>6, <2>1, OneMore, ZenonT(60)
<1>8. ~Begun(q)
  BY <1>4, <1>7 DEF Begun
<1>9. QED
  BY <1>4, <1>5, <1>7, <1>8

-----------------------------------------------------------------------------
(* What the parts of an action leave of a connection.                      *)

SameAnswers(r, q) ==
    /\ q.asked = r.asked /\ q.emt = r.emt /\ q.got = r.got
    /\ q.piped = r.piped

LEMMA ReadFields ==
    ASSUME NEW r \in HConnection
    PROVE  /\ Read(r) \in HConnection /\ SameAnswers(r, Read(r)) /\ Read(r).hasty = r.hasty
           /\ Read(r).kind = r.kind /\ Read(r).open = r.open /\ Read(r).log = r.log
<1>1. r.rbuf + r.inbox \in Nat
  BY DEF HConnection
<1>2. QED
  BY <1>1 DEF HConnection, Read, SameAnswers

LEMMA ClosedFields ==
    ASSUME NEW r \in HConnection
    PROVE  /\ Closed(r) \in HConnection /\ SameAnswers(r, Closed(r)) /\ Closed(r).hasty = r.hasty
           /\ Closed(r).kind = r.kind /\ ~Closed(r).open /\ Closed(r).log = r.log
  BY DEF HConnection, Closed, SameAnswers

LEMMA HastyFields ==
    ASSUME NEW r \in HConnection, NEW h \in BOOLEAN
    PROVE  LET q == [r EXCEPT !.hasty = h]
           IN  /\ q \in HConnection /\ SameAnswers(r, q) /\ q.hasty = h
               /\ q.kind = r.kind /\ q.open = r.open /\ q.log = r.log
  BY DEF HConnection, SameAnswers

LEMMA LoggedFields ==
    ASSUME NEW r \in HConnection, NEW e \in Callbacks
    PROVE  /\ Logged(r, e) \in HConnection /\ SameAnswers(r, Logged(r, e))
           /\ Logged(r, e).hasty = r.hasty
           /\ Logged(r, e).kind = r.kind /\ Logged(r, e).open = r.open
           /\ Logged(r, e).log = Append(r.log, e)
<1>1. Append(r.log, e) \in Seq(Callbacks)
  BY DEF HConnection
<1>2. QED
  BY <1>1 DEF HConnection, Logged, SameAnswers

LEMMA TakenFields ==
    ASSUME NEW r \in HConnection, Read(r).rbuf > 0
    PROVE  LET q == TakenReq(r)
           IN  /\ q \in HConnection /\ q.asked = r.asked + 1 /\ q.emt = r.emt /\ q.got = r.got
               /\ q.piped = (r.piped \/ r.emt # NoEmt) /\ q.hasty = r.hasty
               /\ q.kind = r.kind /\ q.open = r.open /\ q.log = r.log
<1> DEFINE u == Read(r)
<1>1. u \in HConnection /\ SameAnswers(r, u) /\ u.hasty = r.hasty /\ u.kind = r.kind
      /\ u.open = r.open /\ u.log = r.log
  BY ReadFields
<1>2. TakenReq(r) = [u EXCEPT !.rbuf = @ - 1, !.asked = @ + 1, !.piped = @ \/ r.emt # NoEmt]
  BY DEF TakenReq
<1>3. u.rbuf > 0
  OBVIOUS
<1> HIDE DEF u
<1>4. /\ u.rbuf - 1 \in Nat /\ u.asked + 1 \in Nat /\ (u.piped \/ r.emt # NoEmt) \in BOOLEAN
  BY <1>1, <1>3 DEF HConnection
<1>5. QED
  BY <1>1, <1>2, <1>4, ZenonT(60) DEF HConnection, SameAnswers

\* What a request makes of the connection: q is the answer's outcome.
LEMMA OutcomeFields ==
    ASSUME NEW r \in HConnection, Read(r).rbuf > 0, NEW w \in HWorkers, NEW c \in HConns,
           NEW q, q = Answered(r) \/ q = Waiting(r, w, c)
    PROVE  /\ q \in HConnection /\ q.asked = r.asked + 1
           /\ q.piped = (r.piped \/ r.emt # NoEmt) /\ q.hasty = r.hasty
           /\ q.kind = r.kind /\ q.open = r.open /\ q.log = Append(r.log, "request")
           /\ \/ q.got = Append(r.got, <<"whole", r.asked + 1>>) /\ q.emt = r.emt
              \/ /\ q.got = Append(r.got, <<"begin", r.asked + 1>>)
                 /\ q.emt # NoEmt /\ q.emt.req = r.asked + 1
<1> DEFINE u == TakenReq(r)
           v == Logged(u, "request")
<1>1. /\ u \in HConnection /\ u.asked = r.asked + 1 /\ u.emt = r.emt /\ u.got = r.got
      /\ u.piped = (r.piped \/ r.emt # NoEmt) /\ u.hasty = r.hasty
      /\ u.kind = r.kind /\ u.open = r.open /\ u.log = r.log
  BY TakenFields
<1> HIDE DEF u
<1>2. "request" \in Callbacks
  BY DEF Callbacks
<1>3. /\ v \in HConnection /\ v.asked = r.asked + 1 /\ v.emt = r.emt /\ v.got = r.got
      /\ v.piped = (r.piped \/ r.emt # NoEmt) /\ v.hasty = r.hasty
      /\ v.kind = r.kind /\ v.open = r.open /\ v.log = Append(r.log, "request")
  BY <1>1, <1>2, LoggedFields DEF SameAnswers
<1>4. r.asked + 1 \in Nat /\ r.asked + 1 # 0 /\ r.got \in Seq(Answers)
  BY DEF HConnection
<1>5. /\ <<"whole", r.asked + 1>> \in Answers /\ <<"begin", r.asked + 1>> \in Answers
  BY <1>4 DEF Answers
<1>6. /\ Append(r.got, <<"whole", r.asked + 1>>) \in Seq(Answers)
      /\ Append(r.got, <<"begin", r.asked + 1>>) \in Seq(Answers)
  BY <1>4, <1>5, AppendFacts
<1> HIDE DEF v
<1>7. CASE q = Answered(r)
  <2>1. q = [v EXCEPT !.got = Append(@, <<"whole", r.asked + 1>>)]
    BY <1>7 DEF Answered, u, v
  <2>2. QED
    BY <1>3, <1>6, <2>1 DEF HConnection
<1>8. CASE q = Waiting(r, w, c)
  <2> DEFINE e == [w |-> w, c |-> c, req |-> r.asked + 1]
  <2>1. q = [v EXCEPT !.got = Append(@, <<"begin", r.asked + 1>>), !.emt = e]
    BY <1>8 DEF Waiting, u, v
  <2>2. e \in Emitters /\ e # NoEmt /\ e.req = r.asked + 1
    BY <1>4 DEF Emitters, NoEmt
  <2> HIDE DEF e
  <2>3. QED
    BY <1>3, <1>6, <2>1, <2>2 DEF HConnection
<1>9. QED
  BY <1>7, <1>8

-----------------------------------------------------------------------------
(* The steps of the server.                                                *)

LEMMA HttpInitInv == HttpInit => HttpInv
<1> SUFFICES ASSUME HttpInit PROVE HttpInv
  OBVIOUS
<1> USE DEF HttpInit
<1>1. NewCon \in HConnection
  BY DEF NewCon, HConnection, HKinds, NoEmt, Emitters
<1>2. HttpTypeOK
  BY <1>1 DEF HttpTypeOK
<1>3. OneReader /\ ReadersAlive
  BY DEF OneReader, ReadersAlive, NewCon
<1>4. ASSUME NEW c \in HConns PROVE LogShape(hc[c]) /\ AnswerShape(hc[c], ~Quiet(c))
  <2>1. hc[c].log = <<>> /\ hc[c].kind = "new" /\ hc[c].got = <<>> /\ hc[c].emt = NoEmt
        /\ hc[c].asked = 0
    BY DEF NewCon
  <2>2. SplitAt(hc[c], 0) /\ 0 \in 0 .. Len(hc[c].log)
    BY <2>1 DEF SplitAt
  <2>3. AnswerShape(hc[c], ~Quiet(c))
    BY <2>1 DEF AnswerShape, Begun, LastNo, Whole, Numbered
  <2>4. QED
    BY <2>2, <2>3 DEF LogShape
<1>5. QED
  BY <1>2, <1>3, <1>4 DEF HttpInv

\* What the invariant says of one connection.
LEMMA OfConnection ==
    ASSUME HttpInv, NEW c \in HConns
    PROVE  /\ hc[c] \in HConnection /\ LogShape(hc[c]) /\ AnswerShape(hc[c], ~Quiet(c))
           /\ hc[c].kind = "freed" => ~hc[c].open
           /\ hc[c].kind \in {"new", "freed"} => Quiet(c)
           /\ (~Quiet(c)) \in BOOLEAN
<1>1. hc[c].kind \in {"new", "freed"} => Quiet(c)
  BY HttpServerAssumption DEF HttpInv, ReadersAlive, Quiet
<1>2. (~Quiet(c)) \in BOOLEAN
  BY DEF Quiet
<1>3. QED
  BY <1>1, <1>2 DEF HttpInv, HttpTypeOK, ReadersAlive

\* What the invariant says of a reader's connection.
LEMMA OfReader ==
    ASSUME HttpInv, NEW w \in HWorkers, at[w] # NoCon
    PROVE  /\ at[w] \in HConns /\ ~Quiet(at[w]) /\ hc[at[w]] \in HConnection
           /\ LogShape(hc[at[w]]) /\ AnswerShape(hc[at[w]], TRUE)
           /\ hc[at[w]].kind \notin {"new", "freed"}
<1>1. at[w] \in HConns /\ ~Quiet(at[w])
  BY DEF HttpInv, HttpTypeOK, Quiet
<1>2. (~Quiet(at[w])) = TRUE
  BY <1>1 DEF Quiet
<1>3. QED
  BY <1>1, <1>2 DEF HttpInv, HttpTypeOK, ReadersAlive

\* A step that calls no callback, asks nothing and sends nothing.
LEMMA QuietStep ==
    ASSUME HttpInv, NEW c \in HConns, NEW q \in HConnection, Con(c, q), UNCHANGED at,
           q.log = hc[c].log, SameAnswers(hc[c], q), hc[c].hasty => q.hasty,
           \/ q.kind = hc[c].kind
           \/ hc[c].kind \notin {"WS", "freed"} /\ q.kind \notin {"new", "WS", "freed"},
           q.open => hc[c].open
    PROVE  HttpInv'
<1>1. /\ hc[c] \in HConnection /\ LogShape(hc[c]) /\ AnswerShape(hc[c], ~Quiet(c))
      /\ hc[c].kind = "freed" => ~hc[c].open
      /\ hc[c].kind \in {"new", "freed"} => Quiet(c)
      /\ (~Quiet(c)) \in BOOLEAN
  BY OfConnection
<1>2. LogShape(q)
  BY <1>1, LogSame
<1>3. AnswerShape(q, ~Quiet(c))
  BY <1>1, AnswerSame DEF SameAnswers
<1>4. QED
  BY <1>1, <1>2, <1>3, ConStep

\* The same when the reader leaves.
LEMMA QuietLeave ==
    ASSUME HttpInv, NEW w \in HWorkers, at[w] # NoCon, NEW q \in HConnection, Con(at[w], q), Leave(w),
           q.log = hc[at[w]].log, SameAnswers(hc[at[w]], q), hc[at[w]].hasty => q.hasty,
           q.kind = hc[at[w]].kind
    PROVE  HttpInv'
<1> DEFINE c == at[w]
<1>1. /\ c \in HConns /\ hc[c] \in HConnection
      /\ LogShape(hc[c]) /\ AnswerShape(hc[c], TRUE)
      /\ hc[c].kind \notin {"new", "freed"}
  BY OfReader
<1>2. LogShape(q)
  BY <1>1, LogSame
<1>3. AnswerShape(q, FALSE)
  BY <1>1, AnswerSame DEF SameAnswers
<1>4. QED
  BY <1>1, <1>2, <1>3, LeaveStep

LEMMA ClientSendInv ==
    ASSUME HttpInv, NEW c \in HConns, ClientSend(c)
    PROVE  HttpInv'
<1>1. hc[c] \in HConnection
  BY OfConnection
<1> DEFINE q == [hc[c] EXCEPT !.sent = @ + 1, !.inbox = @ + 1]
<1>2. hc[c].sent + 1 \in Nat /\ hc[c].inbox + 1 \in Nat
  BY <1>1 DEF HConnection
<1>3. /\ q \in HConnection /\ q.log = hc[c].log /\ SameAnswers(hc[c], q) /\ q.hasty = hc[c].hasty
      /\ q.kind = hc[c].kind /\ q.open = hc[c].open
  BY <1>1, <1>2 DEF HConnection, SameAnswers
<1>4. Con(c, q) /\ UNCHANGED at
  BY DEF ClientSend
<1> HIDE DEF q
<1>5. QED
  BY <1>1, <1>3, <1>4, QuietStep

LEMMA SockConnectedInv ==
    ASSUME HttpInv, NEW c \in HConns, SockConnected(c)
    PROVE  HttpInv'
<1>1. hc[c] \in HConnection
  BY OfConnection
<1> DEFINE q == [hc[c] EXCEPT !.kind = "H1"]
<1>2. /\ q \in HConnection /\ q.log = hc[c].log /\ SameAnswers(hc[c], q) /\ q.hasty = hc[c].hasty
      /\ q.kind = "H1" /\ q.open = hc[c].open
  BY <1>1 DEF HConnection, SameAnswers, HKinds
<1>3. Con(c, q) /\ UNCHANGED at /\ hc[c].kind = "new"
  BY DEF SockConnected
<1> HIDE DEF q
<1>4. QED
  BY <1>1, <1>2, <1>3, QuietStep

\* A reader comes to a connection nobody reads.
LEMMA CanReadBeginInv ==
    ASSUME HttpInv, NEW w \in HWorkers, NEW c \in HConns, CanReadBegin(w, c)
    PROVE  HttpInv'
<1> USE DEF HttpInv, CanReadBegin
<1>0. c # NoCon
  BY HttpServerAssumption
<1>1. /\ hc' = hc /\ at' \in [HWorkers -> HConns \cup {NoCon}] /\ at'[w] = c
      /\ \A v \in HWorkers : v # w => at'[v] = at[v]
  BY DEF HttpTypeOK
<1>2. HttpTypeOK'
  BY <1>1 DEF HttpTypeOK
<1>3. OneReader'
  BY <1>1 DEF OneReader, Quiet
<1>4. hc[c].kind \notin {"new", "freed"}
  BY DEF ReadersAlive
<1>5. ReadersAlive'
  BY <1>1, <1>4 DEF ReadersAlive
<1>6. (\A d \in HConns : LogShape(hc[d]))'
  BY <1>1 DEF LogShape, SplitAt
<1>7. ASSUME NEW d \in HConns PROVE AnswerShape(hc[d], ~Quiet(d))'
  <2>1. hc[d].open \/ ~Quiet(d)' => hc[d].open \/ ~Quiet(d)
    BY <1>1 DEF Quiet
  <2>2. QED
    BY <1>1, <2>1 DEF AnswerShape, InOrder, Begun
<1>8. QED
  BY <1>2, <1>3, <1>5, <1>6, <1>7

LEMMA ReadOnInv ==
    ASSUME HttpInv, NEW w \in HWorkers, ReadOn(w)
    PROVE  HttpInv'
<1> DEFINE c == at[w]
           r == hc[c]
<1>1. c # NoCon /\ Leave(w) /\ (Con(c, Read(r)) \/ Con(c, Closed(Read(r))))
  BY DEF ReadOn
<1>2. r \in HConnection
  BY <1>1, OfReader
<1>3. /\ Read(r) \in HConnection /\ SameAnswers(r, Read(r)) /\ Read(r).hasty = r.hasty
      /\ Read(r).kind = r.kind /\ Read(r).log = r.log
  BY <1>2, ReadFields
<1>4. /\ Closed(Read(r)) \in HConnection /\ SameAnswers(r, Closed(Read(r)))
      /\ Closed(Read(r)).hasty = r.hasty
      /\ Closed(Read(r)).kind = r.kind /\ Closed(Read(r)).log = r.log
  BY <1>3, ClosedFields DEF SameAnswers
<1>5. QED
  BY <1>1, <1>3, <1>4, QuietLeave

LEMMA SockCloseInv ==
    ASSUME HttpInv, NEW c \in HConns, SockClose(c)
    PROVE  HttpInv'
<1> DEFINE r == hc[c]
           h == [r EXCEPT !.hasty = @ \/ r.emt # NoEmt]
<1>1. r \in HConnection
  BY OfConnection
<1>2. (r.hasty \/ r.emt # NoEmt) \in BOOLEAN
  OBVIOUS
<1>3. /\ h \in HConnection /\ SameAnswers(r, h) /\ h.hasty = (r.hasty \/ r.emt # NoEmt)
      /\ h.kind = r.kind /\ h.log = r.log
  BY <1>1, <1>2, HastyFields
<1>4. Con(c, Closed(h)) /\ UNCHANGED at
  BY DEF SockClose
<1> HIDE DEF h
<1>5. /\ Closed(h) \in HConnection /\ SameAnswers(r, Closed(h)) /\ Closed(h).hasty = h.hasty
      /\ Closed(h).kind = r.kind /\ ~Closed(h).open /\ Closed(h).log = r.log
  BY <1>3, ClosedFields DEF SameAnswers
<1>6. QED
  BY <1>1, <1>3, <1>4, <1>5, QuietStep

\* The last callback, when a WebSocket connection is unregistered.
LEMMA HttpSockClosedInv ==
    ASSUME HttpInv, NEW c \in HConns, HttpSockClosed(c)
    PROVE  HttpInv'
<1> DEFINE r == hc[c]
           f == [r EXCEPT !.kind = "freed", !.emt = NoEmt]
<1>1. r \in HConnection /\ LogShape(r) /\ AnswerShape(r, ~Quiet(c)) /\ (~Quiet(c)) \in BOOLEAN
  BY OfConnection
<1>2. /\ Quiet(c) /\ ~r.open /\ r.kind \in {"H1", "WS", "null"} /\ UNCHANGED at
      /\ Con(c, IF r.kind = "WS" THEN Logged(f, "ws_close") ELSE f)
  BY DEF HttpSockClosed
<1>3. /\ f \in HConnection /\ f.got = r.got /\ f.emt = NoEmt /\ f.piped = r.piped
      /\ f.hasty = r.hasty /\ f.kind = "freed" /\ f.open = r.open /\ f.log = r.log
  BY <1>1 DEF HConnection, HKinds, Emitters, NoEmt
<1> HIDE DEF f
<1>4. (~Quiet(c)) = FALSE
  BY <1>2 DEF Quiet
<1>5. CASE r.kind = "WS"
  <2> DEFINE q == Logged(f, "ws_close")
  <2>1. "ws_close" \in Callbacks
    BY DEF Callbacks
  <2>2. /\ q \in HConnection /\ q.got = r.got /\ q.emt = NoEmt /\ q.piped = r.piped
        /\ q.hasty = r.hasty /\ q.kind = "freed" /\ q.open = r.open
        /\ q.log = Append(r.log, "ws_close")
    BY <1>3, <2>1, LoggedFields DEF SameAnswers
  <2> HIDE DEF q
  <2>3. LogShape(q)
    BY <1>1, <1>5, <2>2, LogWs
  <2>4. AnswerShape(q, FALSE)
    BY <1>1, <1>2, <2>2, AnswerFreed
  <2>5. Con(c, q)
    BY <1>2, <1>5 DEF q
  <2>6. QED
    BY <1>2, <1>4, <2>2, <2>3, <2>4, <2>5, ConStep
<1>6. CASE r.kind # "WS"
  <2>1. LogShape(f)
    BY <1>1, <1>2, <1>3, <1>6, LogSame
  <2>2. AnswerShape(f, FALSE)
    BY <1>1, <1>2, <1>3, AnswerFreed
  <2>3. Con(c, f)
    BY <1>2, <1>6
  <2>4. QED
    BY <1>2, <1>3, <1>4, <2>1, <2>2, <2>3, ConStep
<1>7. QED
  BY <1>5, <1>6

\* A reader finds its connection closed.
LEMMA ReadClosedInv ==
    ASSUME HttpInv, NEW w \in HWorkers, ReadClosed(w)
    PROVE  HttpInv'
<1> DEFINE c == at[w]
<1>1. c # NoCon /\ Leave(w) /\ UNCHANGED hc
  BY DEF ReadClosed
<1>2. c \in HConns /\ hc[c] \in HConnection
  BY <1>1, OfReader
<1>3. Con(c, hc[c])
  <2>1. hc = [hc EXCEPT ![c] = hc[c]]
    BY <1>2 DEF HttpInv, HttpTypeOK
  <2>2. QED
    BY <1>1, <2>1 DEF Con
<1>4. SameAnswers(hc[c], hc[c])
  BY DEF SameAnswers
<1>5. QED
  BY <1>1, <1>2, <1>3, <1>4, QuietLeave

\* A message of a WebSocket connection, or what ends it.
LEMMA WsTurnInv ==
    ASSUME HttpInv, NEW w \in HWorkers, WsTurn(w)
    PROVE  HttpInv'
<1> DEFINE c == at[w]
           o == hc[c]
           r == Read(o)
           m == [r EXCEPT !.rbuf = @ - 1]
<1>1. /\ c # NoCon /\ o.kind = "WS"
      /\ \/ r.rbuf > 0 /\ Con(c, Logged(m, "ws_message")) /\ UNCHANGED at
         \/ Con(c, Closed(r)) /\ Leave(w)
  BY DEF WsTurn
<1>2. /\ c \in HConns /\ o \in HConnection /\ LogShape(o) /\ AnswerShape(o, TRUE) /\ ~Quiet(c)
  BY <1>1, OfReader
<1>3. /\ r \in HConnection /\ SameAnswers(o, r) /\ r.hasty = o.hasty
      /\ r.kind = o.kind /\ r.open = o.open /\ r.log = o.log
  BY <1>2, ReadFields
<1> HIDE DEF r
<1>4. CASE Con(c, Closed(r)) /\ Leave(w)
  <2>1. /\ Closed(r) \in HConnection /\ SameAnswers(o, Closed(r)) /\ Closed(r).hasty = o.hasty
        /\ Closed(r).kind = o.kind /\ Closed(r).log = o.log
    BY <1>3, ClosedFields DEF SameAnswers
  <2>2. QED
    BY <1>1, <1>4, <2>1, QuietLeave
<1>5. CASE r.rbuf > 0 /\ Con(c, Logged(m, "ws_message")) /\ UNCHANGED at
  <2>1. r.rbuf - 1 \in Nat
    BY <1>3, <1>5 DEF HConnection
  <2>2. /\ m \in HConnection /\ SameAnswers(o, m) /\ m.hasty = o.hasty
        /\ m.kind = o.kind /\ m.open = o.open /\ m.log = o.log
    BY <1>3, <2>1 DEF HConnection, SameAnswers
  <2> HIDE DEF m
  <2> DEFINE q == Logged(m, "ws_message")
  <2>3. "ws_message" \in Callbacks
    BY DEF Callbacks
  <2>4. /\ q \in HConnection /\ SameAnswers(o, q) /\ q.hasty = o.hasty
        /\ q.kind = o.kind /\ q.open = o.open /\ q.log = Append(o.log, "ws_message")
    BY <2>2, <2>3, LoggedFields DEF SameAnswers
  <2>5. Con(c, q)
    BY <1>5
  <2> HIDE DEF q, o, c
  <2>6. LogShape(q)
    BY <1>1, <1>2, <2>4, LogWs
  <2>7. AnswerShape(q, TRUE)
    BY <1>2, <2>4, AnswerSame DEF SameAnswers
  <2>8. (~Quiet(c)) = TRUE
    BY <1>2 DEF Quiet
  <2>9. QED
    BY <1>1, <1>2, <1>5, <2>4, <2>5, <2>6, <2>7, <2>8, ConStep
<1>6. QED
  BY <1>1, <1>4, <1>5

\* What a request that is answered leaves, for every way the action ends: z is the
\* outcome with another kind, closed or not, with or without its emitter.
LEMMA AfterAnswer ==
    ASSUME NEW r \in HConnection, NEW q \in HConnection, NEW z \in HConnection, NEW d \in BOOLEAN,
           AnswerShape(r, TRUE), r.kind # "freed", z.kind # "freed", q.asked = r.asked + 1,
           q.piped = (r.piped \/ r.emt # NoEmt), q.hasty = r.hasty,
           \/ q.got = Append(r.got, <<"whole", r.asked + 1>>) /\ q.emt = r.emt
           \/ /\ q.got = Append(r.got, <<"begin", r.asked + 1>>)
              /\ q.emt # NoEmt /\ q.emt.req = r.asked + 1,
           z.asked = q.asked, z.got = q.got, z.piped = q.piped,
           \/ z.hasty = q.hasty /\ z.emt = q.emt
           \/ z.hasty = (q.hasty \/ q.emt # NoEmt) /\ z.emt \in {q.emt, NoEmt}
    PROVE  AnswerShape(z, d)
<1>1. r.asked + 1 \in Nat /\ r.asked \in Nat
  BY DEF HConnection
<1>a. /\ r.emt # NoEmt => z.piped
      /\ r.piped => z.piped
      /\ r.hasty => z.hasty
      /\ z.asked = r.asked + 1
  BY Zenon
<1>2. CASE q.got = Append(r.got, <<"whole", r.asked + 1>>) /\ q.emt = r.emt
  <2>1. PICK x : x = <<"whole", r.asked + 1>>
    OBVIOUS
  <2>2. x \in Answers /\ x[1] = "whole" /\ x[2] = r.asked + 1 /\ z.got = Append(r.got, x)
    BY <1>1, <1>2, <2>1 DEF Answers
  <2>3. z.emt \in {NoEmt, r.emt}
    BY <1>2
  <2>4. QED
    BY <1>a, <2>2, <2>3, AnswerBegins, ZenonT(60)
<1>3. CASE /\ q.got = Append(r.got, <<"begin", r.asked + 1>>)
           /\ q.emt # NoEmt /\ q.emt.req = r.asked + 1
  <2>1. PICK x : x = <<"begin", r.asked + 1>>
    OBVIOUS
  <2>2. x \in Answers /\ x[1] = "begin" /\ x[2] = r.asked + 1 /\ z.got = Append(r.got, x)
    BY <1>1, <1>3, <2>1 DEF Answers
  <2>3. z.hasty \/ (z.emt # NoEmt /\ z.emt.req = x[2])
    BY <1>3, <2>2
  <2>4. /\ x[1] \in {"whole", "begin"}
        /\ x[1] = "whole" => z.emt \in {NoEmt, r.emt}
        /\ x[1] = "begin" => z.hasty \/ (z.emt # NoEmt /\ z.emt.req = x[2])
        /\ r.emt # NoEmt => z.piped \/ z.hasty
    BY <1>a, <2>2, <2>3
  <2>5. QED
    BY <1>a, <2>2, <2>4, AnswerBegins, Zenon
<1>4. QED
  BY <1>2, <1>3

\* The connection a request is read from, and the outcome of its answer.
LEMMA OfRequest ==
    ASSUME HttpInv, NEW w \in HWorkers, Ready(w), NEW q \in Outcomes(w, at[w])
    PROVE  LET r == hc[at[w]]
           IN  /\ at[w] \in HConns /\ at[w] # NoCon /\ ~Quiet(at[w]) /\ r \in HConnection
               /\ LogShape(r) /\ AnswerShape(r, TRUE) /\ r.kind = "H1"
               /\ q \in HConnection /\ q.asked = r.asked + 1
               /\ q.piped = (r.piped \/ r.emt # NoEmt) /\ q.hasty = r.hasty
               /\ q.kind = "H1" /\ q.open = r.open /\ q.log = Append(r.log, "request")
               /\ \/ q.got = Append(r.got, <<"whole", r.asked + 1>>) /\ q.emt = r.emt
                  \/ /\ q.got = Append(r.got, <<"begin", r.asked + 1>>)
                     /\ q.emt # NoEmt /\ q.emt.req = r.asked + 1
<1> DEFINE c == at[w]
           r == hc[c]
<1>1. c # NoCon /\ r.kind = "H1" /\ Read(r).rbuf > 0
  BY DEF Ready
<1>2. /\ c \in HConns /\ ~Quiet(c) /\ r \in HConnection /\ LogShape(r) /\ AnswerShape(r, TRUE)
  BY <1>1, OfReader
<1>3. q = Answered(r) \/ q = Waiting(r, w, c)
  BY DEF Outcomes
<1>a. w \in HWorkers /\ c \in HConns /\ r \in HConnection /\ Read(r).rbuf > 0
  BY <1>1, <1>2
<1> HIDE DEF r, c
<1>4. /\ q \in HConnection /\ q.asked = r.asked + 1
      /\ q.piped = (r.piped \/ r.emt # NoEmt) /\ q.hasty = r.hasty
      /\ q.kind = r.kind /\ q.open = r.open /\ q.log = Append(r.log, "request")
      /\ \/ q.got = Append(r.got, <<"whole", r.asked + 1>>) /\ q.emt = r.emt
         \/ /\ q.got = Append(r.got, <<"begin", r.asked + 1>>)
            /\ q.emt # NoEmt /\ q.emt.req = r.asked + 1
  <2>1. CASE q = Answered(r)
    BY <1>a, <2>1, OutcomeFields, SMT
  <2>2. CASE q = Waiting(r, w, c)
    BY <1>a, <2>2, OutcomeFields, SMT
  <2>3. QED
    BY <1>3, <2>1, <2>2, Zenon
<1>5. QED
  BY <1>1, <1>2, <1>4 DEF r, c

LEMMA RequestKeepInv ==
    ASSUME HttpInv, NEW w \in HWorkers, RequestKeep(w)
    PROVE  HttpInv'
<1> DEFINE c == at[w]
           r == hc[c]
<1>1. PICK q \in Outcomes(w, c) : Con(c, q)
  BY DEF RequestKeep
<1>2. Ready(w) /\ UNCHANGED at
  BY DEF RequestKeep
<1>3. /\ c \in HConns /\ ~Quiet(c) /\ r \in HConnection
      /\ LogShape(r) /\ AnswerShape(r, TRUE) /\ r.kind = "H1"
      /\ q \in HConnection /\ q.asked = r.asked + 1
      /\ q.piped = (r.piped \/ r.emt # NoEmt) /\ q.hasty = r.hasty
      /\ q.kind = "H1" /\ q.open = r.open /\ q.log = Append(r.log, "request")
      /\ \/ q.got = Append(r.got, <<"whole", r.asked + 1>>) /\ q.emt = r.emt
         \/ /\ q.got = Append(r.got, <<"begin", r.asked + 1>>)
            /\ q.emt # NoEmt /\ q.emt.req = r.asked + 1
  BY <1>1, <1>2, OfRequest
<1> HIDE DEF c, r
<1>4. LogShape(q)
  BY <1>3, LogRequest
<1>5. AnswerShape(q, TRUE)
  BY <1>3, AfterAnswer
<1>6. (~Quiet(c)) = TRUE
  BY <1>3 DEF Quiet
<1>7. QED
  BY <1>1, <1>2, <1>3, <1>4, <1>5, <1>6, ConStep

LEMMA RequestCloseInv ==
    ASSUME HttpInv, NEW w \in HWorkers, RequestClose(w)
    PROVE  HttpInv'
<1> DEFINE c == at[w]
           r == hc[c]
           none == Logged(TakenReq(r), "request")
<1>1. PICK q \in Outcomes(w, c) \cup {none} :
        Con(c, [Closed(q) EXCEPT !.hasty = @ \/ q.emt # NoEmt])
  BY DEF RequestClose
<1>2. Ready(w) /\ Leave(w)
  BY DEF RequestClose
<1> DEFINE z == [Closed(q) EXCEPT !.hasty = @ \/ q.emt # NoEmt]
<1>3. ASSUME q \in HConnection
      PROVE  /\ z \in HConnection /\ SameAnswers(q, z) /\ z.hasty = (q.hasty \/ q.emt # NoEmt)
             /\ z.kind = q.kind /\ ~z.open /\ z.log = q.log
  <2> DEFINE u == Closed(q)
  <2>1. /\ u \in HConnection /\ SameAnswers(q, u) /\ u.hasty = q.hasty
        /\ u.kind = q.kind /\ ~u.open /\ u.log = q.log
    BY <1>3, ClosedFields
  <2>2. z = [u EXCEPT !.hasty = (u.hasty \/ q.emt # NoEmt)]
    OBVIOUS
  <2>3. (u.hasty \/ q.emt # NoEmt) \in BOOLEAN
    OBVIOUS
  <2> HIDE DEF u, z
  <2>4. QED
    BY <2>1, <2>2, <2>3, HastyFields, ZenonT(60) DEF SameAnswers
<1>4. CASE q \in Outcomes(w, c)
  <2>1. /\ c \in HConns /\ c # NoCon /\ r \in HConnection
        /\ LogShape(r) /\ AnswerShape(r, TRUE) /\ r.kind = "H1"
        /\ q \in HConnection /\ q.asked = r.asked + 1
        /\ q.piped = (r.piped \/ r.emt # NoEmt) /\ q.hasty = r.hasty
        /\ q.kind = "H1" /\ q.open = r.open /\ q.log = Append(r.log, "request")
        /\ \/ q.got = Append(r.got, <<"whole", r.asked + 1>>) /\ q.emt = r.emt
           \/ /\ q.got = Append(r.got, <<"begin", r.asked + 1>>)
              /\ q.emt # NoEmt /\ q.emt.req = r.asked + 1
    BY <1>2, <1>4, OfRequest
  <2>2. /\ z \in HConnection /\ SameAnswers(q, z) /\ z.hasty = (q.hasty \/ q.emt # NoEmt)
        /\ z.kind = q.kind /\ ~z.open /\ z.log = q.log
    BY <1>3, <2>1
  <2>3. Con(c, z) /\ at[w] = c
    BY <1>1
  <2> HIDE DEF c, r, z
  <2>4. LogShape(z)
    BY <2>1, <2>2, LogRequest
  <2>5. AnswerShape(z, FALSE)
    BY <2>1, <2>2, AfterAnswer DEF SameAnswers
  <2>6. QED
    BY <1>2, <2>1, <2>2, <2>3, <2>4, <2>5, LeaveStep
<1>5. CASE q = none
  <2>1. c # NoCon /\ r.kind = "H1" /\ Read(r).rbuf > 0
    BY <1>2 DEF Ready
  <2>2. /\ c \in HConns /\ r \in HConnection /\ LogShape(r) /\ AnswerShape(r, TRUE)
    BY <2>1, OfReader
  <2> DEFINE u == TakenReq(r)
  <2>3. /\ u \in HConnection /\ u.emt = r.emt /\ u.got = r.got
        /\ u.piped = (r.piped \/ r.emt # NoEmt) /\ u.hasty = r.hasty
        /\ u.kind = r.kind /\ u.log = r.log
    BY <2>1, <2>2, TakenFields
  <2>4. "request" \in Callbacks
    BY DEF Callbacks
  <2> HIDE DEF u
  <2>5. /\ q \in HConnection /\ q.emt = r.emt /\ q.got = r.got
        /\ q.piped = (r.piped \/ r.emt # NoEmt) /\ q.hasty = r.hasty
        /\ q.kind = r.kind /\ q.log = Append(r.log, "request")
    BY <1>5, <2>3, <2>4, LoggedFields, SMTT(60) DEF SameAnswers, u
  <2>6. /\ z \in HConnection /\ SameAnswers(q, z) /\ z.hasty = (q.hasty \/ q.emt # NoEmt)
        /\ z.kind = q.kind /\ ~z.open /\ z.log = q.log
    BY <1>3, <2>5
  <2>7. Con(c, z) /\ at[w] = c
    BY <1>1
  <2> HIDE DEF c, r, z, none
  <2>8. LogShape(z)
    BY <2>1, <2>2, <2>5, <2>6, LogRequest
  <2>9. AnswerShape(z, FALSE)
    BY <2>1, <2>2, <2>5, <2>6, AnswerNone DEF SameAnswers
  <2>10. QED
    BY <1>2, <2>1, <2>2, <2>5, <2>6, <2>7, <2>8, <2>9, LeaveStep
<1>6. QED
  BY <1>4, <1>5

LEMMA RequestUpgradeInv ==
    ASSUME HttpInv, NEW w \in HWorkers, RequestUpgrade(w)
    PROVE  HttpInv'
<1> DEFINE c == at[w]
           r == hc[c]
           free(q) == [q EXCEPT !.rbuf = 0, !.emt = NoEmt, !.hasty = @ \/ q.emt # NoEmt]
           up(q) == [free(q) EXCEPT !.kind = "WS"]
           null(q) == [free(q) EXCEPT !.kind = "null"]
<1>1. PICK q \in Outcomes(w, c) : Con(c, Logged(up(q), "ws_connect")) \/ Con(c, Closed(null(q)))
  BY DEF RequestUpgrade
<1>2. Ready(w) /\ Leave(w)
  BY DEF RequestUpgrade
<1>3. /\ c \in HConns /\ c # NoCon /\ r \in HConnection
      /\ LogShape(r) /\ AnswerShape(r, TRUE) /\ r.kind = "H1"
      /\ q \in HConnection /\ q.asked = r.asked + 1
      /\ q.piped = (r.piped \/ r.emt # NoEmt) /\ q.hasty = r.hasty
      /\ q.kind = "H1" /\ q.open = r.open /\ q.log = Append(r.log, "request")
      /\ \/ q.got = Append(r.got, <<"whole", r.asked + 1>>) /\ q.emt = r.emt
         \/ /\ q.got = Append(r.got, <<"begin", r.asked + 1>>)
            /\ q.emt # NoEmt /\ q.emt.req = r.asked + 1
  BY <1>1, <1>2, OfRequest
<1>4. at[w] = c
  OBVIOUS
<1> HIDE DEF c, r
<1> DEFINE f == free(q)
<1>5. /\ f \in HConnection /\ f.asked = q.asked /\ f.emt = NoEmt /\ f.got = q.got
      /\ f.piped = q.piped /\ f.hasty = (q.hasty \/ q.emt # NoEmt) /\ f.log = q.log
  <2>1. (q.hasty \/ q.emt # NoEmt) \in BOOLEAN /\ NoEmt \in Emitters
    BY DEF NoEmt, Emitters
  <2>2. QED
    BY <1>3, <2>1 DEF HConnection
<1>6. CASE Con(c, Logged(up(q), "ws_connect"))
  <2> DEFINE u == [f EXCEPT !.kind = "WS"]
             z == Logged(u, "ws_connect")
  <2>1. Con(c, z)
    BY <1>6
  <2> HIDE DEF f
  <2>2. /\ u \in HConnection /\ SameAnswers(f, u) /\ u.hasty = f.hasty /\ u.kind = "WS"
        /\ u.log = f.log
    BY <1>5 DEF HConnection, HKinds, SameAnswers
  <2>3. "ws_connect" \in Callbacks
    BY DEF Callbacks
  <2> HIDE DEF u
  <2>4. /\ z \in HConnection /\ SameAnswers(f, z) /\ z.hasty = f.hasty /\ z.kind = "WS"
        /\ z.log = Append(f.log, "ws_connect")
    BY <2>2, <2>3, LoggedFields DEF SameAnswers
  <2> HIDE DEF z
  <2>5. LogShape(z)
    BY <1>3, <1>5, <2>4, LogUpgrade
  <2>6. z.asked = q.asked /\ z.got = q.got /\ z.piped = q.piped /\ z.emt = NoEmt
    BY <1>5, <2>4 DEF SameAnswers
  <2>7. z.hasty = (q.hasty \/ q.emt # NoEmt)
    BY <1>5, <2>4
  <2>8. AnswerShape(z, FALSE)
    BY <1>3, <2>4, <2>6, <2>7, AfterAnswer
  <2>9. QED
    BY <1>2, <1>3, <1>4, <2>1, <2>4, <2>5, <2>8, LeaveStep
<1>7. CASE Con(c, Closed(null(q)))
  <2> DEFINE u == [f EXCEPT !.kind = "null"]
             z == Closed(u)
  <2>1. Con(c, z)
    BY <1>7
  <2> HIDE DEF f
  <2>2. /\ u \in HConnection /\ SameAnswers(f, u) /\ u.hasty = f.hasty /\ u.kind = "null"
        /\ u.log = f.log
    BY <1>5 DEF HConnection, HKinds, SameAnswers
  <2> HIDE DEF u
  <2>3. /\ z \in HConnection /\ SameAnswers(f, z) /\ z.hasty = f.hasty /\ z.kind = "null"
        /\ z.log = f.log
    BY <2>2, ClosedFields DEF SameAnswers
  <2> HIDE DEF z
  <2>4. LogShape(z)
    BY <1>3, <1>5, <2>3, LogRequest
  <2>5. z.asked = q.asked /\ z.got = q.got /\ z.piped = q.piped /\ z.emt = NoEmt
    BY <1>5, <2>3 DEF SameAnswers
  <2>6. z.hasty = (q.hasty \/ q.emt # NoEmt)
    BY <1>5, <2>3
  <2>7. AnswerShape(z, FALSE)
    BY <1>3, <2>3, <2>5, <2>6, AfterAnswer
  <2>8. QED
    BY <1>2, <1>3, <1>4, <2>1, <2>3, <2>4, <2>7, LeaveStep
<1>8. QED
  BY <1>1, <1>6, <1>7

\* The rest of an answer, or the error that cuts it off.
LEMMA SockCanWriteInv ==
    ASSUME HttpInv, NEW c \in HConns, SockCanWrite(c)
    PROVE  HttpInv'
<1> DEFINE r == hc[c]
           x == Rest(c)
           b == ~Quiet(c)
<1>1. /\ r \in HConnection /\ LogShape(r) /\ AnswerShape(r, b) /\ b \in BOOLEAN
  BY OfConnection
<1>2. /\ r.kind = "H1" /\ r.emt # NoEmt /\ UNCHANGED at
      /\ \/ Con(c, [r EXCEPT !.got = Append(@, x), !.emt = NoEmt])
         \/ Con(c, Closed([r EXCEPT !.emt = NoEmt, !.hasty = TRUE]))
  BY DEF SockCanWrite
<1>3. r.emt.req \in Nat /\ NoEmt \in Emitters /\ r.got \in Seq(Answers)
  BY <1>1 DEF HConnection, Emitters, NoEmt
<1>4. x \in Answers /\ (x = <<"end", r.emt.req>> \/ x[1] = "other")
  <2>1. x = <<"end", r.emt.req>> \/ x = <<"other", 0>>
    BY DEF Rest
  <2>2. <<"end", r.emt.req>> \in Answers /\ <<"other", 0>> \in Answers /\ <<"other", 0>>[1] = "other"
    BY <1>3 DEF Answers
  <2> HIDE DEF x
  <2>3. QED
    BY <2>1, <2>2
<1> HIDE DEF r, x, b
<1>5. CASE Con(c, [r EXCEPT !.got = Append(@, x), !.emt = NoEmt])
  <2> DEFINE q == [r EXCEPT !.got = Append(@, x), !.emt = NoEmt]
  <2>1. Append(r.got, x) \in Seq(Answers)
    BY <1>3, <1>4, AppendFacts
  <2>2. /\ q \in HConnection /\ q.got = Append(r.got, x) /\ q.emt = NoEmt /\ q.asked = r.asked
        /\ q.open = r.open /\ q.piped = r.piped /\ q.hasty = r.hasty /\ q.kind = r.kind
        /\ q.log = r.log
    BY <1>1, <1>3, <2>1 DEF HConnection
  <2>3. Con(c, q)
    BY <1>5
  <2> HIDE DEF q
  <2>4. LogShape(q)
    BY <1>1, <2>2, LogSame
  <2>5. AnswerShape(q, b)
    BY <1>1, <1>2, <1>4, <2>2, AnswerEnds
  <2>6. QED
    BY <1>2, <2>2, <2>3, <2>4, <2>5, ConStep DEF b
<1>6. CASE Con(c, Closed([r EXCEPT !.emt = NoEmt, !.hasty = TRUE]))
  <2> DEFINE u == [r EXCEPT !.emt = NoEmt, !.hasty = TRUE]
             q == Closed(u)
  <2>1. u \in HConnection /\ u.hasty /\ u.kind = r.kind /\ u.log = r.log
    BY <1>1, <1>3 DEF HConnection
  <2>2. Con(c, q)
    BY <1>6
  <2> HIDE DEF u
  <2>3. q \in HConnection /\ q.hasty /\ q.kind = r.kind /\ q.log = r.log
    BY <2>1, ClosedFields
  <2> HIDE DEF q
  <2>4. LogShape(q)
    BY <1>1, <2>3, LogSame
  <2>5. AnswerShape(q, b)
    BY <2>3 DEF AnswerShape, InOrder
  <2>6. QED
    BY <1>2, <2>2, <2>3, <2>4, <2>5, ConStep DEF b
<1>7. QED
  BY <1>2, <1>5, <1>6

LEMMA HttpStepInv == HttpInv /\ [HttpNext]_srvVars => HttpInv'
<1> SUFFICES ASSUME HttpInv, [HttpNext]_srvVars PROVE HttpInv'
  OBVIOUS
<1>1. CASE UNCHANGED srvVars
  <2>1. hc' = hc /\ at' = at
    BY <1>1 DEF srvVars
  <2>2. QED
    <3>1. (HttpTypeOK /\ OneReader /\ ReadersAlive)'
      BY <2>1 DEF HttpInv, HttpTypeOK, OneReader, ReadersAlive
    <3>2. (\A c \in HConns : LogShape(hc[c]))'
      BY <2>1 DEF HttpInv, LogShape, SplitAt
    <3>3. (\A c \in HConns : AnswerShape(hc[c], ~Quiet(c)))'
      BY <2>1 DEF HttpInv, AnswerShape, InOrder, Begun, Quiet
    <3>4. QED
      BY <3>1, <3>2, <3>3 DEF HttpInv
<1>2. ASSUME NEW c \in HConns,
             \/ ClientSend(c) \/ SockConnected(c) \/ SockCanWrite(c)
             \/ SockClose(c) \/ HttpSockClosed(c)
      PROVE  HttpInv'
  BY <1>2, ClientSendInv, SockConnectedInv, SockCanWriteInv, SockCloseInv, HttpSockClosedInv
<1>3. ASSUME NEW w \in HWorkers, NEW c \in HConns, CanReadBegin(w, c) PROVE HttpInv'
  BY <1>3, CanReadBeginInv
<1>4. ASSUME NEW w \in HWorkers,
             \/ ReadOn(w) \/ RequestKeep(w) \/ RequestClose(w)
             \/ RequestUpgrade(w) \/ WsTurn(w) \/ ReadClosed(w)
      PROVE  HttpInv'
  BY <1>4, ReadOnInv, RequestKeepInv, RequestCloseInv, RequestUpgradeInv, WsTurnInv, ReadClosedInv
<1>5. QED
  BY <1>1, <1>2, <1>3, <1>4 DEF HttpNext

LEMMA HttpAlways == HttpSpec => []HttpInv
  BY HttpInitInv, HttpStepInv, PTL DEF HttpSpec

\* The client of vtm_http_srv gets the answers to its requests in order and whole, on
\* any number of connections and workers, for as long as it waits for an answer
\* before it asks again, nobody cuts the answer off and no other connection's answer
\* comes into the worker's response object.
THEOREM AnswersComeInOrder == HttpSpec => []AnswersInOrder
<1>1. HttpInv => AnswersInOrder
  <2> SUFFICES ASSUME HttpInv, NEW c \in HConns, ~hc[c].piped, ~hc[c].hasty, ~Mixed(c)
               PROVE  /\ Whole(hc[c].got) /\ Numbered(hc[c].got)
                      /\ hc[c].emt # NoEmt <=>
                            hc[c].got # <<>> /\ Last(hc[c].got)[1] = "begin" /\ hc[c].kind # "freed"
    BY DEF AnswersInOrder
  <2>1. InOrder(hc[c])
    BY DEF InOrder, Mixed
  <2>2. QED
    BY <2>1, OfConnection DEF AnswerShape, Begun, Last
<1>2. QED
  BY <1>1, HttpAlways, PTL

\* What WsPart finds is what begins after the requests.
LEMMA WsPartIs ==
    ASSUME NEW r \in HConnection, NEW k \in 0 .. Len(r.log), SplitAt(r, k)
    PROVE  WsPart(r.log) = IF k = Len(r.log) THEN <<>> ELSE SubSeq(r.log, k + 1, Len(r.log))
<1> DEFINE s == r.log
           I == {i \in 1 .. Len(s) : s[i] = "ws_connect"}
           n == IF I # {} THEN Min(I) ELSE 0
<1>1. s \in Seq(Callbacks) /\ Len(s) \in Nat
  BY DEF HConnection
<1>2. WsPart(s) = IF n = 0 THEN <<>> ELSE SubSeq(s, n, Len(s))
  BY DEF WsPart, SelectInSeq
<1>3. CASE k = Len(s)
  <2>1. I = {}
    BY <1>3 DEF SplitAt
  <2>2. QED
    BY <1>2, <1>3, <2>1
<1>4. CASE k # Len(s)
  <2>1. /\ k < Len(s) /\ s[k + 1] = "ws_connect" /\ k \in Nat
        /\ \A i \in 1 .. k : s[i] = "request"
        /\ \A i \in k + 2 .. Len(s) - 1 : s[i] = "ws_message"
    BY <1>1, <1>4 DEF SplitAt
  <2>2. k + 1 < Len(s) => s[Len(s)] # "ws_connect"
    BY <1>1, <2>1 DEF SplitAt, HConnection, HKinds
  <2> HIDE DEF s
  <2>3. I = {k + 1}
    <3>1. k + 1 \in I
      BY <1>1, <2>1
    <3>2. ASSUME NEW i \in I PROVE i = k + 1
      <4>1. i \in 1 .. Len(s) /\ s[i] = "ws_connect"
        OBVIOUS
      <4>2. i \notin 1 .. k /\ i \notin k + 2 .. Len(s) - 1
        BY <2>1, <4>1
      <4>3. i = Len(s) => k + 1 = Len(s)
        BY <1>1, <2>1, <2>2, <4>1
      <4>4. QED
        BY <1>1, <2>1, <4>1, <4>2, <4>3
    <3>3. QED
      BY <3>1, <3>2
  <2>4. Min({k + 1}) = k + 1
    BY <2>1 DEF Min
  <2>5. n = k + 1
    BY <2>3, <2>4
  <2>6. QED
    <3> HIDE DEF n, I
    <3>1. n # 0 /\ k # Len(s)
      BY <1>4, <2>1, <2>5
    <3>2. WsPart(s) = SubSeq(s, k + 1, Len(s))
      BY <1>2, <2>5, <3>1
    <3>3. QED
      BY <3>1, <3>2 DEF s
<1>5. QED
  BY <1>3, <1>4

\* The application of vtm_http_srv sees every WebSocket connection begin and end,
\* on any number of connections and workers, and no handler runs on a connection
\* that was unregistered.
THEOREM WsBeginsAndEnds == HttpSpec => []WsCallbacks
<1>1. HttpInv => WsCallbacks
  <2> SUFFICES ASSUME HttpInv, NEW c \in HConns
               PROVE  LET log == hc[c].log
                          ws  == WsPart(log)
                      IN  /\ \A i \in 1 .. Len(log) - Len(ws) : log[i] = "request"
                          /\ \A i \in DOMAIN ws : /\ ws[i] # "request"
                                                  /\ ws[i] = "ws_connect" => i = 1
                                                  /\ ws[i] = "ws_close" => i = Len(ws)
                          /\ ws # <<>> /\ hc[c].kind = "freed" => Last(ws) = "ws_close"
                          /\ ~Quiet(c) => hc[c].kind # "freed"
                          /\ ws # <<>> => hc[c].kind \in {"WS", "freed"}
    BY DEF WsCallbacks
  <2> DEFINE r == hc[c]
             s == r.log
             ws == WsPart(s)
  <2>1. r \in HConnection /\ LogShape(r) /\ (r.kind \in {"new", "freed"} => Quiet(c))
    BY OfConnection
  <2>2. PICK k \in 0 .. Len(s) : SplitAt(r, k)
    BY <2>1 DEF LogShape
  <2>3. s \in Seq(Callbacks) /\ Len(s) \in Nat /\ r.kind \in HKinds
    BY <2>1 DEF HConnection
  <2>4. ws = IF k = Len(s) THEN <<>> ELSE SubSeq(s, k + 1, Len(s))
    BY <2>1, <2>2, WsPartIs
  <2>5. /\ \A i \in 1 .. k : s[i] = "request"
        /\ k # Len(s) => r.kind \in {"WS", "freed"}
        /\ k # Len(s) => /\ s[k + 1] = "ws_connect"
                         /\ \A i \in k + 2 .. Len(s) - 1 : s[i] = "ws_message"
                         /\ r.kind = "WS" /\ Len(s) > k + 1 => s[Len(s)] = "ws_message"
                         /\ r.kind = "freed" => Len(s) > k + 1 /\ s[Len(s)] = "ws_close"
    BY <2>2, <2>3 DEF SplitAt
  <2> HIDE DEF r, s, ws
  <2>6. CASE k = Len(s)
    <3>1. ws = <<>> /\ Len(ws) = 0
      BY <2>4, <2>6
    <3>2. QED
      BY <2>1, <2>3, <2>5, <2>6, <3>1 DEF r, s, ws
  <2>7. CASE k # Len(s)
    <3>1. /\ ws \in Seq(Callbacks) /\ Len(ws) = Len(s) - k
          /\ \A i \in 1 .. Len(s) - k : ws[i] = s[k + i]
      <4>1. k \in Nat /\ k + 1 \in 1 .. Len(s) + 1 /\ k + 1 <= Len(s)
        BY <2>3, <2>7
      <4>2. /\ ws \in Seq(Callbacks) /\ Len(ws) = Len(s) - (k + 1) + 1
            /\ \A i \in 1 .. Len(s) - (k + 1) + 1 : ws[i] = s[(k + 1) + i - 1]
        BY <2>3, <2>4, <2>7, <4>1, SubSeqProperties
      <4>3. QED
        BY <2>3, <4>1, <4>2, SMTT(60)
    <3>2. DOMAIN ws = 1 .. Len(s) - k /\ ws # <<>> /\ Last(ws) = s[Len(s)]
      BY <2>3, <2>7, <3>1 DEF Last
    <3>3. ASSUME NEW i \in 1 .. Len(s) - k
          PROVE  /\ ws[i] # "request"
                 /\ ws[i] = "ws_connect" => i = 1
                 /\ ws[i] = "ws_close" => i = Len(ws)
      <4>1. ws[i] = s[k + i]
        BY <3>1
      <4>2. CASE i = 1
        BY <2>3, <2>5, <2>7, <3>1, <4>1, <4>2
      <4>3. CASE i # 1 /\ i # Len(s) - k
        BY <2>3, <2>5, <2>7, <4>1, <4>3
      <4>4. CASE i # 1 /\ i = Len(s) - k
        <5>1. ws[i] = s[Len(s)] /\ Len(s) > k + 1
          BY <2>3, <4>1, <4>4
        <5>2. QED
          BY <2>5, <2>7, <3>1, <4>4, <5>1
      <4>5. QED
        BY <4>2, <4>3, <4>4
    <3>4. Len(s) - Len(ws) = k
      BY <2>3, <3>1
    <3>5. QED
      BY <2>1, <2>5, <2>7, <3>1, <3>2, <3>3, <3>4 DEF r, s, ws
  <2>8. QED
    BY <2>6, <2>7
<1>2. QED
  BY <1>1, HttpAlways, PTL


-----------------------------------------------------------------------------
(* The router. *)

\* vtm_http_router_matches finds what it should: the same path, or a directory
\* on the way to it.
ForPath(p, r) == r = p \/ (Last(r) = Slash /\ IsPrefix(r, p))

LEMMA MatchesIs ==
    ASSUME NEW p \in Seq(PathChars), NEW r \in Seq(PathChars), r # <<>>
    PROVE  Matches(p, r) <=> ForPath(p, r)
<1> DEFINE a == Len(p)
           b == Len(r)
           T == {n \in 0 .. Min({a, b}) : SubSeq(p, 1, n) = SubSeq(r, 1, n)}
           c == Common(p, r)
<1>1. a \in Nat /\ b \in Nat /\ b > 0
  OBVIOUS
<1>2. Min({a, b}) = IF a <= b THEN a ELSE b
  BY <1>1, MinOfTwo
<1>3. T \in SUBSET Nat /\ 0 \in T /\ \A y \in T : y <= b
  <2>1. SubSeq(p, 1, 0) = <<>> /\ SubSeq(r, 1, 0) = <<>>
    OBVIOUS
  <2> DEFINE k == Min({a, b})
  <2>2. k \in Nat /\ k <= b
    BY <1>1, <1>2
  <2> HIDE DEF k
  <2>3. T = {n \in 0 .. k : SubSeq(p, 1, n) = SubSeq(r, 1, n)}
    BY DEF k
  <2> HIDE DEF T, a, b
  <2>4. 0 \in 0 .. k /\ \A y \in 0 .. k : y \in Nat /\ y <= b
    BY <1>1, <2>2
  <2> QED BY <2>1, <2>3, <2>4
<1>4. c = Max(T)
  BY DEF Common
<1>5. c \in T /\ \A y \in T : c >= y
  <2> HIDE DEF T, a, b
  <2> QED BY <1>1, <1>3, <1>4, MaxOfNats
<1>6. Matches(p, r) <=> \/ c = a /\ c = b
                        \/ c > 0 /\ c = b /\ r[c] = Slash /\ p[c] = Slash
  BY DEF Matches
<1>7. SubSeq(p, 1, a) = p /\ SubSeq(r, 1, b) = r
  OBVIOUS
<1>8. c \in Nat /\ c <= a /\ c <= b /\ SubSeq(p, 1, c) = SubSeq(r, 1, c)
  BY <1>1, <1>2, <1>5
<1>9. Last(r) = r[b]
  BY DEF Last
<1>10. b \in T <=> b <= a /\ SubSeq(p, 1, b) = r
  BY <1>1, <1>2, <1>7
<1>11. b \in T <=> c = b
  <2> HIDE DEF T, c, a, b
  <2> QED BY <1>1, <1>3, <1>5, <1>8
<1>12. IsPrefix(r, p) <=> b <= a /\ r = SubSeq(p, 1, b)
  BY DEF IsPrefix
<1> HIDE DEF c, T
<1>13. b <= a /\ SubSeq(p, 1, b) = r => p[b] = r[b]
  <2> SUFFICES ASSUME b <= a, SubSeq(p, 1, b) = r PROVE p[b] = r[b]
    OBVIOUS
  <2>1. SubSeq(p, 1, b)[b] = p[b]
    BY <1>1
  <2> QED BY <2>1
<1>14. r = p => a = b
  OBVIOUS
<1>15. a = b /\ SubSeq(p, 1, b) = r => r = p
  BY <1>7
<1> HIDE DEF a, b
<1>16. r = p => b <= a /\ SubSeq(p, 1, b) = r
  BY <1>1, <1>7, <1>14
<1> QED BY <1>1, <1>6, <1>8, <1>9, <1>10, <1>11, <1>12, <1>13, <1>14, <1>15, <1>16 DEF ForPath

RouteRec == [url : Seq(PathChars) \ {<<>>}, kind : {"static", "file"}]
RouteAnswers == StaticResults \cup {"ERROR"}

\* The routes the request is for.
Fit == {k \in DOMAIN routes : ForPath(path, routes[k].url)}

RoutedAt(i) ==
    /\ tried[i][1] \in Fit
    /\ {k \in Fit : k < tried[i][1]} = {tried[j][1] : j \in 1 .. i - 1}
    /\ tried[i][2] \in RouteResults(routes[tried[i][1]])
    /\ i < Len(tried) => tried[i][2] = "NOT_HANDLED"

\* The inductive invariant: a result also says what kind of route has given it.
RouteInv ==
    /\ routes \in Seq(RouteRec) /\ path \in Seq(PathChars) /\ tried \in Seq(Nat \X RouteAnswers)
    /\ path = <<>> => tried = <<>>
    /\ \A i \in 1 .. Len(tried) : RoutedAt(i)

LEMMA PathType ==
    ASSUME NEW p \in Paths
    PROVE  p \in Seq(PathChars) /\ p # <<>>
<1>1. PICK n \in 1 .. PathLen : p \in [1 .. n -> PathChars]
  BY DEF Paths
<1>2. n \in Nat /\ n > 0
  BY HttpRoutesAssumption
<1>3. p \in Seq(PathChars) /\ Len(p) = n
  BY <1>1, <1>2
<1>4. Len(p) # 0
  BY <1>2, <1>3
<1> QED BY <1>3, <1>4

\* Only a static route declines.
LEMMA Declines ==
    ASSUME NEW r \in RouteRec
    PROVE  /\ "NOT_HANDLED" \in RouteResults(r) => r.kind = "static"
           /\ RouteResults(r) \subseteq RouteAnswers
<1>1. \A step \in FileSteps : FileResult(step) \in {"OK", "ERROR", "NOT_FOUND"}
  BY DEF FileSteps, FileResult
<1>2. r.kind \in {"static", "file"}
  BY DEF RouteRec
<1> QED BY <1>1, <1>2 DEF RouteResults, RouteAnswers, StaticResults

LEMMA RouteStep ==
    ASSUME RouteInv, [RouteNext]_routeVars
    PROVE  RouteInv'
<1>0. /\ routes \in Seq(RouteRec) /\ path \in Seq(PathChars) /\ tried \in Seq(Nat \X RouteAnswers)
      /\ path = <<>> => tried = <<>>
      /\ \A i \in 1 .. Len(tried) : RoutedAt(i)
  BY DEF RouteInv
<1>1. ASSUME NEW p \in Paths, Arrive(p) PROVE RouteInv'
  <2>1. p \in Seq(PathChars) /\ p # <<>>
    BY PathType
  <2>2. tried = <<>> /\ routes' = routes /\ tried' = tried /\ path' = p
    BY <1>0, <1>1 DEF Arrive
  <2>3. Len(tried') = 0
    BY <2>2
  <2>4. 1 .. Len(tried') = {}
    BY <2>3
  <2> QED BY <1>0, <2>1, <2>2, <2>4 DEF RouteInv
<1>2. ASSUME NEW p \in Paths, NEW k \in {"static", "file"}, AddRoute([url |-> p, kind |-> k])
      PROVE  RouteInv'
  <2> DEFINE r == [url |-> p, kind |-> k]
  <2>1. r \in RouteRec
    BY PathType DEF RouteRec
  <2>2. path = <<>> /\ routes' = Append(routes, r) /\ tried' = tried /\ path' = path
    BY <1>2 DEF AddRoute
  <2>3. tried = <<>>
    BY <1>0, <2>2
  <2> HIDE DEF r
  <2>4. routes' \in Seq(RouteRec)
    BY <1>0, <2>1, <2>2
  <2>5. Len(tried') = 0
    BY <2>2, <2>3
  <2>6. 1 .. Len(tried') = {}
    BY <2>5
  <2> QED BY <1>0, <2>2, <2>3, <2>4, <2>6 DEF RouteInv
<1>3. ASSUME NEW rc \in RouteAnswers, TryRoute(rc) PROVE RouteInv'
  <2>0. PICK n : n = Len(tried)
    OBVIOUS
  <2> DEFINE next == {i \in Untried : Matches(path, routes[i].url)}
             m == Min(next)
             t == Append(tried, <<m, rc>>)
  <2>1. /\ path # <<>> /\ ~Handled /\ next # {} /\ rc \in RouteResults(routes[m])
        /\ tried' = t /\ routes' = routes /\ path' = path
    BY <1>3 DEF TryRoute
  <2>2. \A i \in DOMAIN routes : i \in Nat /\ routes[i] \in RouteRec
    BY <1>0
  <2>3. \A i \in DOMAIN routes : Matches(path, routes[i].url) <=> ForPath(path, routes[i].url)
    <3> SUFFICES ASSUME NEW i \in DOMAIN routes
                 PROVE  Matches(path, routes[i].url) <=> ForPath(path, routes[i].url)
      OBVIOUS
    <3> DEFINE u == routes[i].url
    <3>1. u \in Seq(PathChars) /\ u # <<>>
      BY <2>2 DEF RouteRec
    <3> HIDE DEF u
    <3>2. Matches(path, u) <=> ForPath(path, u)
      BY <1>0, <3>1, MatchesIs
    <3> QED BY <3>2 DEF u
  <2>4. n \in Nat /\ DOMAIN tried = 1 .. n /\ \A j \in 1 .. n : tried[j][1] \in Nat
    BY <1>0, <2>0
  <2>5. next = {i \in Fit : \A j \in 1 .. n : tried[j][1] < i}
    BY <2>3, <2>4 DEF Untried, Fit
  <2>6. next \in SUBSET Nat
    BY <2>2, <2>5 DEF Fit
  <2> HIDE DEF next
  <2>7. m \in next /\ \A y \in next : m <= y
    BY <2>1, <2>6, MinOfNats
  <2> HIDE DEF m
  <2>8. m \in Fit /\ m \in Nat /\ \A j \in 1 .. n : tried[j][1] < m
    BY <2>5, <2>6, <2>7
  <2>9. {k \in Fit : k < m} = {tried[j][1] : j \in 1 .. n}
    <3>1. ASSUME NEW j \in 1 .. n PROVE tried[j][1] \in Fit /\ tried[j][1] < m
      BY <2>0, <1>0, <2>8 DEF RoutedAt
    <3>2. ASSUME NEW k \in Fit, k < m PROVE \E j \in 1 .. n : tried[j][1] = k
      <4>1. k \in Nat
        BY <2>2 DEF Fit
      <4>2. k \notin next
        BY <2>7, <2>8, <3>2, <4>1
      <4>3. PICK j \in 1 .. n : ~(tried[j][1] < k)
        BY <2>5, <4>2
      <4>4. CASE tried[j][1] = k
        BY <4>4
      <4>5. CASE tried[j][1] # k
        <5>1. k < tried[j][1]
          BY <2>4, <4>1, <4>3, <4>5
        <5>2. k \in {tried[l][1] : l \in 1 .. j - 1}
          BY <2>0, <1>0, <5>1 DEF RoutedAt
        <5>3. \A l \in 1 .. j - 1 : l \in 1 .. n
          BY <2>4
        <5> QED BY <5>2, <5>3
      <4> QED BY <4>4, <4>5
    <3> QED BY <3>1, <3>2
  <2>10. /\ t \in Seq(Nat \X RouteAnswers) /\ Len(t) = n + 1
         /\ \A i \in 1 .. n : t[i] = tried[i]
         /\ t[n + 1] = <<m, rc>>
    <3>1. <<m, rc>> \in Nat \X RouteAnswers
      BY <2>8
    <3> QED BY <2>0, <1>0, <3>1
  <2>11. n > 0 => tried[n][2] = "NOT_HANDLED"
    <3>1. tried # <<>> => Last(tried)[2] = "NOT_HANDLED"
      BY <2>1 DEF Handled
    <3>2. n > 0 => tried # <<>>
      BY <2>0, <1>0
    <3> QED BY <2>0, <3>1, <3>2 DEF Last
  <2> HIDE DEF t
  <2>12. Fit' = Fit
    BY <2>1 DEF Fit
  <2>13. ASSUME NEW i \in 1 .. n PROVE RoutedAt(i)'
    <3>1. \A j \in 1 .. i - 1 : j \in 1 .. n
      BY <2>4
    <3>2. {tried'[j][1] : j \in 1 .. i - 1} = {tried[j][1] : j \in 1 .. i - 1}
      BY <2>1, <2>10, <3>1
    <3>3. tried'[i] = tried[i] /\ RoutedAt(i)
      BY <2>0, <1>0, <2>1, <2>10
    <3>4. tried[i][2] = "NOT_HANDLED"
      <4>1. CASE i < n
        BY <2>0, <3>3, <4>1 DEF RoutedAt
      <4>2. CASE ~(i < n)
        <5>1. i = n /\ n > 0
          BY <2>4, <4>2
        <5> QED BY <2>11, <5>1
      <4> QED BY <4>1, <4>2
    <3> QED BY <2>1, <2>12, <3>2, <3>3, <3>4 DEF RoutedAt
  <2>14. RoutedAt(n + 1)'
    <3>1. tried'[n + 1] = <<m, rc>> /\ tried'[n + 1][1] = m /\ tried'[n + 1][2] = rc
      BY <2>1, <2>10
    <3>2. {tried'[j][1] : j \in 1 .. (n + 1) - 1} = {tried[j][1] : j \in 1 .. n}
      <4>1. (n + 1) - 1 = n
        BY <2>4
      <4> QED BY <2>1, <2>10, <4>1
    <3>3. ~(n + 1 < Len(tried'))
      BY <2>1, <2>4, <2>10
    <3> QED BY <2>1, <2>8, <2>9, <2>12, <3>1, <3>2, <3>3 DEF RoutedAt
  <2>15. \A i \in 1 .. Len(tried') : RoutedAt(i)'
    <3>1. \A i \in 1 .. Len(tried') : i \in 1 .. n \/ i = n + 1
      BY <2>1, <2>4, <2>10
    <3> QED BY <2>13, <2>14, <3>1
  <2> QED BY <1>0, <2>1, <2>10, <2>15 DEF RouteInv
<1>4. CASE UNCHANGED routeVars
  <2>1. routes' = routes /\ tried' = tried /\ path' = path
    BY <1>4 DEF routeVars
  <2> QED BY <1>0, <2>1, SMTT(60) DEF RouteInv, RoutedAt, Fit
<1> QED BY <1>1, <1>2, <1>3, <1>4 DEF RouteNext, RouteAnswers

\* The router asks the routes that are for the path, in the order they were
\* added and each once, up to the first that does not decline
\* (vtm_http_router_handle), for every set of routes and every path.
THEOREM RoutesTriedInOrder == RouteSpec => []RoutedInOrder
<1>1. RouteInit => RouteInv
  <2> SUFFICES ASSUME RouteInit PROVE RouteInv
    OBVIOUS
  <2>1. routes = <<>> /\ tried = <<>> /\ path = <<>>
    BY DEF RouteInit
  <2>2. 1 .. Len(tried) = {}
    BY <2>1
  <2> QED BY <2>1, <2>2 DEF RouteInv
<1>2. RouteInv /\ [RouteNext]_routeVars => RouteInv'
  BY RouteStep
<1>3. RouteInv => RoutedInOrder
  <2> SUFFICES ASSUME RouteInv PROVE RoutedInOrder
    OBVIOUS
  <2>1. DOMAIN tried = 1 .. Len(tried) /\ routes \in Seq(RouteRec)
    BY DEF RouteInv
  <2>2. \A i \in DOMAIN tried : RoutedAt(i)
    BY <2>1 DEF RouteInv
  <2>3. \A i \in DOMAIN tried : i < Len(tried) => routes[tried[i][1]].kind = "static"
    <3> SUFFICES ASSUME NEW i \in DOMAIN tried, i < Len(tried) PROVE routes[tried[i][1]].kind = "static"
      OBVIOUS
    <3> DEFINE r == routes[tried[i][1]]
    <3>1. "NOT_HANDLED" \in RouteResults(r) /\ tried[i][1] \in DOMAIN routes
      BY <2>2 DEF RoutedAt, Fit
    <3>2. r \in RouteRec
      BY <2>1, <3>1
    <3> HIDE DEF r
    <3>3. r.kind = "static"
      BY <3>1, <3>2, Declines
    <3> QED BY <3>3 DEF r
  <2> QED BY <2>2, <2>3 DEF RoutedInOrder, RoutedAt, Fit, ForPath
<1> QED BY <1>1, <1>2, <1>3, PTL DEF RouteSpec

-----------------------------------------------------------------------------
(* The wrapper around a socket server, run and stop.                       *)

RunPcs == {"idle", "new", "locking", "setup", "ready", "callback", "loop", "drain", "relock",
           "clean", "returned", "free"}
StopPcs == {"idle", "locked", "inside", "leaving", "invalid", "fault", "done"}
Server == [lock : BOOLEAN, running : BOOLEAN, listener : BOOLEAN, live : BOOLEAN]
RunThread == [pc : RunPcs, srv : 0 .. MaxRuns, rc : {"none", "ok", "error"}, entered : BOOLEAN]
StopThread == [pc : StopPcs, srv : 0 .. MaxRuns, rc : {"none", "ok", "invalid"}]

WrapTypeOK ==
    /\ sockSrv \in 0 .. MaxRuns
    /\ obj \in [1 .. MaxRuns -> Server]
    /\ run \in RunThread
    /\ stop \in [Stoppers -> StopThread]
    /\ outer \in BOOLEAN /\ misled \in BOOLEAN

\* run has made its socket server and not freed it.
Busy == run.pc \notin {"idle", "new"}

\* The socket server of the wrapper is the one run works with, and it is alive.
CurrentServer ==
    /\ Busy => run.srv \in 1 .. MaxRuns /\ sockSrv = run.srv /\ obj[run.srv].live
    /\ ~Busy => sockSrv = 0
    /\ run.pc = "new" => run.srv < MaxRuns

\* stop_lock has one holder, and is taken exactly when it has one.
OneHolder ==
    /\ \A s, t \in StopHolds : s = t
    /\ ~(RunHolds /\ StopHolds # {})
    /\ outer <=> RunHolds \/ StopHolds # {}

\* A thread in stop has found a server that run had made before.
FoundServer ==
    \A s \in Stoppers :
        /\ stop[s].pc = "inside" => stop[s].srv = sockSrv /\ sockSrv # 0
        /\ stop[s].pc \in {"idle", "locked", "inside"} => stop[s].rc = "none"
        /\ stop[s].srv <= run.srv
        /\ run.pc \in {"locking", "setup"} => stop[s].srv < run.srv
        /\ stop[s].rc = "ok" => stop[s].srv # 0 /\ ~obj[stop[s].srv].running

WrapInv == WrapTypeOK /\ CurrentServer /\ (~misled => OneHolder /\ FoundServer)

-----------------------------------------------------------------------------
\* The initial states satisfy the invariant.
LEMMA WrapInvInit == WrapInit => WrapInv
<1> SUFFICES ASSUME WrapInit PROVE WrapInv
  OBVIOUS
<1>1. obj = [i \in 1 .. MaxRuns |-> [lock |-> FALSE, running |-> FALSE, listener |-> FALSE, live |-> FALSE]]
      /\ run = [pc |-> "idle", srv |-> 0, rc |-> "none", entered |-> FALSE]
      /\ stop = [s \in Stoppers |-> [pc |-> "idle", srv |-> 0, rc |-> "none"]]
      /\ outer = FALSE /\ sockSrv = 0 /\ misled = FALSE
  BY DEF WrapInit, WrapIdle
<1>2. WrapTypeOK /\ CurrentServer
  <2>1. 0 \in 0 .. MaxRuns
    BY WrapperAssumption
  <2>2. obj \in [1 .. MaxRuns -> Server]
    BY <1>1 DEF Server
  <2>3. run \in [pc : RunPcs, srv : 0 .. MaxRuns, rc : {"none", "ok", "error"}, entered : BOOLEAN]
    BY <1>1, <2>1 DEF RunPcs
  <2>4. stop \in [Stoppers -> [pc : StopPcs, srv : 0 .. MaxRuns, rc : {"none", "ok", "invalid"}]]
    BY <1>1, <2>1 DEF StopPcs
  <2>5. QED
    BY <1>1, <2>1, <2>2, <2>3, <2>4 DEF WrapTypeOK, RunThread, StopThread, CurrentServer, Busy
<1>3. OneHolder /\ FoundServer
  BY <1>1 DEF OneHolder, RunHolds, StopHolds, At, FoundServer
<1>4. QED
  BY <1>2, <1>3 DEF WrapInv

-----------------------------------------------------------------------------
(* One lemma for each part of the invariant, one step for each action.     *)

\* A change of one server, whether there is one or not.
LEMMA ServerChange ==
    ASSUME NEW f \in [1 .. MaxRuns -> Server], NEW i, NEW v, i \in 1 .. MaxRuns => v \in Server
    PROVE  [f EXCEPT ![i] = v] \in [1 .. MaxRuns -> Server]
OBVIOUS

\* The changes run and stop make to a server leave a server.
LEMMA ServerFields ==
    ASSUME NEW o \in Server, NEW b \in BOOLEAN, NEW c \in BOOLEAN
    PROVE  /\ [o EXCEPT !.lock = b] \in Server
           /\ [o EXCEPT !.live = b] \in Server
           /\ [o EXCEPT !.running = b] \in Server
           /\ [o EXCEPT !.running = b, !.listener = c] \in Server
           /\ [o EXCEPT !.listener = b, !.lock = c] \in Server
           /\ [o EXCEPT !.running = b, !.lock = c] \in Server
           /\ [o EXCEPT !.lock = b, !.running = c] \in Server
BY DEF Server

\* Where run goes next.
LEMMA RunGoes == ASSUME WrapTypeOK, NEW p \in RunPcs PROVE [run EXCEPT !.pc = p] \in RunThread
BY DEF WrapTypeOK, RunThread

\* Where a thread in stop goes next.
LEMMA StopGoes ==
    ASSUME WrapTypeOK, NEW s \in Stoppers, NEW p \in StopPcs
    PROVE  [stop EXCEPT ![s].pc = p] \in [Stoppers -> StopThread]
<1>1. [stop[s] EXCEPT !.pc = p] \in StopThread
  BY DEF WrapTypeOK, StopThread
<1>2. QED
  BY <1>1 DEF WrapTypeOK

\* Types, whatever run and stop do.
LEMMA WrapTypeStep ==
    ASSUME WrapTypeOK, CurrentServer, [WrapNext]_wrapVars
    PROVE  WrapTypeOK'
<1> USE WrapperAssumption
<1>1. ASSUME RunLock PROVE WrapTypeOK'
  <2>1. run' \in RunThread
    BY <1>1, RunGoes DEF RunLock, Go, RunPcs
  <2>2. QED
    BY <1>1, <2>1 DEF RunLock, WrapTypeOK
<1>2. ASSUME SrvLock PROVE WrapTypeOK'
  <2>1. obj' \in [1 .. MaxRuns -> Server]
    <3>1. obj' = [obj EXCEPT ![run.srv] = [obj[run.srv] EXCEPT !.lock = TRUE]]
      BY <1>2, SMTT(60) DEF SrvLock
    <3>2. run.srv \in 1 .. MaxRuns => [obj[run.srv] EXCEPT !.lock = TRUE] \in Server
      BY ServerFields DEF WrapTypeOK
    <3>3. QED
      BY <3>1, <3>2, ServerChange, SMTT(60) DEF WrapTypeOK
  <2>2. run' \in RunThread
    BY <1>2, RunGoes DEF SrvLock, Go, RunPcs
  <2>3. QED
    BY <1>2, <2>1, <2>2 DEF SrvLock, WrapTypeOK
<1>3. ASSUME Setup PROVE WrapTypeOK'
  <2>1. obj' \in [1 .. MaxRuns -> Server]
    <3>1. obj' = [obj EXCEPT ![run.srv] = [obj[run.srv] EXCEPT !.running = TRUE, !.listener = TRUE]]
      BY <1>3 DEF Setup
    <3>2. run.srv \in 1 .. MaxRuns => [obj[run.srv] EXCEPT !.running = TRUE, !.listener = TRUE] \in Server
      BY ServerFields DEF WrapTypeOK
    <3>3. QED
      BY <3>1, <3>2, ServerChange DEF WrapTypeOK
  <2>2. run' \in RunThread
    BY <1>3, RunGoes DEF Setup, Go, RunPcs
  <2>3. QED
    BY <1>3, <2>1, <2>2 DEF Setup, WrapTypeOK
<1>4. ASSUME ServerReady PROVE WrapTypeOK'
  <2>1. run' \in RunThread
    BY <1>4, RunGoes DEF ServerReady, Go, RunPcs
  <2>2. QED
    BY <1>4, <2>1 DEF ServerReady, WrapTypeOK
<1>5. ASSUME SrvUnlock PROVE WrapTypeOK'
  <2>1. obj' \in [1 .. MaxRuns -> Server]
    <3>1. obj' = [obj EXCEPT ![run.srv] = [obj[run.srv] EXCEPT !.lock = FALSE]]
      BY <1>5, SMTT(60) DEF SrvUnlock
    <3>2. run.srv \in 1 .. MaxRuns => [obj[run.srv] EXCEPT !.lock = FALSE] \in Server
      BY ServerFields DEF WrapTypeOK
    <3>3. QED
      BY <3>1, <3>2, ServerChange DEF WrapTypeOK
  <2>2. run' \in RunThread
    BY <1>5, RunGoes DEF SrvUnlock, Go, RunPcs
  <2>3. QED
    BY <1>5, <2>1, <2>2 DEF SrvUnlock, WrapTypeOK
<1>6. ASSUME Drain PROVE WrapTypeOK'
  <2>1. obj' \in [1 .. MaxRuns -> Server]
    <3>1. obj' = [obj EXCEPT ![run.srv] = [obj[run.srv] EXCEPT !.running = FALSE]]
      BY <1>6, SMTT(60) DEF Drain
    <3>2. run.srv \in 1 .. MaxRuns => [obj[run.srv] EXCEPT !.running = FALSE] \in Server
      BY ServerFields DEF WrapTypeOK
    <3>3. QED
      BY <3>1, <3>2, ServerChange, SMTT(60) DEF WrapTypeOK
  <2>2. run' \in RunThread
    BY <1>6, RunGoes DEF Drain, Go, RunPcs
  <2>3. QED
    BY <1>6, <2>1, <2>2 DEF Drain, WrapTypeOK
<1>7. ASSUME SrvRelock PROVE WrapTypeOK'
  <2>1. obj' \in [1 .. MaxRuns -> Server]
    <3>1. obj' = [obj EXCEPT ![run.srv] = [obj[run.srv] EXCEPT !.lock = TRUE]]
      BY <1>7 DEF SrvRelock
    <3>2. run.srv \in 1 .. MaxRuns => [obj[run.srv] EXCEPT !.lock = TRUE] \in Server
      BY ServerFields DEF WrapTypeOK
    <3>3. QED
      BY <3>1, <3>2, ServerChange DEF WrapTypeOK
  <2>2. run' \in RunThread
    BY <1>7, RunGoes DEF SrvRelock, Go, RunPcs
  <2>3. QED
    BY <1>7, <2>1, <2>2 DEF SrvRelock, WrapTypeOK
<1>8. ASSUME Clean PROVE WrapTypeOK'
  <2>1. obj' \in [1 .. MaxRuns -> Server]
    <3>1. obj' = [obj EXCEPT ![run.srv] = [obj[run.srv] EXCEPT !.listener = FALSE, !.lock = FALSE]]
      BY <1>8 DEF Clean
    <3>2. run.srv \in 1 .. MaxRuns => [obj[run.srv] EXCEPT !.listener = FALSE, !.lock = FALSE] \in Server
      BY ServerFields DEF WrapTypeOK
    <3>3. QED
      BY <3>1, <3>2, ServerChange DEF WrapTypeOK
  <2>2. run' \in RunThread
    BY <1>8, RunGoes DEF Clean, Go, RunPcs
  <2>3. QED
    BY <1>8, <2>1, <2>2 DEF Clean, WrapTypeOK
<1>9. ASSUME RunRelock PROVE WrapTypeOK'
  <2>1. run' \in RunThread
    BY <1>9, RunGoes DEF RunRelock, Go, RunPcs
  <2>2. QED
    BY <1>9, <2>1 DEF RunRelock, WrapTypeOK
<1>10. ASSUME NoRelock PROVE WrapTypeOK'
  <2>1. run' \in RunThread
    BY <1>10, RunGoes DEF NoRelock, Go, RunPcs
  <2>2. QED
    BY <1>10, <2>1 DEF NoRelock, WrapTypeOK
<1>11. ASSUME RunFree PROVE WrapTypeOK'
  <2>1. obj' \in [1 .. MaxRuns -> Server]
    <3>1. obj' = [obj EXCEPT ![run.srv] = [obj[run.srv] EXCEPT !.live = FALSE]]
      BY <1>11 DEF RunFree
    <3>2. run.srv \in 1 .. MaxRuns => [obj[run.srv] EXCEPT !.live = FALSE] \in Server
      BY ServerFields DEF WrapTypeOK
    <3>3. QED
      BY <3>1, <3>2, ServerChange DEF WrapTypeOK
  <2>2. run' \in RunThread
    BY <1>11 DEF RunFree, WrapTypeOK, RunThread, RunPcs
  <2>3. sockSrv' \in 0 .. MaxRuns
    BY <1>11 DEF RunFree
  <2>4. QED
    BY <1>11, <2>1, <2>2, <2>3 DEF RunFree, WrapTypeOK
<1>12. ASSUME NEW ok \in BOOLEAN, RunNew(ok) PROVE WrapTypeOK'
  <2>1. CASE ok
    <3>1. run.srv + 1 \in 0 .. MaxRuns
      BY <1>12 DEF RunNew, At, WrapTypeOK, RunThread, CurrentServer
    <3>2. obj' \in [1 .. MaxRuns -> Server]
      <4>1. obj' = [obj EXCEPT ![run.srv + 1] = [obj[run.srv + 1] EXCEPT !.live = TRUE]]
        BY <1>12, <2>1 DEF RunNew
      <4>2. run.srv + 1 \in 1 .. MaxRuns => [obj[run.srv + 1] EXCEPT !.live = TRUE] \in Server
        BY ServerFields DEF WrapTypeOK
      <4>3. QED
        BY <4>1, <4>2, ServerChange, SMTT(60) DEF WrapTypeOK
    <3>3. run' \in RunThread
      BY <1>12, <2>1, <3>1 DEF RunNew, WrapTypeOK, RunThread, RunPcs
    <3>4. QED
      BY <1>12, <2>1, <3>1, <3>2, <3>3 DEF RunNew, WrapTypeOK
  <2>2. CASE ~ok
    <3>1. run' \in RunThread
      BY <1>12, <2>2, RunGoes DEF RunNew, Go, RunPcs
    <3>2. QED
      BY <1>12, <2>2, <3>1 DEF RunNew, WrapTypeOK
  <2>3. QED
    BY <2>1, <2>2
<1>13. ASSUME NEW step \in SetupSteps, SetupFails(step) PROVE WrapTypeOK'
  <2>1. obj' \in [1 .. MaxRuns -> Server]
    <3>1. obj' = [obj EXCEPT ![run.srv] = [obj[run.srv] EXCEPT !.lock = FALSE, !.running = (step = "workers")]]
      BY <1>13 DEF SetupFails
    <3>2. (step = "workers") \in BOOLEAN
      BY SMTT(60)
    <3>3. run.srv \in 1 .. MaxRuns =>
            \A b \in BOOLEAN : [obj[run.srv] EXCEPT !.lock = FALSE, !.running = b] \in Server
      BY ServerFields DEF WrapTypeOK
    <3>4. run.srv \in 1 .. MaxRuns =>
            [obj[run.srv] EXCEPT !.lock = FALSE, !.running = (step = "workers")] \in Server
      BY <3>2, <3>3, Zenon
    <3>5. QED
      BY <3>1, <3>4, ServerChange DEF WrapTypeOK
  <2>2. run' \in RunThread
    <3>1. PICK r \in {"ok", "error"} : run' = [run EXCEPT !.pc = "returned", !.rc = r]
      BY <1>13 DEF SetupFails
    <3>2. QED
      BY <3>1 DEF WrapTypeOK, RunThread, RunPcs
  <2>3. misled' \in BOOLEAN
    BY <1>13 DEF SetupFails, Unnoticed, WrapTypeOK
  <2>4. QED
    BY <1>13, <2>1, <2>2, <2>3 DEF SetupFails, WrapTypeOK
<1>14. ASSUME NEW rc \in {"ok", "error"}, LoopTurn(rc) PROVE WrapTypeOK'
  <2>1. run' \in RunThread
    BY <1>14 DEF LoopTurn, Result, WrapTypeOK, RunThread, RunPcs
  <2>2. QED
    BY <1>14, <2>1 DEF LoopTurn, WrapTypeOK
<1>15. ASSUME NEW rc \in {"ok", "error"}, LoopEnds(rc) PROVE WrapTypeOK'
  <2>1. run' \in RunThread
    BY <1>15 DEF LoopEnds, Result, WrapTypeOK, RunThread, RunPcs
  <2>2. QED
    BY <1>15, <2>1 DEF LoopEnds, WrapTypeOK
<1>16. ASSUME NEW s \in Stoppers, StopLock(s) PROVE WrapTypeOK'
  <2>1. stop' \in [Stoppers -> StopThread]
    BY <1>16, StopGoes DEF StopLock, Step, StopPcs
  <2>2. QED
    BY <1>16, <2>1 DEF StopLock, WrapTypeOK
<1>17. ASSUME NEW s \in Stoppers, StopNone(s) PROVE WrapTypeOK'
  <2>1. stop' \in [Stoppers -> StopThread]
    BY <1>17, StopGoes, ZenonT(60) DEF StopNone, Step, StopPcs
  <2>2. QED
    BY <1>17, <2>1 DEF StopNone, WrapTypeOK
<1>18. ASSUME NEW s \in Stoppers, StopSrvLock(s) PROVE WrapTypeOK'
  <2>1. obj' \in [1 .. MaxRuns -> Server]
    <3>1. obj' = [obj EXCEPT ![sockSrv] = [obj[sockSrv] EXCEPT !.lock = TRUE]]
      BY <1>18 DEF StopSrvLock
    <3>2. sockSrv \in 1 .. MaxRuns => [obj[sockSrv] EXCEPT !.lock = TRUE] \in Server
      BY ServerFields DEF WrapTypeOK
    <3>3. QED
      BY <3>1, <3>2, ServerChange DEF WrapTypeOK
  <2>2. stop' \in [Stoppers -> StopThread]
    <3>1. stop' = [stop EXCEPT ![s] = [stop[s] EXCEPT !.pc = "inside", !.srv = sockSrv]]
      BY <1>18 DEF StopSrvLock
    <3>2. [stop[s] EXCEPT !.pc = "inside", !.srv = sockSrv] \in StopThread
      BY DEF WrapTypeOK, StopThread, StopPcs
    <3>3. QED
      BY <3>1, <3>2 DEF WrapTypeOK
  <2>3. QED
    BY <1>18, <2>1, <2>2 DEF StopSrvLock, WrapTypeOK
<1>19. ASSUME NEW s \in Stoppers, StopSrv(s) PROVE WrapTypeOK'
  <2>1. obj' \in [1 .. MaxRuns -> Server]
    <3>1. obj' = [obj EXCEPT ![stop[s].srv] = [obj[stop[s].srv] EXCEPT !.running = FALSE, !.lock = FALSE]]
      BY <1>19 DEF StopSrv
    <3>2. stop[s].srv \in 1 .. MaxRuns => [obj[stop[s].srv] EXCEPT !.running = FALSE, !.lock = FALSE] \in Server
      BY ServerFields DEF WrapTypeOK
    <3>3. QED
      BY <3>1, <3>2, ServerChange DEF WrapTypeOK
  <2>2. stop' \in [Stoppers -> StopThread]
    <3>1. PICK r \in {"ok", "invalid"} : stop' = [stop EXCEPT ![s] = [stop[s] EXCEPT !.pc = "leaving", !.rc = r]]
      BY <1>19 DEF StopSrv
    <3>2. [stop[s] EXCEPT !.pc = "leaving", !.rc = r] \in StopThread
      BY DEF WrapTypeOK, StopThread, StopPcs
    <3>3. QED
      BY <3>1, <3>2 DEF WrapTypeOK
  <2>3. QED
    BY <1>19, <2>1, <2>2 DEF StopSrv, WrapTypeOK
<1>20. ASSUME NEW s \in Stoppers, StopUnlock(s) PROVE WrapTypeOK'
  <2>1. stop' \in [Stoppers -> StopThread]
    BY <1>20, StopGoes DEF StopUnlock, Step, StopPcs
  <2>2. QED
    BY <1>20, <2>1 DEF StopUnlock, WrapTypeOK
<1>21. ASSUME UNCHANGED wrapVars PROVE WrapTypeOK'
  BY <1>21 DEF wrapVars, WrapTypeOK
<1>22. QED
  BY <1>1, <1>2, <1>3, <1>4, <1>5, <1>6, <1>7, <1>8, <1>9, <1>10, <1>11, <1>12, <1>13, <1>14,
     <1>15, <1>16, <1>17, <1>18, <1>19, <1>20, <1>21 DEF WrapNext

\* Only run makes and frees socket servers.
LEMMA CurrentServerStep ==
    ASSUME WrapTypeOK, CurrentServer, [WrapNext]_wrapVars
    PROVE  CurrentServer'
<1> USE WrapperAssumption
<1>1. ASSUME RunLock PROVE CurrentServer'
  BY <1>1 DEF RunLock, Go, At, WrapTypeOK, RunThread, StopThread, CurrentServer, Busy, Server
<1>2. ASSUME SrvLock PROVE CurrentServer'
  BY <1>2 DEF SrvLock, Go, Cur, At, WrapTypeOK, RunThread, StopThread, CurrentServer, Busy, Server
<1>3. ASSUME Setup PROVE CurrentServer'
  BY <1>3 DEF Setup, Go, At, WrapTypeOK, RunThread, StopThread, CurrentServer, Busy, Server
<1>4. ASSUME ServerReady PROVE CurrentServer'
  BY <1>4 DEF ServerReady, Go, At, WrapTypeOK, RunThread, StopThread, CurrentServer, Busy, Server
<1>5. ASSUME SrvUnlock PROVE CurrentServer'
  BY <1>5 DEF SrvUnlock, Go, At, WrapTypeOK, RunThread, StopThread, CurrentServer, Busy, Server
<1>6. ASSUME Drain PROVE CurrentServer'
  BY <1>6 DEF Drain, Go, At, WrapTypeOK, RunThread, StopThread, CurrentServer, Busy, Server
<1>7. ASSUME SrvRelock PROVE CurrentServer'
  BY <1>7 DEF SrvRelock, Go, Cur, At, WrapTypeOK, RunThread, StopThread, CurrentServer, Busy, Server
<1>8. ASSUME Clean PROVE CurrentServer'
  BY <1>8 DEF Clean, Go, At, WrapTypeOK, RunThread, StopThread, CurrentServer, Busy, Server
<1>9. ASSUME RunRelock PROVE CurrentServer'
  BY <1>9 DEF RunRelock, Go, At, WrapTypeOK, RunThread, StopThread, CurrentServer, Busy, Server
<1>10. ASSUME NoRelock PROVE CurrentServer'
  BY <1>10 DEF NoRelock, Go, At, WrapTypeOK, RunThread, StopThread, CurrentServer, Busy, Server
<1>11. ASSUME RunFree PROVE CurrentServer'
  BY <1>11 DEF RunFree, At, WrapTypeOK, RunThread, StopThread, CurrentServer, Busy, Server
<1>12. ASSUME NEW ok \in BOOLEAN, RunNew(ok) PROVE CurrentServer'
  <2>1. CASE ok
    <3>1. run' = [run EXCEPT !.pc = "locking", !.srv = run.srv + 1] /\ sockSrv' = run.srv + 1
      BY <1>12, <2>1 DEF RunNew
    <3>2. run.srv + 1 \in 1 .. MaxRuns
      BY <1>12 DEF RunNew, At, WrapTypeOK, RunThread, StopThread, CurrentServer
    <3>3. obj'[run.srv + 1].live
      BY <1>12, <2>1, <3>2 DEF RunNew, WrapTypeOK, RunThread, StopThread, Server
    <3>4. run'.pc = "locking" /\ run'.srv = run.srv + 1
      BY <3>1 DEF WrapTypeOK, RunThread, StopThread
    <3>5. QED
      BY <3>1, <3>2, <3>3, <3>4 DEF CurrentServer, Busy
  <2>2. CASE ~ok
    BY <1>12, <2>2 DEF RunNew, Go, At, WrapTypeOK, RunThread, StopThread, CurrentServer, Busy
  <2>3. QED
    BY <2>1, <2>2
<1>13. ASSUME NEW step \in SetupSteps, SetupFails(step) PROVE CurrentServer'
  BY <1>13 DEF SetupFails, Unnoticed, SetupSteps, At, WrapTypeOK, RunThread, StopThread, CurrentServer, Busy, Server
<1>14. ASSUME NEW rc \in {"ok", "error"}, LoopTurn(rc) PROVE CurrentServer'
  BY <1>14 DEF LoopTurn, Result, Cur, At, WrapTypeOK, RunThread, StopThread, CurrentServer, Busy, Server
<1>15. ASSUME NEW rc \in {"ok", "error"}, LoopEnds(rc) PROVE CurrentServer'
  BY <1>15 DEF LoopEnds, Result, Cur, At, WrapTypeOK, RunThread, StopThread, CurrentServer, Busy, Server
<1>16. ASSUME NEW s \in Stoppers, StopLock(s) PROVE CurrentServer'
  BY <1>16 DEF StopLock, Step, At, WrapTypeOK, RunThread, StopThread, CurrentServer, Busy, Server
<1>17. ASSUME NEW s \in Stoppers, StopNone(s) PROVE CurrentServer'
  BY <1>17 DEF StopNone, Step, At, WrapTypeOK, RunThread, StopThread, CurrentServer, Busy, Server
<1>18. ASSUME NEW s \in Stoppers, StopSrvLock(s) PROVE CurrentServer'
  BY <1>18 DEF StopSrvLock, Step, At, WrapTypeOK, RunThread, StopThread, CurrentServer, Busy, Server
<1>19. ASSUME NEW s \in Stoppers, StopSrv(s) PROVE CurrentServer'
  BY <1>19 DEF StopSrv, Step, At, WrapTypeOK, RunThread, StopThread, CurrentServer, Busy, Server
<1>20. ASSUME NEW s \in Stoppers, StopUnlock(s) PROVE CurrentServer'
  BY <1>20 DEF StopUnlock, Step, At, WrapTypeOK, RunThread, StopThread, CurrentServer, Busy, Server
<1>21. ASSUME UNCHANGED wrapVars PROVE CurrentServer'
  BY <1>21 DEF wrapVars, At, WrapTypeOK, RunThread, StopThread, CurrentServer, Busy, Server
<1>22. QED
  BY <1>1, <1>2, <1>3, <1>4, <1>5, <1>6, <1>7, <1>8, <1>9, <1>10, <1>11, <1>12, <1>13, <1>14,
     <1>15, <1>16, <1>17, <1>18, <1>19, <1>20, <1>21 DEF WrapNext

\* stop_lock passes from one holder to the next.
LEMMA OneHolderStep ==
    ASSUME WrapTypeOK, OneHolder, ~misled', [WrapNext]_wrapVars
    PROVE  OneHolder'
<1> USE WrapperAssumption
<1>1. ASSUME RunLock PROVE OneHolder'
  BY <1>1 DEF RunLock, Go, At, WrapTypeOK, RunThread, StopThread, OneHolder, RunHolds, StopHolds
<1>2. ASSUME SrvLock PROVE OneHolder'
  BY <1>2 DEF SrvLock, Go, Cur, At, WrapTypeOK, RunThread, StopThread, OneHolder, RunHolds, StopHolds
<1>3. ASSUME Setup PROVE OneHolder'
  BY <1>3 DEF Setup, Go, At, WrapTypeOK, RunThread, StopThread, OneHolder, RunHolds, StopHolds
<1>4. ASSUME ServerReady PROVE OneHolder'
  BY <1>4 DEF ServerReady, Go, At, WrapTypeOK, RunThread, StopThread, OneHolder, RunHolds, StopHolds
<1>5. ASSUME SrvUnlock PROVE OneHolder'
  BY <1>5 DEF SrvUnlock, Go, At, WrapTypeOK, RunThread, StopThread, OneHolder, RunHolds, StopHolds
<1>6. ASSUME Drain PROVE OneHolder'
  BY <1>6 DEF Drain, Go, At, WrapTypeOK, RunThread, StopThread, OneHolder, RunHolds, StopHolds
<1>7. ASSUME SrvRelock PROVE OneHolder'
  BY <1>7 DEF SrvRelock, Go, Cur, At, WrapTypeOK, RunThread, StopThread, OneHolder, RunHolds, StopHolds
<1>8. ASSUME Clean PROVE OneHolder'
  BY <1>8 DEF Clean, Go, At, WrapTypeOK, RunThread, StopThread, OneHolder, RunHolds, StopHolds
<1>9. ASSUME RunRelock PROVE OneHolder'
  BY <1>9 DEF RunRelock, Go, At, WrapTypeOK, RunThread, StopThread, OneHolder, RunHolds, StopHolds
<1>10. ASSUME NoRelock PROVE OneHolder'
  BY <1>10 DEF NoRelock, Go, At, WrapTypeOK, RunThread, StopThread, OneHolder, RunHolds, StopHolds
<1>11. ASSUME RunFree PROVE OneHolder'
  BY <1>11 DEF RunFree, At, WrapTypeOK, RunThread, StopThread, OneHolder, RunHolds, StopHolds
<1>12. ASSUME NEW ok \in BOOLEAN, RunNew(ok) PROVE OneHolder'
  BY <1>12 DEF RunNew, Go, At, WrapTypeOK, RunThread, StopThread, OneHolder, RunHolds, StopHolds
<1>13. ASSUME NEW step \in SetupSteps, SetupFails(step) PROVE OneHolder'
  BY <1>13 DEF SetupFails, Unnoticed, SetupSteps, At, WrapTypeOK, RunThread, StopThread, OneHolder, RunHolds, StopHolds
<1>14. ASSUME NEW rc \in {"ok", "error"}, LoopTurn(rc) PROVE OneHolder'
  BY <1>14 DEF LoopTurn, Result, Cur, At, WrapTypeOK, RunThread, StopThread, OneHolder, RunHolds, StopHolds
<1>15. ASSUME NEW rc \in {"ok", "error"}, LoopEnds(rc) PROVE OneHolder'
  BY <1>15 DEF LoopEnds, Result, Cur, At, WrapTypeOK, RunThread, StopThread, OneHolder, RunHolds, StopHolds
<1>16. ASSUME NEW s \in Stoppers, StopLock(s) PROVE OneHolder'
  BY <1>16 DEF StopLock, Step, At, WrapTypeOK, RunThread, StopThread, OneHolder, RunHolds, StopHolds
<1>17. ASSUME NEW s \in Stoppers, StopNone(s) PROVE OneHolder'
  <2>1. s \in StopHolds /\ StopHolds = {s} /\ ~RunHolds /\ outer
    BY <1>17 DEF StopNone, OneHolder, StopHolds
  <2>2. RunHolds' <=> RunHolds
    BY <1>17 DEF StopNone, RunHolds, At
  <2>3. CASE product # "http"
    <3>1. StopHolds' = {} /\ ~outer'
      BY <1>17, <2>1, <2>3 DEF StopNone, Step, StopHolds, WrapTypeOK, RunThread, StopThread
    <3>2. QED
      BY <2>1, <2>2, <3>1 DEF OneHolder
  <2>4. CASE product = "http"
    <3>1. StopHolds' = {s} /\ outer'
      BY <1>17, <2>1, <2>4 DEF StopNone, Step, StopHolds, WrapTypeOK, RunThread, StopThread
    <3>2. QED
      BY <2>1, <2>2, <3>1 DEF OneHolder
  <2>5. QED
    BY <2>3, <2>4
<1>18. ASSUME NEW s \in Stoppers, StopSrvLock(s) PROVE OneHolder'
  BY <1>18 DEF StopSrvLock, Step, At, WrapTypeOK, RunThread, StopThread, OneHolder, RunHolds, StopHolds
<1>19. ASSUME NEW s \in Stoppers, StopSrv(s) PROVE OneHolder'
  BY <1>19 DEF StopSrv, Step, At, WrapTypeOK, RunThread, StopThread, OneHolder, RunHolds, StopHolds
<1>20. ASSUME NEW s \in Stoppers, StopUnlock(s) PROVE OneHolder'
  BY <1>20 DEF StopUnlock, Step, At, WrapTypeOK, RunThread, StopThread, OneHolder, RunHolds, StopHolds
<1>21. ASSUME UNCHANGED wrapVars PROVE OneHolder'
  BY <1>21 DEF wrapVars, At, WrapTypeOK, RunThread, StopThread, OneHolder, RunHolds, StopHolds
<1>22. QED
  BY <1>1, <1>2, <1>3, <1>4, <1>5, <1>6, <1>7, <1>8, <1>9, <1>10, <1>11, <1>12, <1>13, <1>14,
     <1>15, <1>16, <1>17, <1>18, <1>19, <1>20, <1>21 DEF WrapNext

\* A new server is made while no thread is in stop, and found only when its loop may run.
LEMMA FoundServerStep ==
    ASSUME WrapTypeOK, CurrentServer, OneHolder, FoundServer, ~misled', [WrapNext]_wrapVars
    PROVE  FoundServer'
<1> USE WrapperAssumption
<1>1. ASSUME RunLock PROVE FoundServer'
  BY <1>1 DEF RunLock, Go, At, WrapTypeOK, RunThread, StopThread, CurrentServer, Busy, OneHolder, RunHolds, StopHolds,
     FoundServer, Server
<1>2. ASSUME SrvLock PROVE FoundServer'
  BY <1>2 DEF SrvLock, Go, Cur, At, WrapTypeOK, RunThread, StopThread, CurrentServer, Busy, OneHolder, RunHolds,
     StopHolds, FoundServer, Server
<1>3. ASSUME Setup PROVE FoundServer'
  BY <1>3 DEF Setup, Go, At, WrapTypeOK, RunThread, StopThread, CurrentServer, Busy, OneHolder, RunHolds, StopHolds,
     FoundServer, Server
<1>4. ASSUME ServerReady PROVE FoundServer'
  BY <1>4 DEF ServerReady, Go, At, WrapTypeOK, RunThread, StopThread, CurrentServer, Busy, OneHolder, RunHolds,
     StopHolds, FoundServer, Server
<1>5. ASSUME SrvUnlock PROVE FoundServer'
  BY <1>5 DEF SrvUnlock, Go, At, WrapTypeOK, RunThread, StopThread, CurrentServer, Busy, OneHolder, RunHolds, StopHolds,
     FoundServer, Server
<1>6. ASSUME Drain PROVE FoundServer'
  BY <1>6 DEF Drain, Go, At, WrapTypeOK, RunThread, StopThread, CurrentServer, Busy, OneHolder, RunHolds, StopHolds,
     FoundServer, Server
<1>7. ASSUME SrvRelock PROVE FoundServer'
  BY <1>7 DEF SrvRelock, Go, Cur, At, WrapTypeOK, RunThread, StopThread, CurrentServer, Busy, OneHolder, RunHolds,
     StopHolds, FoundServer, Server
<1>8. ASSUME Clean PROVE FoundServer'
  BY <1>8 DEF Clean, Go, At, WrapTypeOK, RunThread, StopThread, CurrentServer, Busy, OneHolder, RunHolds, StopHolds,
     FoundServer, Server
<1>9. ASSUME RunRelock PROVE FoundServer'
  BY <1>9 DEF RunRelock, Go, At, WrapTypeOK, RunThread, StopThread, CurrentServer, Busy, OneHolder, RunHolds, StopHolds,
     FoundServer, Server
<1>10. ASSUME NoRelock PROVE FoundServer'
  BY <1>10 DEF NoRelock, Go, At, WrapTypeOK, RunThread, StopThread, CurrentServer, Busy, OneHolder, RunHolds, StopHolds,
     FoundServer, Server
<1>11. ASSUME RunFree PROVE FoundServer'
  BY <1>11 DEF RunFree, At, WrapTypeOK, RunThread, StopThread, CurrentServer, Busy, OneHolder, RunHolds, StopHolds,
     FoundServer, Server
<1>12. ASSUME NEW ok \in BOOLEAN, RunNew(ok) PROVE FoundServer'
  <2>1. StopHolds = {}
    BY <1>12 DEF RunNew, OneHolder, RunHolds, At
  <2>2. \A t \in Stoppers : stop[t].pc # "inside"
    BY <2>1 DEF StopHolds
  <2>3. run.srv \in Nat /\ MaxRuns \in Nat /\ \A t \in Stoppers : stop[t].srv \in 0 .. MaxRuns
    BY DEF WrapTypeOK, RunThread, StopThread
  <2>4. CASE ok
    <3>1. run'.pc = "locking" /\ run'.srv = run.srv + 1 /\ stop' = stop
      BY <1>12, <2>4 DEF RunNew, WrapTypeOK, RunThread, StopThread
    <3>2. \A t \in Stoppers : stop[t].srv \in 1 .. MaxRuns => obj'[stop[t].srv].running = obj[stop[t].srv].running
      BY <1>12, <2>4, SMTT(60) DEF RunNew, WrapTypeOK, RunThread, StopThread, Server
    <3>3. QED
      BY <2>2, <2>3, <3>1, <3>2 DEF FoundServer
  <2>5. CASE ~ok
    BY <1>12, <2>5 DEF RunNew, Go, At, WrapTypeOK, RunThread, StopThread, FoundServer
  <2>6. QED
    BY <2>4, <2>5
<1>13. ASSUME NEW step \in SetupSteps, SetupFails(step) PROVE FoundServer'
  BY <1>13 DEF SetupFails, Unnoticed, SetupSteps, At, WrapTypeOK, RunThread, StopThread, CurrentServer, Busy, OneHolder,
     RunHolds, StopHolds, FoundServer, Server
<1>14. ASSUME NEW rc \in {"ok", "error"}, LoopTurn(rc) PROVE FoundServer'
  BY <1>14 DEF LoopTurn, Result, Cur, At, WrapTypeOK, RunThread, StopThread, CurrentServer, Busy, OneHolder, RunHolds,
     StopHolds, FoundServer, Server
<1>15. ASSUME NEW rc \in {"ok", "error"}, LoopEnds(rc) PROVE FoundServer'
  BY <1>15 DEF LoopEnds, Result, Cur, At, WrapTypeOK, RunThread, StopThread, CurrentServer, Busy, OneHolder, RunHolds,
     StopHolds, FoundServer, Server
<1>16. ASSUME NEW s \in Stoppers, StopLock(s) PROVE FoundServer'
  BY <1>16 DEF StopLock, Step, At, WrapTypeOK, RunThread, StopThread, CurrentServer, Busy, OneHolder, RunHolds,
     StopHolds, FoundServer, Server
<1>17. ASSUME NEW s \in Stoppers, StopNone(s) PROVE FoundServer'
  BY <1>17 DEF StopNone, Step, At, WrapTypeOK, RunThread, StopThread, CurrentServer, Busy, OneHolder, RunHolds,
     StopHolds, FoundServer, Server
<1>18. ASSUME NEW s \in Stoppers, StopSrvLock(s) PROVE FoundServer'
  <2>1. ~RunHolds /\ s \in StopHolds
    BY <1>18 DEF StopSrvLock, OneHolder, StopHolds
  <2>2. run.pc \notin {"locking", "setup"} /\ sockSrv = run.srv /\ sockSrv # 0 /\ sockSrv \in 1 .. MaxRuns
    BY <1>18, <2>1 DEF StopSrvLock, RunHolds, At, CurrentServer, Busy
  <2>3. \A i \in 1 .. MaxRuns : obj'[i].running = obj[i].running
    BY <1>18 DEF StopSrvLock, WrapTypeOK, RunThread, StopThread, Server
  <2>4. stop'[s].pc = "inside" /\ stop'[s].srv = sockSrv /\ stop'[s].rc = stop[s].rc /\ run' = run
        /\ sockSrv' = sockSrv
    BY <1>18 DEF StopSrvLock, WrapTypeOK, RunThread, StopThread
  <2>5. \A t \in Stoppers \ {s} : stop'[t] = stop[t]
    BY <1>18 DEF StopSrvLock, WrapTypeOK, RunThread, StopThread
  <2>6. QED
    <3>1. run.srv \in 0 .. MaxRuns /\ \A t \in Stoppers : stop[t].srv \in 0 .. MaxRuns
      BY DEF WrapTypeOK, RunThread, StopThread
    <3>2. stop[s].rc = "none"
      BY <1>18 DEF StopSrvLock, FoundServer
    <3>3. ASSUME NEW t \in Stoppers, t # s
          PROVE  /\ stop'[t].pc = "inside" => stop'[t].srv = sockSrv' /\ sockSrv' # 0
                 /\ stop'[t].pc \in {"idle", "locked", "inside"} => stop'[t].rc = "none"
                 /\ stop'[t].srv <= run'.srv
                 /\ run'.pc \in {"locking", "setup"} => stop'[t].srv < run'.srv
                 /\ stop'[t].rc = "ok" => stop'[t].srv # 0 /\ ~obj'[stop'[t].srv].running
      BY <2>3, <2>4, <2>5, <3>1, <3>3 DEF FoundServer
    <3>4. QED
      BY <2>2, <2>4, <3>1, <3>2, <3>3 DEF FoundServer
<1>19. ASSUME NEW s \in Stoppers, StopSrv(s) PROVE FoundServer'
  BY <1>19 DEF StopSrv, Step, At, WrapTypeOK, RunThread, StopThread, CurrentServer, Busy, OneHolder, RunHolds,
     StopHolds, FoundServer, Server
<1>20. ASSUME NEW s \in Stoppers, StopUnlock(s) PROVE FoundServer'
  BY <1>20 DEF StopUnlock, Step, At, WrapTypeOK, RunThread, StopThread, CurrentServer, Busy, OneHolder, RunHolds,
     StopHolds, FoundServer, Server
<1>21. ASSUME UNCHANGED wrapVars PROVE FoundServer'
  BY <1>21, SMTT(60) DEF wrapVars, At, WrapTypeOK, RunThread, StopThread, CurrentServer, Busy, OneHolder, RunHolds, StopHolds,
     FoundServer, Server
<1>22. QED
  BY <1>1, <1>2, <1>3, <1>4, <1>5, <1>6, <1>7, <1>8, <1>9, <1>10, <1>11, <1>12, <1>13, <1>14,
     <1>15, <1>16, <1>17, <1>18, <1>19, <1>20, <1>21 DEF WrapNext

\* Once misled, always misled.
LEMMA MisledStays == ASSUME [WrapNext]_wrapVars, misled PROVE misled'
BY DEF WrapNext, wrapVars, RunLock, SrvLock, Setup, ServerReady, SrvUnlock, Drain, SrvRelock,
   Clean, RunRelock,
       NoRelock, RunFree, RunNew, SetupFails, LoopTurn, LoopEnds, StopLock, StopNone, StopSrvLock, StopSrv,
       StopUnlock

\* Every step preserves it.
LEMMA WrapInvStep == WrapInv /\ [WrapNext]_wrapVars => WrapInv'
<1> SUFFICES ASSUME WrapInv, [WrapNext]_wrapVars PROVE WrapInv'
  OBVIOUS
<1>1. WrapTypeOK' /\ CurrentServer'
  BY WrapTypeStep, CurrentServerStep DEF WrapInv
<1>2. ASSUME ~misled' PROVE OneHolder' /\ FoundServer'
  <2>1. ~misled
    BY <1>2, MisledStays
  <2>2. QED
    BY <1>2, <2>1, OneHolderStep, FoundServerStep DEF WrapInv
<1>3. QED
  BY <1>1, <1>2 DEF WrapInv

-----------------------------------------------------------------------------
\* For any number of threads that call stop of an NM or an HTTP server, and any
\* number of runs: while no run has misjudged whether server_ready was called,
\* stop_lock has one holder, stop works on a live socket server, and a stop that
\* returned VTM_OK is not undone by this run or a later one (nm_stream_server.c,
\* http_server.c and nm_dgram_server.c, run and stop).
THEOREM StopAlwaysReaches == WrapSpec => []StopReaches
<1>1. WrapInv => StopReaches
  <2> SUFFICES ASSUME WrapInv, ~misled PROVE OneHolder /\ \A s \in Stoppers :
                 /\ stop[s].pc = "inside" => obj[stop[s].srv].live /\ stop[s].srv = sockSrv
                 /\ stop[s].rc = "ok" => ~obj[stop[s].srv].running
    BY DEF StopReaches, OneHolder
  <2>1. OneHolder /\ FoundServer /\ CurrentServer
    BY DEF WrapInv
  <2>2. QED
    BY <2>1 DEF FoundServer, CurrentServer, Busy
<1>2. QED
  BY <1>1, WrapInvInit, WrapInvStep, PTL DEF WrapSpec

-----------------------------------------------------------------------------
(* The response.  What a client reads out of chunks.                       *)

Kinds == {"status", "te", "clen", "conn", "blank", "chunk", "raw", "emt", "junk"}
Toks == Kinds \X Nat

LEMMA TokIs ==
    ASSUME NEW k \in Kinds, NEW n \in Nat
    PROVE  <<k, n>> \in Toks /\ <<k, n>>[1] = k /\ <<k, n>>[2] = n
BY DEF Toks

\* One line of the recursion of Dechunk, and its solutions.
DecAt(f, s, i) ==
    IF i > Len(s) \/ s[i][1] # "chunk" \/ i + s[i][2] > Len(s) THEN <<Junk>>
    ELSE IF s[i][2] = 0 THEN (IF i = Len(s) THEN <<>> ELSE <<Junk>>)
    ELSE SubSeq(s, i + 1, i + s[i][2]) \o f[i + s[i][2] + 1]
Decodes(f, s) == f = [i \in 1 .. Len(s) + 1 |-> DecAt(f, s, i)]

LEMMA DecLocal ==
    ASSUME NEW s \in Seq(Toks), NEW i \in 1 .. Len(s) + 1, NEW f, NEW g,
           \A j \in i + 1 .. Len(s) + 1 : f[j] = g[j]
    PROVE  DecAt(f, s, i) = DecAt(g, s, i)
<1>1. CASE i > Len(s) \/ s[i][1] # "chunk" \/ i + s[i][2] > Len(s)
  BY <1>1 DEF DecAt
<1>2. CASE ~(i > Len(s) \/ s[i][1] # "chunk" \/ i + s[i][2] > Len(s))
  <2>1. i \in 1 .. Len(s) /\ s[i] \in Toks
    BY <1>2
  <2>2. s[i][2] \in Nat
    BY <2>1 DEF Toks
  <2> DEFINE k == s[i][2]
  <2>3. k # 0 => i + k + 1 \in i + 1 .. Len(s) + 1
    BY <1>2, <2>1, <2>2
  <2>4. k # 0 => f[i + k + 1] = g[i + k + 1]
    BY <2>3
  <2> QED BY <1>2, <2>4 DEF DecAt
<1> QED BY <1>1, <1>2

LEMMA DecodesExists ==
    ASSUME NEW s \in Seq(Toks)
    PROVE  \E f : Decodes(f, s)
<1> DEFINE Part(n, f) == \A i \in 1 .. Len(s) + 1 : i + n >= Len(s) + 1 => f[i] = DecAt(f, s, i)
           Some(n) == \E f : Part(n, f)
           Q == {n \in Nat : Some(n)}
<1>1. Some(0)
  <2> DEFINE g == [i \in 1 .. Len(s) + 1 |-> <<Junk>>]
  <2>1. ASSUME NEW i \in 1 .. Len(s) + 1, i + 0 >= Len(s) + 1 PROVE g[i] = DecAt(g, s, i)
    <3>1. i > Len(s)
      BY <2>1
    <3> QED BY <3>1 DEF DecAt
  <2>2. Part(0, g)
    BY <2>1
  <2> QED BY <2>2
<1>2. ASSUME NEW n \in Nat, Some(n) PROVE Some(n + 1)
  <2>1. PICK f : Part(n, f)
    BY <1>2
  <2> DEFINE g == [i \in 1 .. Len(s) + 1 |-> IF i + n >= Len(s) + 1 THEN f[i] ELSE DecAt(f, s, i)]
  <2>2. ASSUME NEW i \in 1 .. Len(s) + 1, i + (n + 1) >= Len(s) + 1 PROVE g[i] = DecAt(g, s, i)
    <3>1. \A j \in i + 1 .. Len(s) + 1 : f[j] = g[j]
      BY <2>2
    <3>2. DecAt(f, s, i) = DecAt(g, s, i)
      <4> HIDE DEF g
      <4> QED BY <3>1, DecLocal
    <3>3. g[i] = DecAt(f, s, i)
      <4>1. CASE i + n >= Len(s) + 1
        BY <2>1, <4>1
      <4>2. CASE ~(i + n >= Len(s) + 1)
        BY <4>2
      <4> QED BY <4>1, <4>2
    <3> QED BY <3>2, <3>3
  <2>3. Part(n + 1, g)
    <3> HIDE DEF g
    <3> QED BY <2>2
  <2> QED BY <2>3
<1>3. Nat \subseteq Q
  <2>1. 0 \in Q /\ \A n \in Nat : n \in Q => n + 1 \in Q
    <3> HIDE DEF Some
    <3> QED BY <1>1, <1>2
  <2> HIDE DEF Q
  <2> QED BY <2>1, SetInduction
<1>4. Some(Len(s))
  <2> HIDE DEF Some
  <2> QED BY <1>3, LenProperties
<1>5. PICK f : Part(Len(s), f)
  BY <1>4
<1> DEFINE h == [i \in 1 .. Len(s) + 1 |-> f[i]]
<1>6. ASSUME NEW i \in 1 .. Len(s) + 1 PROVE f[i] = DecAt(h, s, i)
  <2>1. f[i] = DecAt(f, s, i)
    BY <1>5, LenProperties
  <2>2. \A j \in i + 1 .. Len(s) + 1 : f[j] = h[j]
    OBVIOUS
  <2>3. DecAt(f, s, i) = DecAt(h, s, i)
    <3> HIDE DEF h
    <3> QED BY <2>2, DecLocal
  <2> QED BY <2>1, <2>3
<1>7. h = [i \in 1 .. Len(s) + 1 |-> DecAt(h, s, i)]
  <2>1. PICK d : d = h
    OBVIOUS
  <2>2. \A i \in 1 .. Len(s) + 1 : f[i] = DecAt(d, s, i)
    BY <1>6, <2>1
  <2>3. d = [i \in 1 .. Len(s) + 1 |-> f[i]]
    BY <2>1
  <2>4. d = [i \in 1 .. Len(s) + 1 |-> DecAt(d, s, i)]
    BY <2>2, <2>3
  <2> QED BY <2>1, <2>4
<1> QED BY <1>7 DEF Decodes

LEMMA DechunkIs ==
    ASSUME NEW s \in Seq(Toks)
    PROVE  \E f : Decodes(f, s) /\ Dechunk(s) = f[1]
<1>1. \E f : Decodes(f, s)
  BY DecodesExists
<1>2. Decodes(CHOOSE f : Decodes(f, s), s)
  BY <1>1
<1>3. Dechunk(s) = (CHOOSE f : Decodes(f, s))[1]
  BY DEF Dechunk, Decodes, DecAt
<1> QED BY <1>2, <1>3

LEMMA RawAre ==
    ASSUME NEW m \in Nat, NEW d \in Nat
    PROVE  /\ RawBytes(m, d) \in Seq(Toks) /\ Len(RawBytes(m, d)) = d
           /\ \A i \in 1 .. d : RawBytes(m, d)[i] = <<"raw", m + i>>
<1>1. \A i \in 1 .. d : <<"raw", m + i>> \in Toks
  <2>1. "raw" \in Kinds /\ \A i \in 1 .. d : m + i \in Nat
    BY DEF Kinds
  <2> QED BY <2>1, TokIs
<1> QED BY <1>1 DEF RawBytes

LEMMA RawsJoin ==
    ASSUME NEW m \in Nat, NEW d \in Nat, NEW r \in Nat
    PROVE  Cat(RawBytes(m, d), RawBytes(m + d, r)) = RawBytes(m, d + r)
<1>1. PICK a : a = RawBytes(m, d)
  OBVIOUS
<1>2. PICK b : b = RawBytes(m + d, r)
  OBVIOUS
<1>3. PICK c : c = RawBytes(m, d + r)
  OBVIOUS
<1>4. a \in Seq(Toks) /\ Len(a) = d /\ \A i \in 1 .. d : a[i] = <<"raw", m + i>>
  BY <1>1, RawAre
<1>5. m + d \in Nat /\ d + r \in Nat
  OBVIOUS
<1>6. b \in Seq(Toks) /\ Len(b) = r /\ \A i \in 1 .. r : b[i] = <<"raw", (m + d) + i>>
  BY <1>2, <1>5, RawAre
<1>7. c \in Seq(Toks) /\ Len(c) = d + r /\ \A i \in 1 .. d + r : c[i] = <<"raw", m + i>>
  BY <1>3, <1>5, RawAre
<1>8. PICK e : e = Cat(a, b)
  OBVIOUS
<1>9. /\ e \in Seq(Toks) /\ Len(e) = d + r
      /\ \A i \in 1 .. d : e[i] = a[i]
      /\ \A i \in d + 1 .. d + r : e[i] = b[i - d]
  BY <1>4, <1>6, <1>8, CatIs, ZenonT(60)
<1>10. ASSUME NEW i \in 1 .. d + r PROVE e[i] = c[i]
  <2>1. CASE i <= d
    <3>1. i \in 1 .. d
      BY <2>1
    <3>2. e[i] = a[i] /\ a[i] = <<"raw", m + i>>
      BY <3>1, <1>4, <1>9
    <3> QED BY <3>2, <1>7
  <2>2. CASE i > d
    <3>1. i - d \in 1 .. r /\ i \in d + 1 .. d + r
      BY <2>2
    <3>2. b[i - d] = <<"raw", (m + d) + (i - d)>>
      BY <3>1, <1>6
    <3>3. (m + d) + (i - d) = m + i
      OBVIOUS
    <3> QED BY <3>1, <3>2, <3>3, <1>7, <1>9
  <2> QED BY <2>1, <2>2
<1>11. e = c
  BY <1>7, <1>9, <1>10, SameSeq
<1> QED BY <1>1, <1>2, <1>3, <1>8, <1>11

\* The chunks a response has so far: ps has where each begins, and at last
\* where the next one will.  The bytes are numbered over all of them.
ChunkAt(B, a, b, j) ==
    /\ j <= a /\ a < b /\ b <= Len(B) + 1 /\ B[a] = <<"chunk", b - a - 1>>
    /\ \A i \in a + 1 .. b - 1 : B[i] = <<"raw", i - j>>
Chunks(B, ps) ==
    /\ B \in Seq(Toks) /\ ps \in Seq(Nat) /\ Len(ps) > 0
    /\ ps[1] = 1 /\ ps[Len(ps)] = Len(B) + 1
    /\ \A j \in 1 .. Len(ps) - 1 : ChunkAt(B, ps[j], ps[j + 1], j)
Full(ps) == \A j \in 1 .. Len(ps) - 1 : ps[j] + 1 < ps[j + 1]

LastChunk == <<<<"chunk", 0>>>>

\* One chunk is decoded.
LEMMA OneChunk ==
    ASSUME NEW B \in Seq(Toks), NEW s \in Seq(Toks), Len(s) = Len(B) + 1,
           \A i \in 1 .. Len(B) : s[i] = B[i],
           NEW a \in Nat, NEW b \in Nat, NEW j \in Nat \ {0}, ChunkAt(B, a, b, j), a + 1 < b,
           NEW f, Decodes(f, s), NEW r \in Nat, f[b] = RawBytes(b - (j + 1), r)
    PROVE  f[a] = RawBytes(a - j, (b - a - 1) + r)
<1>1. /\ j <= a /\ a + 1 < b /\ b <= Len(s) /\ s[a] = <<"chunk", b - a - 1>>
      /\ \A i \in a + 1 .. b - 1 : s[i] = <<"raw", i - j>>
      /\ a \in 1 .. Len(s) + 1 /\ b - a - 1 \in Nat /\ b - a - 1 # 0 /\ a - j \in Nat
  <2>1. /\ j <= a /\ a < b /\ b <= Len(B) + 1 /\ B[a] = <<"chunk", b - a - 1>>
        /\ \A i \in a + 1 .. b - 1 : B[i] = <<"raw", i - j>>
    BY DEF ChunkAt
  <2>2. a \in 1 .. Len(B) /\ a \in 1 .. Len(s) + 1 /\ b - a - 1 \in Nat /\ b - a - 1 # 0 /\ a - j \in Nat
    BY <2>1
  <2>3. \A i \in a + 1 .. b - 1 : i \in 1 .. Len(B)
    BY <2>1
  <2> QED BY <2>1, <2>2, <2>3
<1>2. PICK d \in Nat : d = b - a - 1
  BY <1>1
<1>3. s[a][1] = "chunk" /\ s[a][2] = d
  BY <1>1, <1>2
<1>4. f[a] = DecAt(f, s, a)
  BY <1>1 DEF Decodes
<1>5. ~(a > Len(s)) /\ ~(a + d > Len(s)) /\ d # 0 /\ a + d + 1 = b
  BY <1>1, <1>2
<1>6. DecAt(f, s, a) = SubSeq(s, a + 1, a + d) \o f[a + d + 1]
  BY <1>3, <1>5 DEF DecAt
<1>7. PICK p : p = SubSeq(s, a + 1, a + d)
  OBVIOUS
<1>8. PICK q : q = RawBytes(a - j, d)
  OBVIOUS
<1>9. p \in Seq(Toks) /\ Len(p) = d /\ \A i \in 1 .. d : p[i] = s[(a + 1) + i - 1]
  <2>1. a + 1 \in 1 .. Len(s) + 1 /\ a + d \in Nat /\ (a + 1) - 1 <= a + d /\ a + d <= Len(s)
    BY <1>1, <1>2
  <2>2. (a + d) - (a + 1) + 1 = d
    OBVIOUS
  <2> QED BY <1>7, <2>1, <2>2, CutIs
<1>10. q \in Seq(Toks) /\ Len(q) = d /\ \A i \in 1 .. d : q[i] = <<"raw", (a - j) + i>>
  BY <1>1, <1>8, RawAre
<1>11. ASSUME NEW i \in 1 .. d PROVE p[i] = q[i]
  <2>1. a + i \in a + 1 .. b - 1 /\ (a + 1) + i - 1 = a + i /\ (a + i) - j = (a - j) + i
    <3>1. i \in Nat /\ 1 <= i /\ i <= d
      OBVIOUS
    <3>2. b - 1 = a + d
      BY <1>2, SMTT(60)
    <3>3. a + i \in a + 1 .. a + d
      BY <3>1, SMTT(60)
    <3>4. (a + 1) + i - 1 = a + i /\ (a + i) - j = (a - j) + i
      BY <3>1, SMTT(60)
    <3> QED BY <3>2, <3>3, <3>4
  <2>2. p[i] = s[a + i]
    BY <1>9, <2>1
  <2>3. s[a + i] = <<"raw", (a + i) - j>>
    BY <1>1, <2>1
  <2> QED BY <1>10, <2>1, <2>2, <2>3
<1>12. p = q
  BY <1>9, <1>10, <1>11, SameSeq
<1>13. b - (j + 1) = (a - j) + d
  BY <1>2
<1>14. f[a] = Cat(RawBytes(a - j, d), RawBytes((a - j) + d, r))
  BY <1>4, <1>5, <1>6, <1>7, <1>8, <1>12, <1>13 DEF Cat
<1> QED BY <1>1, <1>2, <1>14, RawsJoin

\* All of them are, whatever their number.
LEMMA Dechunked ==
    ASSUME NEW B, NEW ps, Chunks(B, ps), Full(ps)
    PROVE  Len(B) + 1 - Len(ps) \in Nat /\ Dechunk(Cat(B, LastChunk)) = RawBytes(0, Len(B) + 1 - Len(ps))
<1>0. B \in Seq(Toks) /\ Len(B) \in Nat /\ ps \in Seq(Nat) /\ Len(ps) \in Nat \ {0}
  BY DEF Chunks
<1>1. PICK s : s = Cat(B, LastChunk)
  OBVIOUS
<1>2. s \in Seq(Toks) /\ Len(s) = Len(B) + 1 /\ (\A i \in 1 .. Len(B) : s[i] = B[i]) /\ s[Len(B) + 1] = <<"chunk", 0>>
  <2>1. PICK c : c = LastChunk
    OBVIOUS
  <2>2. <<"chunk", 0>> \in Toks
    <3>1. "chunk" \in Kinds
      BY DEF Kinds
    <3> QED BY <3>1, TokIs
  <2>3. c \in Seq(Toks) /\ Len(c) = 1 /\ c[1] = <<"chunk", 0>>
    BY <2>1, <2>2 DEF LastChunk
  <2>4. /\ s \in Seq(Toks) /\ Len(s) = Len(B) + Len(c)
        /\ \A i \in 1 .. Len(B) : s[i] = B[i]
        /\ \A i \in Len(B) + 1 .. Len(B) + Len(c) : s[i] = c[i - Len(B)]
    BY <1>0, <1>1, <2>1, <2>3, CatIs, ZenonT(60)
  <2>5. Len(B) + 1 \in Len(B) + 1 .. Len(B) + 1 /\ (Len(B) + 1) - Len(B) = 1
    BY <1>0
  <2> QED BY <2>3, <2>4, <2>5
<1>3. PICK f : Decodes(f, s) /\ Dechunk(s) = f[1]
  BY <1>2, DechunkIs
<1> DEFINE L == Len(ps)
           T == Len(B) + 1 - L
           ReadAt(j) == /\ ps[j] - j <= T
                        /\ f[ps[j]] = RawBytes(ps[j] - j, T - (ps[j] - j))
           Q == {n \in Nat : n < L => ReadAt(L - n)}
<1>4. L <= Len(B) + 1
  <2>0. PICK l \in Nat : l = L
    BY <1>0
  <2>1. CASE l = 1
    BY <1>0, <2>0, <2>1
  <2>2. CASE l > 1
    <3>1. PICK k \in Nat : k = l - 1
      BY <2>2
    <3>2. k \in 1 .. l - 1 /\ k + 1 = l /\ k \in 1 .. l /\ l \in 1 .. l
      BY <2>2, <3>1
    <3>3. ChunkAt(B, ps[k], ps[k + 1], k) /\ ps[l] = Len(B) + 1
      BY <2>0, <3>2 DEF Chunks
    <3>4. ps[k] \in Nat /\ ps[l] \in Nat
      BY <1>0, <2>0, <3>2
    <3>5. k <= ps[k] /\ ps[k] < ps[l]
      BY <3>2, <3>3 DEF ChunkAt
    <3>6. l <= Len(B) + 1
      BY <1>0, <3>2, <3>3, <3>4, <3>5
    <3> QED BY <2>0, <3>6
  <2>3. l # 0
    BY <1>0, <2>0
  <2> QED BY <2>1, <2>2, <2>3
<1>5. ReadAt(L)
  <2>1. ps[L] = Len(s) /\ ps[L] - L = T
    BY <1>2 DEF Chunks
  <2>2. f[Len(s)] = DecAt(f, s, Len(s))
    BY <1>2, <1>3 DEF Decodes
  <2>3. s[Len(s)][1] = "chunk" /\ s[Len(s)][2] = 0
    BY <1>2
  <2>4. DecAt(f, s, Len(s)) = <<>>
    BY <1>0, <1>2, <2>3 DEF DecAt
  <2>5. T - T = 0 /\ T <= T
    BY <1>0
  <2>6. RawBytes(T, 0) = <<>>
    BY DEF RawBytes
  <2> QED BY <2>1, <2>2, <2>4, <2>5, <2>6
<1>6. ASSUME NEW j \in 1 .. L - 1, ReadAt(j + 1) PROVE ReadAt(j)
  <2>1. ChunkAt(B, ps[j], ps[j + 1], j) /\ ps[j] + 1 < ps[j + 1] /\ ps[j] \in Nat /\ ps[j + 1] \in Nat
    BY <1>0 DEF Chunks, Full
  <2>2. PICK a \in Nat : a = ps[j]
    BY <2>1
  <2>3. PICK b \in Nat : b = ps[j + 1]
    BY <2>1
  <2>4. j \in Nat \ {0} /\ j <= a /\ a < b /\ L \in Nat /\ T \in Int
    BY <1>0, <2>1, <2>2, <2>3 DEF ChunkAt
  <2>5. b - (j + 1) <= T /\ f[b] = RawBytes(b - (j + 1), T - (b - (j + 1)))
    BY <1>6, <2>3
  <2> HIDE DEF T
  <2>6. PICK r \in Nat : r = T - (b - (j + 1))
    BY <2>4, <2>5
  <2>7. f[a] = RawBytes(a - j, (b - a - 1) + r)
    <3>1. ChunkAt(B, a, b, j) /\ a + 1 < b /\ f[b] = RawBytes(b - (j + 1), r)
      BY <2>1, <2>2, <2>3, <2>5, <2>6
    <3>2. /\ B \in Seq(Toks) /\ s \in Seq(Toks) /\ Len(s) = Len(B) + 1
          /\ \A i \in 1 .. Len(B) : s[i] = B[i]
      BY <1>0, <1>2
    <3>3. j \in Nat \ {0} /\ Decodes(f, s)
      BY <1>3, <2>4
    <3> HIDE DEF L, ReadAt, Q
    <3> QED BY <3>1, <3>2, <3>3, OneChunk, SMTT(60)
  <2>8. (b - a - 1) + r = T - (a - j) /\ a - j <= T
    BY <2>4, <2>5, <2>6
  <2> QED BY <2>2, <2>7, <2>8
<1>7. Nat \subseteq Q
  <2>1. 0 \in Q
    <3>1. L - 0 = L
      BY <1>0
    <3> HIDE DEF ReadAt
    <3> QED BY <1>5, <3>1
  <2>2. ASSUME NEW n \in Nat, n \in Q PROVE n + 1 \in Q
    <3> SUFFICES ASSUME n + 1 < L PROVE ReadAt(L - (n + 1))
      OBVIOUS
    <3>1. ReadAt(L - n)
      <4> HIDE DEF ReadAt
      <4> QED BY <1>0, <2>2
    <3>2. L - (n + 1) \in 1 .. L - 1 /\ (L - (n + 1)) + 1 = L - n
      BY <1>0
    <3> HIDE DEF ReadAt
    <3> QED BY <1>6, <3>1, <3>2
  <2> HIDE DEF Q
  <2> QED BY <2>1, <2>2, SetInduction
<1>8. ReadAt(1)
  <2>1. L - 1 \in Nat /\ L - (L - 1) = 1 /\ L - 1 < L
    BY <1>0
  <2> HIDE DEF ReadAt
  <2> QED BY <1>7, <2>1
<1>9. ps[1] = 1 /\ 1 - 1 = 0 /\ T \in Nat /\ T - 0 = T
  BY <1>0, <1>4 DEF Chunks
<1>10. f[1] = RawBytes(0, T)
  <2> HIDE DEF T
  <2> QED BY <1>8, <1>9
<1> QED BY <1>1, <1>3, <1>9, <1>10

LEMMA CatGroups ==
    ASSUME NEW a \in Seq(Toks), NEW b \in Seq(Toks), NEW c \in Seq(Toks)
    PROVE  Cat(Cat(a, b), c) = Cat(a, Cat(b, c)) /\ Cat(a, <<>>) = a /\ Cat(<<>>, a) = a
<1>1. Cat(Cat(a, b), c) = Cat(a, Cat(b, c))
  BY CatSame
<1> QED BY <1>1 DEF Cat

-----------------------------------------------------------------------------
(* What a client reads out of the head.                                    *)

Acts == {"CLOSE", "KEEP", "UPGRADE"}
BlankTok == <<"blank", 0>>
Seconds == {<<"te", 0>>} \cup {<<"clen", n>> : n \in Nat}

\* The tokens of a head: the status line, Transfer-Encoding or Content-Length,
\* Connection unless the connection is upgraded, the blank line.
HeadOf(t, act) == ((Tok("status", 0) \o <<t>>) \o ConTok(act)) \o Tok("blank", 0)

LEMMA SecondIs ==
    ASSUME NEW t \in Seconds
    PROVE  /\ t \in Toks /\ t # BlankTok /\ t[1] # "conn" /\ t[2] \in Nat
           /\ (t[1] = "te" /\ t[1] # "clen") \/ (t[1] = "clen" /\ t[1] # "te")
<1>1. "te" \in Kinds /\ "clen" \in Kinds
  BY DEF Kinds
<1>2. CASE t = <<"te", 0>>
  <2>1. t \in Toks /\ t[1] = "te" /\ t[2] = 0
    BY <1>1, <1>2, TokIs
  <2> QED BY <2>1 DEF BlankTok
<1>3. ASSUME NEW n \in Nat, t = <<"clen", n>>
      PROVE  /\ t \in Toks /\ t # BlankTok /\ t[1] # "conn" /\ t[2] \in Nat
             /\ (t[1] = "te" /\ t[1] # "clen") \/ (t[1] = "clen" /\ t[1] # "te")
  <2>1. t \in Toks /\ t[1] = "clen" /\ t[2] = n
    BY <1>1, <1>3, TokIs
  <2> QED BY <2>1 DEF BlankTok
<1> QED BY <1>2, <1>3 DEF Seconds

\* A token more.
LEMMA TokenMore ==
    ASSUME NEW s \in Seq(Toks), NEW x \in Toks
    PROVE  /\ Cat(s, <<x>>) \in Seq(Toks) /\ Len(Cat(s, <<x>>)) = Len(s) + 1
           /\ \A i \in 1 .. Len(s) : Cat(s, <<x>>)[i] = s[i]
           /\ Cat(s, <<x>>)[Len(s) + 1] = x
<1>1. PICK o : o = <<x>>
  OBVIOUS
<1>2. o \in Seq(Toks) /\ Len(o) = 1 /\ o[1] = x
  BY <1>1
<1>3. /\ Cat(s, o) \in Seq(Toks) /\ Len(Cat(s, o)) = Len(s) + Len(o)
      /\ \A i \in 1 .. Len(s) : Cat(s, o)[i] = s[i]
      /\ \A i \in Len(s) + 1 .. Len(s) + Len(o) : Cat(s, o)[i] = o[i - Len(s)]
  BY <1>2, CatIs
<1>4. Len(s) + 1 \in Len(s) + 1 .. Len(s) + 1 /\ (Len(s) + 1) - Len(s) = 1
  OBVIOUS
<1> QED BY <1>1, <1>2, <1>3, <1>4

LEMMA HeadIs ==
    ASSUME NEW t \in Seconds, NEW act \in Acts
    PROVE  /\ HeadOf(t, act) \in Seq(Toks)
           /\ HeadOf(t, act)[1] = <<"status", 0>> /\ HeadOf(t, act)[2] = t
           /\ act = "UPGRADE" => Len(HeadOf(t, act)) = 3 /\ HeadOf(t, act)[3] = BlankTok
           /\ act = "CLOSE" => Len(HeadOf(t, act)) = 4 /\ HeadOf(t, act)[3] = <<"conn", 0>> /\ HeadOf(t, act)[4] = BlankTok
           /\ act = "KEEP" => Len(HeadOf(t, act)) = 4 /\ HeadOf(t, act)[3] = <<"conn", 1>> /\ HeadOf(t, act)[4] = BlankTok
<1>1. "status" \in Kinds /\ "conn" \in Kinds /\ "blank" \in Kinds
  BY DEF Kinds
<1>2. PICK a : a = <<"status", 0>>
  OBVIOUS
<1>3. PICK b : b = BlankTok
  OBVIOUS
<1>4. a \in Toks /\ b \in Toks /\ t \in Toks /\ <<"conn", 0>> \in Toks /\ <<"conn", 1>> \in Toks
  BY <1>1, <1>2, <1>3, TokIs, SecondIs DEF BlankTok
<1>5. PICK p : p = Cat(<<a>>, <<t>>)
  OBVIOUS
<1>6. p \in Seq(Toks) /\ Len(p) = 2 /\ p[1] = a /\ p[2] = t
  <2>1. PICK o : o = <<a>>
    OBVIOUS
  <2>2. o \in Seq(Toks) /\ Len(o) = 1 /\ o[1] = a
    BY <1>4, <2>1
  <2>3. /\ p \in Seq(Toks) /\ Len(p) = Len(o) + 1 /\ p[Len(o) + 1] = t
        /\ \A i \in 1 .. Len(o) : p[i] = o[i]
    BY <1>4, <1>5, <2>1, <2>2, TokenMore, ZenonT(60)
  <2>4. 1 + 1 = 2 /\ 1 \in 1 .. 1
    OBVIOUS
  <2> QED BY <2>2, <2>3, <2>4
<1>7. CASE act = "UPGRADE"
  <2>1. HeadOf(t, act) = Cat(Cat(p, <<>>), <<b>>)
    BY <1>2, <1>3, <1>5, <1>7 DEF HeadOf, ConTok, Tok, BlankTok, Cat
  <2>2. Cat(p, <<>>) = p
    BY <1>6, CatGroups
  <2>3. PICK h : h = Cat(p, <<b>>)
    OBVIOUS
  <2>4. h \in Seq(Toks) /\ Len(h) = 3 /\ h[1] = a /\ h[2] = t /\ h[3] = b
    <3>1. /\ h \in Seq(Toks) /\ Len(h) = Len(p) + 1 /\ h[Len(p) + 1] = b
          /\ \A i \in 1 .. Len(p) : h[i] = p[i]
      BY <1>4, <1>6, <2>3, TokenMore
    <3>2. 2 + 1 = 3 /\ 1 \in 1 .. 2 /\ 2 \in 1 .. 2
      OBVIOUS
    <3> QED BY <1>4, <1>6, <3>1, <3>2
  <2>5. HeadOf(t, act) = h
    BY <2>1, <2>2, <2>3
  <2> QED BY <1>2, <1>3, <1>7, <2>4, <2>5
<1>8. ASSUME NEW c \in Toks, ConTok(act) = <<c>>
      PROVE  \E h \in Seq(Toks) : /\ HeadOf(t, act) = h /\ Len(h) = 4
                                 /\ h[1] = a /\ h[2] = t /\ h[3] = c /\ h[4] = b
  <2>1. HeadOf(t, act) = Cat(Cat(p, <<c>>), <<b>>)
    BY <1>2, <1>3, <1>5, <1>8 DEF HeadOf, Tok, BlankTok, Cat
  <2>2. PICK q : q = Cat(p, <<c>>)
    OBVIOUS
  <2>3. q \in Seq(Toks) /\ Len(q) = 3 /\ q[1] = a /\ q[2] = t /\ q[3] = c
    <3>1. /\ q \in Seq(Toks) /\ Len(q) = Len(p) + 1 /\ q[Len(p) + 1] = c
          /\ \A i \in 1 .. Len(p) : q[i] = p[i]
      BY <1>6, <2>2, TokenMore
    <3>2. 2 + 1 = 3 /\ 1 \in 1 .. 2 /\ 2 \in 1 .. 2
      OBVIOUS
    <3> QED BY <1>6, <2>2, <3>1, <3>2
  <2>4. PICK h : h = Cat(q, <<b>>)
    OBVIOUS
  <2>5. h \in Seq(Toks) /\ Len(h) = 4 /\ h[1] = a /\ h[2] = t /\ h[3] = c /\ h[4] = b
    <3>1. /\ h \in Seq(Toks) /\ Len(h) = Len(q) + 1 /\ h[Len(q) + 1] = b
          /\ \A i \in 1 .. Len(q) : h[i] = q[i]
      BY <1>4, <2>3, <2>4, TokenMore
    <3>2. 3 + 1 = 4 /\ 1 \in 1 .. 3 /\ 2 \in 1 .. 3 /\ 3 \in 1 .. 3
      OBVIOUS
    <3> QED BY <1>4, <2>3, <3>1, <3>2
  <2> QED BY <2>1, <2>2, <2>4, <2>5
<1>9. CASE act = "CLOSE"
  <2>1. ConTok(act) = <<<<"conn", 0>>>>
    BY <1>9 DEF ConTok, Tok
  <2> QED BY <1>2, <1>3, <1>4, <1>8, <1>9, <2>1
<1>10. CASE act = "KEEP"
  <2>1. ConTok(act) = <<<<"conn", 1>>>>
    BY <1>10 DEF ConTok, Tok
  <2> QED BY <1>2, <1>3, <1>4, <1>8, <1>10, <2>1
<1> QED BY <1>7, <1>9, <1>10 DEF Acts

\* The head ends where it should.
LEMMA HeadEnds ==
    ASSUME NEW s \in Seq(Toks), NEW k \in 1 .. Len(s), s[k] = BlankTok, \A i \in 1 .. k - 1 : s[i] # BlankTok
    PROVE  HeadEnd(s) = k
<1> DEFINE T == {i \in DOMAIN s : s[i] = <<"blank", 0>>}
<1>1. T \in SUBSET Nat /\ k \in T
  BY DEF BlankTok
<1>2. Min(T) \in T /\ \A y \in T : Min(T) <= y
  <2> HIDE DEF T
  <2> QED BY <1>1, MinOfNats
<1>3. PICK m \in T : m = Min(T)
  BY <1>2
<1>4. m \in Nat /\ m >= 1 /\ s[m] = BlankTok /\ m <= k
  <2>1. m \in DOMAIN s /\ s[m] = BlankTok
    BY <1>3 DEF BlankTok
  <2>2. m <= k
    <3> HIDE DEF T
    <3> QED BY <1>1, <1>2, <1>3
  <2> QED BY <2>1, <2>2
<1>5. ~(m < k)
  <2> SUFFICES ASSUME m < k PROVE FALSE
    OBVIOUS
  <2>1. m \in 1 .. k - 1
    BY <1>4
  <2> QED BY <1>4, <2>1
<1>6. m = k
  BY <1>4, <1>5
<1> QED BY <1>3, <1>6 DEF HeadEnd

LEMMA ArgIs ==
    ASSUME NEW s, NEW k \in Nat, HeadEnd(s) = k, NEW m \in 1 .. k, NEW t, s[m][1] = t,
           \A i \in 1 .. k : s[i][1] = t => i = m
    PROVE  HasTok(s, t) /\ ArgOf(s, t) = s[m][2]
<1>1. (CHOOSE i \in 1 .. HeadEnd(s) : s[i][1] = t) = m
  OBVIOUS
<1> QED BY <1>1 DEF HasTok, ArgOf

\* What the client finds in the head, and what it takes for the body.
Found(s, t, act, x) ==
    /\ HeadEnd(s) \in Nat /\ SubSeq(s, HeadEnd(s) + 1, Len(s)) = x
    /\ HasTok(s, "te") <=> t = <<"te", 0>>
    /\ t # <<"te", 0>> => ArgOf(s, "clen") = t[2]
    /\ IF act = "UPGRADE" THEN ~HasTok(s, "conn")
       ELSE HasTok(s, "conn") /\ <<<<"conn", ArgOf(s, "conn")>>>> = ConTok(act)

\* A part of a sequence, by what lies before it and its end.
LEMMA CutOf ==
    ASSUME NEW S, NEW a \in Seq(S), NEW i \in Nat, NEW j \in Nat, i <= j, j <= Len(a), NEW x, x = SubSeq(a, i + 1, j)
    PROVE  x \in Seq(S) /\ Len(x) = j - i /\ \A n \in 1 .. j - i : x[n] = a[i + n]
OBVIOUS

LEMMA RestIs ==
    ASSUME NEW S, NEW a \in Seq(S), NEW b \in Seq(S)
    PROVE  SubSeq(Cat(a, b), Len(a) + 1, Len(Cat(a, b))) = b
<1>1. PICK s : s = Cat(a, b)
  OBVIOUS
<1>2. PICK k \in Nat, n \in Nat : k = Len(a) /\ n = Len(b)
  BY LenProperties
<1>3. s \in Seq(S) /\ Len(s) = k + n /\ \A i \in k + 1 .. k + n : s[i] = b[i - k]
  BY <1>1, <1>2, CatIs, ZenonT(60)
<1>4. PICK u : u = SubSeq(s, k + 1, k + n)
  OBVIOUS
<1>5. u \in Seq(S) /\ Len(u) = n /\ \A i \in 1 .. n : u[i] = s[k + i]
  <2>1. PICK m \in Nat : m = k + n
    OBVIOUS
  <2>2. s \in Seq(S) /\ k <= m /\ m <= Len(s) /\ m - k = n
    BY <1>3, <2>1
  <2>3. u \in Seq(S) /\ Len(u) = m - k /\ \A i \in 1 .. m - k : u[i] = s[k + i]
    <3>1. u = SubSeq(s, k + 1, m)
      BY <1>4, <2>1
    <3>2. s \in Seq(S) /\ k <= m /\ m <= Len(s)
      BY <2>2
    <3> QED BY <3>1, <3>2, CutOf
  <2> QED BY <2>2, <2>3
<1>6. ASSUME NEW i \in 1 .. n PROVE u[i] = b[i]
  <2>1. k + i \in k + 1 .. k + n /\ (k + i) - k = i
    OBVIOUS
  <2> QED BY <1>3, <1>5, <2>1
<1>7. u = b
  BY <1>2, <1>5, <1>6, SameSeq
<1> QED BY <1>1, <1>2, <1>3, <1>4, <1>7

LEMMA HeadRead ==
    ASSUME NEW t \in Seconds, NEW act \in Acts, NEW x \in Seq(Toks)
    PROVE  Found(Cat(HeadOf(t, act), x), t, act, x)
<1>1. PICK h : h = HeadOf(t, act)
  OBVIOUS
<1>2. PICK s : s = Cat(h, x)
  OBVIOUS
<1>3. PICK k \in {3, 4} : Len(h) = k /\ h[k] = BlankTok
  BY <1>1, HeadIs DEF Acts
<1>4. /\ h \in Seq(Toks) /\ h[1] = <<"status", 0>> /\ h[2] = t
      /\ k = 3 <=> act = "UPGRADE"
      /\ act = "CLOSE" => h[3] = <<"conn", 0>>
      /\ act = "KEEP" => h[3] = <<"conn", 1>>
  BY <1>1, <1>3, HeadIs, SMTT(60) DEF Acts
<1>5. s \in Seq(Toks) /\ Len(s) >= k /\ \A i \in 1 .. k : s[i] = h[i]
  <2>1. /\ s \in Seq(Toks) /\ Len(s) = Len(h) + Len(x)
        /\ \A i \in 1 .. Len(h) : s[i] = h[i]
    BY <1>2, <1>4, CatIs
  <2> QED BY <1>3, <2>1
<1>6. /\ s[1] = <<"status", 0>> /\ s[2] = t /\ s[k] = BlankTok
      /\ act = "CLOSE" => s[3] = <<"conn", 0>>
      /\ act = "KEEP" => s[3] = <<"conn", 1>>
  <2>1. 1 \in 1 .. k /\ 2 \in 1 .. k /\ 3 \in 1 .. k /\ k \in 1 .. k
    BY <1>3
  <2> QED BY <1>3, <1>4, <1>5, <2>1
<1>7. /\ s[1][1] = "status" /\ s[2][1] = t[1] /\ s[2][2] = t[2] /\ s[k][1] = "blank"
      /\ act = "CLOSE" => s[3][1] = "conn" /\ s[3][2] = 0
      /\ act = "KEEP" => s[3][1] = "conn" /\ s[3][2] = 1
  BY <1>6 DEF BlankTok
<1>8. \A i \in 1 .. k : i = 1 \/ i = 2 \/ i = k \/ (i = 3 /\ act # "UPGRADE")
  BY <1>3, <1>4
<1>9. /\ t # BlankTok /\ t[1] # "conn" /\ t[1] \in {"te", "clen"}
      /\ t = <<"te", 0>> <=> t[1] = "te"
  <2>1. t[1] = "te" => t = <<"te", 0>>
    BY DEF Seconds
  <2> QED BY <2>1, SecondIs
<1>10. HeadEnd(s) = k
  <2>1. k \in 1 .. Len(s)
    BY <1>3, <1>5
  <2>2. ASSUME NEW i \in 1 .. k - 1 PROVE s[i] # BlankTok
    <3>1. i \in 1 .. k /\ i # k
      BY <1>3
    <3>2. i = 1 \/ i = 2 \/ (i = 3 /\ act # "UPGRADE")
      BY <1>8, <3>1
    <3>3. s[i][1] # "blank"
      BY <1>7, <1>9, <3>2 DEF Acts
    <3> QED BY <3>3 DEF BlankTok
  <2> QED BY <1>5, <1>6, <2>1, <2>2, HeadEnds
<1>11. SubSeq(s, k + 1, Len(s)) = x
  BY <1>2, <1>3, <1>4, RestIs
<1>12. ASSUME t[1] = "te" PROVE HasTok(s, "te")
  <2>1. 2 \in 1 .. k
    BY <1>3
  <2> QED BY <1>7, <1>10, <1>12, <2>1 DEF HasTok
<1>13. ASSUME t[1] = "clen" PROVE ~HasTok(s, "te") /\ ArgOf(s, "clen") = t[2]
  <2>1. ASSUME NEW i \in 1 .. k PROVE s[i][1] # "te" /\ (s[i][1] = "clen" => i = 2)
    BY <1>7, <1>8, <1>13 DEF Acts
  <2>2. k \in Nat /\ 2 \in 1 .. k
    BY <1>3
  <2>3. ArgOf(s, "clen") = s[2][2]
    BY <1>7, <1>10, <1>13, <2>1, <2>2, ArgIs, SMTT(60)
  <2> QED BY <1>7, <1>10, <2>1, <2>3 DEF HasTok
<1>14. ASSUME act = "UPGRADE" PROVE ~HasTok(s, "conn")
  <2>1. ASSUME NEW i \in 1 .. k PROVE s[i][1] # "conn"
    BY <1>7, <1>8, <1>9, <1>14
  <2> QED BY <1>10, <2>1 DEF HasTok
<1>15. ASSUME act # "UPGRADE" PROVE HasTok(s, "conn") /\ <<<<"conn", ArgOf(s, "conn")>>>> = ConTok(act)
  <2>1. k \in Nat /\ 3 \in 1 .. k /\ s[3][1] = "conn" /\ k = 4
    BY <1>3, <1>4, <1>7, <1>15 DEF Acts
  <2>2. ASSUME NEW i \in 1 .. k PROVE s[i][1] = "conn" => i = 3
    BY <1>7, <1>8, <1>9, <2>1
  <2>3. HasTok(s, "conn") /\ ArgOf(s, "conn") = s[3][2]
    BY <1>10, <2>1, <2>2, ArgIs
  <2> QED BY <1>7, <1>15, <2>3 DEF ConTok, Tok, Acts
<1>16. Found(s, t, act, x)
  <2>1. HasTok(s, "te") <=> t = <<"te", 0>>
    BY <1>9, <1>12, <1>13
  <2>2. t # <<"te", 0>> => ArgOf(s, "clen") = t[2]
    BY <1>9, <1>13
  <2>3. HeadEnd(s) \in Nat /\ SubSeq(s, HeadEnd(s) + 1, Len(s)) = x
    BY <1>3, <1>10, <1>11
  <2> QED BY <1>14, <1>15, <2>1, <2>2, <2>3, Zenon DEF Found
<1> QED BY <1>1, <1>2, <1>16

-----------------------------------------------------------------------------
(* The response. *)

RawAt(s) == {i \in DOMAIN s : s[i][1] = "raw"}

LEMMA NoRaws ==
    ASSUME NEW a \in Seq(Toks), NEW b \in Seq(Toks), \A i \in 1 .. Len(b) : b[i][1] # "raw"
    PROVE  RawAt(Cat(a, b)) = RawAt(a)
<1>1. PICK s : s = Cat(a, b)
  OBVIOUS
<1>2. PICK k \in Nat, n \in Nat : k = Len(a) /\ n = Len(b)
  BY LenProperties
<1>3. /\ s \in Seq(Toks) /\ Len(s) = k + n /\ (\A i \in 1 .. k : s[i] = a[i])
      /\ \A i \in k + 1 .. k + n : s[i] = b[i - k]
  BY <1>1, <1>2, CatIs, ZenonT(60)
<1>4. DOMAIN a = 1 .. k /\ DOMAIN s = 1 .. k + n
  BY <1>2, <1>3
<1>5. ASSUME NEW i \in 1 .. k + n, s[i][1] = "raw" PROVE i \in 1 .. k /\ a[i][1] = "raw"
  <2>1. CASE i <= k
    <3>1. i \in 1 .. k
      BY <2>1
    <3> QED BY <1>3, <1>5, <3>1
  <2>2. CASE i > k
    <3>1. i \in k + 1 .. k + n /\ i - k \in 1 .. n
      BY <2>2
    <3> QED BY <1>2, <1>3, <1>5, <3>1
  <2> QED BY <2>1, <2>2
<1>6. ASSUME NEW i \in 1 .. k, a[i][1] = "raw" PROVE i \in 1 .. k + n /\ s[i][1] = "raw"
  BY <1>3, <1>6
<1> QED BY <1>1, <1>4, <1>5, <1>6 DEF RawAt

LEMMA AllRaws ==
    ASSUME NEW a \in Seq(Toks), NEW b \in Seq(Toks), \A i \in 1 .. Len(b) : b[i][1] = "raw"
    PROVE  Cardinality(RawAt(Cat(a, b))) = Cardinality(RawAt(a)) + Len(b) /\ Cardinality(RawAt(a)) \in Nat
<1>1. PICK s : s = Cat(a, b)
  OBVIOUS
<1>2. PICK k \in Nat, n \in Nat : k = Len(a) /\ n = Len(b)
  BY LenProperties
<1>3. /\ s \in Seq(Toks) /\ Len(s) = k + n /\ (\A i \in 1 .. k : s[i] = a[i])
      /\ \A i \in k + 1 .. k + n : s[i] = b[i - k]
  BY <1>1, <1>2, CatIs, ZenonT(60)
<1>4. DOMAIN a = 1 .. k /\ DOMAIN s = 1 .. k + n
  BY <1>2, <1>3
<1>5. PICK A : A = RawAt(a)
  OBVIOUS
<1>6. A \subseteq 1 .. k
  BY <1>4, <1>5 DEF RawAt
<1>7. RawAt(s) = A \cup (k + 1 .. k + n)
  <2>1. ASSUME NEW i \in 1 .. k PROVE i \in RawAt(s) <=> i \in A
    <3>1. i \in DOMAIN s /\ i \in DOMAIN a /\ s[i] = a[i]
      BY <1>3, <1>4
    <3> QED BY <1>5, <3>1 DEF RawAt
  <2>2. ASSUME NEW i \in k + 1 .. k + n PROVE i \in RawAt(s)
    <3>1. i \in DOMAIN s /\ i - k \in 1 .. n
      BY <1>4
    <3>2. s[i][1] = "raw"
      BY <1>2, <1>3, <3>1
    <3> QED BY <3>1, <3>2 DEF RawAt
  <2>3. RawAt(s) \subseteq 1 .. k + n
    BY <1>4 DEF RawAt
  <2>4. \A i \in 1 .. k + n : i \in 1 .. k \/ i \in k + 1 .. k + n
    OBVIOUS
  <2> QED BY <1>6, <2>1, <2>2, <2>3, <2>4
<1>8. /\ IsFiniteSet(k + 1 .. k + n) /\ IsFiniteSet(1 .. k)
      /\ Cardinality(k + 1 .. k + n) = IF k + 1 > k + n THEN 0 ELSE (k + n) - (k + 1) + 1
  BY FS_Interval
<1>9. IsFiniteSet(A)
  BY <1>6, <1>8, FS_Subset
<1>10. Cardinality(k + 1 .. k + n) = n
  BY <1>8
<1>11. A \cap (k + 1 .. k + n) = {}
  BY <1>6
<1>12. Cardinality(A \cap (k + 1 .. k + n)) = 0
  BY <1>11, FS_EmptySet
<1>13. Cardinality(A) \in Nat
  BY <1>9, FS_CardinalityType
<1>14. PICK I : I = k + 1 .. k + n
  OBVIOUS
<1>15. Cardinality(A \cup I) = Cardinality(A) + Cardinality(I) - Cardinality(A \cap I)
  BY <1>8, <1>9, <1>14, FS_Union
<1> QED BY <1>1, <1>2, <1>5, <1>7, <1>10, <1>12, <1>13, <1>14, <1>15

Stages == {"UNINIT", "HEADER", "BODY", "COMPLETED"}
EmitterRec == [kind : {"none", "raw", "file"}, src : Seq(Toks), pos : Nat, buf : Seq(Toks), eof : BOOLEAN]
ResRec == [mode : {"FIXED", "CHUNKED"}, stage : Stages, act : Acts, buf : Seq(Toks), bodyBuf : Seq(Toks),
           bodySe : EmitterRec]

\* The emitter of the body has not begun.
BodyOK(se) ==
    \/ se = None
    \/ \E n \in Nat, k \in {"raw", "file"} : se = Emitter(k, EmtBytes(n))

TE == <<"te", 0>>
\* The chunks in the response, and that all its bytes are in them.
ChunksIn(buf, B, ps, e) == /\ Chunks(B, ps) /\ (~e => Full(ps))
                           /\ Cardinality(RawAt(buf)) = Len(B) + 1 - Len(ps)

\* A response that is being built: a body of fixed length is kept apart, chunks
\* follow the head in the buffer.
FixedBuild(r) ==
    /\ r.bodyBuf = RawBytes(0, Len(r.bodyBuf))
    /\ \/ r.stage = "UNINIT" /\ r.buf = <<>> /\ r.bodyBuf = <<>>
       \/ r.stage = "HEADER" /\ r.buf = Tok("status", 0)
ChunkBuild(r, e) ==
    \/ r.stage = "HEADER" /\ r.buf = Cat(Tok("status", 0), <<TE>>)
    \/ r.stage = "BODY" /\ \E B, ps : ChunksIn(r.buf, B, ps, e) /\ r.buf = Cat(HeadOf(TE, r.act), B)
BuildOK(r, e) ==
    /\ r \in ResRec /\ BodyOK(r.bodySe)
    /\ r.mode = "FIXED" => FixedBuild(r)
    /\ r.mode = "CHUNKED" => ChunkBuild(r, e)

\* A response that is complete in its buffer.
Complete(r, e) ==
    /\ r \in ResRec /\ BodyOK(r.bodySe)
    /\ r.mode = "FIXED" =>
         /\ r.bodyBuf = RawBytes(0, Len(r.bodyBuf))
         /\ r.buf = Cat(HeadOf(<<"clen", Len(r.bodyBuf) + Len(r.bodySe.src)>>, r.act), r.bodyBuf)
    /\ r.mode = "CHUNKED" =>
         \E B, ps : ChunksIn(r.buf, B, ps, e) /\ r.buf = Cat(HeadOf(TE, r.act), Cat(B, LastChunk))

\* What a file emitter has in its hands: without the end of the file the bytes
\* between what was taken and what was read, and no others.
FileOK(se, y) ==
    \/ /\ ~se.eof /\ se.pos <= Len(se.src) /\ Len(se.buf) <= se.pos /\ Len(se.buf) <= FileBuf
       /\ y = SubSeq(se.src, 1, se.pos - Len(se.buf))
       /\ se.buf = SubSeq(se.src, se.pos - Len(se.buf) + 1, se.pos)
    \/ /\ se.eof /\ se.pos = Len(se.src) /\ Len(se.buf) <= FileBuf
       /\ (\A i \in 1 .. Len(se.buf) : se.buf[i] = Junk) => y = se.src

\* What the socket has taken of the response's buffer, or of its body.
Sending(c, tk, r) ==
    \/ \E h \in EmitterRec :
         /\ c = (IF r.bodySe = None THEN <<h>> ELSE <<h, r.bodySe>>)
         /\ h.kind = "raw" /\ h.src = r.buf /\ h.pos <= Len(r.buf) /\ tk = SubSeq(r.buf, 1, h.pos)
    \/ \E se \in EmitterRec, y \in Seq(Toks) :
         /\ c = <<se>> /\ r.bodySe # None /\ se.src = r.bodySe.src /\ tk = Cat(r.buf, y)
         /\ \/ se.kind = "raw" /\ se.pos <= Len(se.src) /\ y = SubSeq(se.src, 1, se.pos)
            \/ se.kind = "file" /\ FileOK(se, y)
Sent(tk, r, ct) == \E y \in Seq(Toks) : tk = Cat(r.buf, y) /\ (~ct => y = r.bodySe.src)

ResInv ==
    /\ empty \in BOOLEAN /\ cut \in BOOLEAN /\ phase \in {"build", "send", "wait", "done", "failed"}
    /\ phase = "build" => BuildOK(rs, empty) /\ taken = <<>>
    /\ phase \in {"send", "wait"} => Complete(rs, empty) /\ Sending(chain, taken, rs)
    /\ phase = "done" => Complete(rs, empty) /\ Sent(taken, rs, cut)

LEMMA EmtAre ==
    ASSUME NEW n \in Nat
    PROVE  /\ EmtBytes(n) \in Seq(Toks) /\ Len(EmtBytes(n)) = n
           /\ \A i \in 1 .. n : EmtBytes(n)[i] # Junk
<1>1. \A i \in 1 .. n : <<"emt", i>> \in Toks /\ <<"emt", i>> # Junk
  <2>1. "emt" \in Kinds /\ \A i \in 1 .. n : i \in Nat
    BY DEF Kinds
  <2> QED BY <2>1, TokIs DEF Junk
<1> QED BY <1>1 DEF EmtBytes

LEMMA NoneIs ==
    /\ None \in EmitterRec /\ None.kind = "none" /\ None.src = <<>> /\ EmtBytes(0) = <<>>
<1>1. <<>> \in Seq(Toks)
  OBVIOUS
<1>2. None = [kind |-> "none", src |-> <<>>, pos |-> 0, buf |-> <<>>, eof |-> FALSE]
  BY DEF None, Emitter
<1>3. EmtBytes(0) = <<>>
  BY DEF EmtBytes
<1> QED BY <1>1, <1>2, <1>3 DEF EmitterRec

\* The body's emitter is to send numbered bytes.
LEMMA BodyIs ==
    ASSUME NEW se, BodyOK(se)
    PROVE  /\ se \in EmitterRec /\ se.src = EmtBytes(Len(se.src)) /\ se.src \in Seq(Toks) /\ Len(se.src) \in Nat
           /\ \A i \in 1 .. Len(se.src) : se.src[i] # Junk
           /\ se # None => se.kind \in {"raw", "file"} /\ se.pos = 0 /\ se.buf = <<>> /\ se.eof = FALSE
<1>1. CASE se = None
  <2>1. Len(se.src) = 0
    BY <1>1, NoneIs
  <2>2. se \in EmitterRec /\ se.src \in Seq(Toks) /\ se.src = EmtBytes(0)
    BY <1>1, NoneIs DEF EmitterRec
  <2>3. \A i \in 1 .. 0 : FALSE
    OBVIOUS
  <2> QED BY <1>1, <2>1, <2>2, <2>3
<1>2. ASSUME NEW n \in Nat, NEW k \in {"raw", "file"}, se = Emitter(k, EmtBytes(n))
      PROVE  /\ se \in EmitterRec /\ se.src = EmtBytes(Len(se.src)) /\ se.src \in Seq(Toks) /\ Len(se.src) \in Nat
             /\ \A i \in 1 .. Len(se.src) : se.src[i] # Junk
             /\ se # None => se.kind \in {"raw", "file"} /\ se.pos = 0 /\ se.buf = <<>> /\ se.eof = FALSE
  <2>1. PICK b : b = EmtBytes(n)
    OBVIOUS
  <2>2. b \in Seq(Toks) /\ Len(b) = n /\ \A i \in 1 .. n : b[i] # Junk
    BY <2>1, EmtAre
  <2>3. se = [kind |-> k, src |-> b, pos |-> 0, buf |-> <<>>, eof |-> FALSE]
    BY <1>2, <2>1 DEF Emitter
  <2>4. <<>> \in Seq(Toks)
    OBVIOUS
  <2>5. se.src = b /\ se.kind = k /\ se.pos = 0 /\ se.buf = <<>> /\ se.eof = FALSE
    BY <2>3
  <2>6. se \in EmitterRec
    BY <2>2, <2>3, <2>4 DEF EmitterRec
  <2> QED BY <2>1, <2>2, <2>5, <2>6
<1> QED BY <1>1, <1>2 DEF BodyOK

LEMMA ChunkedIs ==
    ASSUME NEW B, NEW ps, Chunks(B, ps)
    PROVE  B \in Seq(Toks) /\ Cat(B, LastChunk) \in Seq(Toks)
<1>1. <<"chunk", 0>> \in Toks
  <2>1. "chunk" \in Kinds
    BY DEF Kinds
  <2> QED BY <2>1, TokIs
<1>2. LastChunk \in Seq(Toks)
  BY <1>1 DEF LastChunk
<1> QED BY <1>2, CatIs DEF Chunks

\* What was sent is read as it was written.
LEMMA SentIsRead ==
    ASSUME phase = "done", ResInv
    PROVE  FramedAsWritten
<1>1. PICK y \in Seq(Toks) : taken = Cat(rs.buf, y) /\ (~cut => y = rs.bodySe.src)
  BY DEF ResInv, Sent
<1>2. /\ rs \in ResRec /\ BodyOK(rs.bodySe) /\ Complete(rs, empty)
  BY DEF ResInv, Complete
<1>3. rs.act \in Acts /\ rs.bodyBuf \in Seq(Toks) /\ rs.mode \in {"FIXED", "CHUNKED"}
  BY <1>2 DEF ResRec
<1>4. rs.bodySe.src = EmtBytes(Len(rs.bodySe.src)) /\ rs.bodySe.src \in Seq(Toks) /\ Len(rs.bodySe.src) \in Nat
  BY <1>2, BodyIs
<1>5. ASSUME NEW t \in Seconds, NEW x \in Seq(Toks), rs.buf = Cat(HeadOf(t, rs.act), x)
      PROVE  Found(taken, t, rs.act, Cat(x, y)) /\ Cat(x, y) \in Seq(Toks)
  <2>1. HeadOf(t, rs.act) \in Seq(Toks)
    BY <1>3, HeadIs
  <2>2. Cat(x, y) \in Seq(Toks)
    BY CatIs
  <2>3. taken = Cat(HeadOf(t, rs.act), Cat(x, y))
    BY <1>1, <1>5, <2>1, CatGroups
  <2> QED BY <1>3, <2>2, <2>3, HeadRead
<1>6. CASE rs.mode = "FIXED"
  <2>1. PICK n \in Nat : n = Len(rs.bodyBuf)
    BY <1>3
  <2>2. PICK m \in Nat : m = Len(rs.bodySe.src)
    BY <1>4
  <2>3. PICK t : t = <<"clen", n + m>>
    OBVIOUS
  <2>4. t \in Seconds /\ t # <<"te", 0>> /\ t[2] = n + m
    BY <2>3 DEF Seconds
  <2>5. rs.buf = Cat(HeadOf(t, rs.act), rs.bodyBuf) /\ rs.bodyBuf = RawBytes(0, n)
    BY <1>2, <1>6, <2>1, <2>2, <2>3 DEF Complete
  <2>6. Found(taken, t, rs.act, Cat(rs.bodyBuf, y))
    BY <1>3, <1>5, <2>4, <2>5
  <2>7. ASSUME ~cut PROVE ClientBody(taken) = RawBytes(0, n) \o EmtBytes(m)
    <3>1. y = EmtBytes(m) /\ Len(y) = m
      BY <1>1, <1>4, <2>2, <2>7
    <3>2. PICK z : z = Cat(rs.bodyBuf, y)
      OBVIOUS
    <3>3. Len(z) = n + m
      <4>1. Len(z) = Len(rs.bodyBuf) + Len(y)
        BY <1>3, <3>2, CatIs, ZenonT(60)
      <4> QED BY <2>1, <3>1, <4>1
    <3>4. /\ SubSeq(taken, HeadEnd(taken) + 1, Len(taken)) = z
          /\ ~HasTok(taken, "te") /\ ArgOf(taken, "clen") = n + m
      BY <2>4, <2>6, <3>2 DEF Found
    <3>5. ClientBody(taken) = z
      BY <3>3, <3>4 DEF ClientBody
    <3> QED BY <2>5, <3>1, <3>2, <3>5 DEF Cat
  <2>8. RawCount = n /\ EmtLen(rs.bodySe) = m
    BY <1>6, <2>1, <2>2 DEF RawCount, EmtLen
  <2>9. IF rs.act = "UPGRADE" THEN ~HasTok(taken, "conn")
        ELSE HasTok(taken, "conn") /\ <<<<"conn", ArgOf(taken, "conn")>>>> = ConTok(rs.act)
    BY <2>6 DEF Found
  <2> QED BY <2>7, <2>8, <2>9, Zenon DEF FramedAsWritten
<1>7. CASE rs.mode = "CHUNKED"
  <2>1. PICK B, ps : ChunksIn(rs.buf, B, ps, empty) /\ rs.buf = Cat(HeadOf(TE, rs.act), Cat(B, LastChunk))
    BY <1>2, <1>7 DEF Complete
  <2>2. Chunks(B, ps) /\ (~empty => Full(ps)) /\ Cardinality(RawAt(rs.buf)) = Len(B) + 1 - Len(ps)
    BY <2>1 DEF ChunksIn
  <2>3. PICK x \in Seq(Toks) : x = Cat(B, LastChunk)
    BY <2>2, ChunkedIs
  <2>4. TE \in Seconds
    BY DEF TE, Seconds
  <2>5. Found(taken, TE, rs.act, Cat(x, y))
    BY <1>5, <2>1, <2>3, <2>4
  <2>6. ASSUME ~cut, ~empty, rs.bodySe = None
        PROVE  ClientBody(taken) = RawBytes(0, RawCount) \o EmtBytes(EmtLen(rs.bodySe))
    <3>1. y = <<>>
      BY <1>1, <2>6, NoneIs
    <3>2. Cat(x, y) = x
      BY <3>1, CatGroups
    <3>3. SubSeq(taken, HeadEnd(taken) + 1, Len(taken)) = x /\ HasTok(taken, "te")
      BY <2>5, <3>2 DEF Found, TE
    <3>4. ClientBody(taken) = Dechunk(x)
      BY <3>3 DEF ClientBody
    <3>5. PICK c : c = Len(B) + 1 - Len(ps)
      OBVIOUS
    <3>6. c \in Nat /\ Dechunk(x) = RawBytes(0, c)
      BY <2>2, <2>3, <2>6, <3>5, Dechunked
    <3>7. RawCount = c
      BY <1>7, <2>2, <3>5 DEF RawCount, RawAt
    <3>8. EmtBytes(EmtLen(rs.bodySe)) = <<>>
      <4>1. EmtLen(rs.bodySe) = 0
        BY <2>6, NoneIs DEF EmtLen
      <4> QED BY <4>1, NoneIs
    <3>9. 0 \in Nat
      OBVIOUS
    <3>10. RawBytes(0, c) \in Seq(Toks)
      BY <3>6, <3>9, RawAre
    <3>11. Cat(RawBytes(0, c), <<>>) = RawBytes(0, c)
      BY <3>10, CatGroups
    <3> QED BY <3>4, <3>6, <3>7, <3>8, <3>11 DEF Cat
  <2>7. IF rs.act = "UPGRADE" THEN ~HasTok(taken, "conn")
        ELSE HasTok(taken, "conn") /\ <<<<"conn", ArgOf(taken, "conn")>>>> = ConTok(rs.act)
    BY <2>5 DEF Found
  <2> QED BY <1>7, <2>6, <2>7, Zenon DEF FramedAsWritten
<1> QED BY <1>3, <1>6, <1>7

-----------------------------------------------------------------------------
(* Building the response.                                                  *)

LEMMA TokType ==
    /\ Tok("status", 0) \in Seq(Toks) /\ Tok("te", 0) \in Seq(Toks) /\ Tok("blank", 0) \in Seq(Toks)
    /\ <<TE>> \in Seq(Toks) /\ <<>> \in Seq(Toks) /\ LastChunk \in Seq(Toks)
    /\ (\A n \in Nat : Tok("clen", n) \in Seq(Toks) /\ Tok("chunk", n) \in Seq(Toks))
    /\ \A act \in Acts : ConTok(act) \in Seq(Toks)
<1>1. /\ "status" \in Kinds /\ "te" \in Kinds /\ "blank" \in Kinds /\ "clen" \in Kinds /\ "chunk" \in Kinds
      /\ "conn" \in Kinds /\ 0 \in Nat /\ 1 \in Nat
  BY DEF Kinds
<1>2. ASSUME NEW k \in Kinds, NEW n \in Nat PROVE Tok(k, n) \in Seq(Toks)
  <2>1. PICK t : t = <<k, n>>
    OBVIOUS
  <2>2. t \in Toks
    BY <2>1, TokIs
  <2>3. <<t>> \in Seq(Toks)
    BY <2>2
  <2> QED BY <2>1, <2>3 DEF Tok
<1>3. <<TE>> = Tok("te", 0) /\ LastChunk = Tok("chunk", 0)
  BY DEF TE, Tok, LastChunk
<1>4. \A act \in Acts : ConTok(act) \in {Tok("conn", 0), Tok("conn", 1), <<>>}
  BY DEF ConTok, Acts
<1>5. <<>> \in Seq(Toks)
  OBVIOUS
<1>6. Tok("conn", 0) \in Seq(Toks) /\ Tok("conn", 1) \in Seq(Toks)
  BY <1>1, <1>2
<1> QED BY <1>1, <1>2, <1>3, <1>4, <1>5, <1>6

\* What each call does to the record.
LEMMA HeaderIs ==
    ASSUME NEW r \in ResRec, NEW tok \in Seq(Toks), NEW w, w = WithHeader(r, tok)
    PROVE  /\ w \in ResRec /\ w.mode = r.mode /\ w.act = r.act /\ w.stage = "HEADER"
           /\ w.buf = Cat(r.buf, tok) /\ w.bodyBuf = r.bodyBuf /\ w.bodySe = r.bodySe
<1>1. r.buf \in Seq(Toks)
  BY DEF ResRec
<1>2. PICK b : b = Cat(r.buf, tok)
  OBVIOUS
<1>3. b \in Seq(Toks)
  BY <1>1, <1>2, CatIs
<1>4. w = [r EXCEPT !.stage = "HEADER", !.buf = b]
  BY <1>2 DEF WithHeader, Cat
<1> QED BY <1>2, <1>3, <1>4 DEF ResRec, Stages

LEMMA ClosedIs ==
    ASSUME NEW r \in ResRec, NEW w, w = HeadersClosed(r)
    PROVE  /\ w \in ResRec /\ w.mode = r.mode /\ w.act = r.act
           /\ w.buf = Cat(Cat(r.buf, ConTok(r.act)), Tok("blank", 0))
           /\ w.bodyBuf = r.bodyBuf /\ w.bodySe = r.bodySe
<1>1. r.act \in Acts /\ r.buf \in Seq(Toks)
  BY DEF ResRec
<1>2. PICK h : h = IF r.act = "UPGRADE" THEN r ELSE WithHeader(r, ConTok(r.act))
  OBVIOUS
<1>3. /\ h \in ResRec /\ h.mode = r.mode /\ h.act = r.act /\ h.buf = Cat(r.buf, ConTok(r.act))
      /\ h.bodyBuf = r.bodyBuf /\ h.bodySe = r.bodySe
  <2>1. CASE r.act = "UPGRADE"
    <3>1. ConTok(r.act) = <<>> /\ h = r
      BY <1>2, <2>1 DEF ConTok
    <3>2. Cat(r.buf, <<>>) = r.buf
      BY <1>1, CatGroups
    <3> QED BY <3>1, <3>2
  <2>2. CASE r.act # "UPGRADE"
    <3>1. ConTok(r.act) \in Seq(Toks) /\ h = WithHeader(r, ConTok(r.act))
      BY <1>1, <1>2, <2>2, TokType
    <3> QED BY <3>1, HeaderIs
  <2> QED BY <2>1, <2>2
<1>4. PICK b : b = Cat(h.buf, Tok("blank", 0))
  OBVIOUS
<1>5. b \in Seq(Toks)
  <2>1. h.buf \in Seq(Toks)
    BY <1>3 DEF ResRec
  <2> QED BY <1>4, <2>1, TokType, CatIs
<1>6. w = [h EXCEPT !.buf = b]
  BY <1>2, <1>4 DEF HeadersClosed, Cat
<1> QED BY <1>3, <1>4, <1>5, <1>6 DEF ResRec

LEMMA WithChunkIs ==
    ASSUME NEW r \in ResRec, NEW bytes \in Seq(Toks), NEW w, w = WithChunk(r, bytes)
    PROVE  /\ w \in ResRec /\ w.mode = r.mode /\ w.act = r.act /\ w.stage = r.stage
           /\ w.buf = Cat(Cat(r.buf, Tok("chunk", Len(bytes))), bytes)
           /\ w.bodyBuf = r.bodyBuf /\ w.bodySe = r.bodySe
<1>1. r.buf \in Seq(Toks) /\ Tok("chunk", Len(bytes)) \in Seq(Toks)
  BY TokType, LenProperties DEF ResRec
<1>2. PICK b : b = Cat(Cat(r.buf, Tok("chunk", Len(bytes))), bytes)
  OBVIOUS
<1>3. b \in Seq(Toks)
  BY <1>1, <1>2, CatIs
<1>4. w = [r EXCEPT !.buf = b]
  BY <1>2 DEF WithChunk, Cat
<1> QED BY <1>2, <1>3, <1>4 DEF ResRec

LEMMA FewChunks ==
    ASSUME NEW B, NEW ps, Chunks(B, ps)
    PROVE  Len(B) + 1 - Len(ps) \in Nat /\ B \in Seq(Toks) /\ ps \in Seq(Nat) /\ Len(ps) \in Nat \ {0}
<1>0. B \in Seq(Toks) /\ Len(B) \in Nat /\ ps \in Seq(Nat) /\ Len(ps) \in Nat \ {0}
  BY DEF Chunks
<1>1. PICK l \in Nat : l = Len(ps)
  BY <1>0
<1>2. CASE l = 1
  BY <1>0, <1>1, <1>2
<1>3. CASE l > 1
  <2>1. PICK k \in Nat : k = l - 1
    BY <1>3
  <2>2. k \in 1 .. l - 1 /\ k + 1 = l /\ k \in 1 .. l /\ l \in 1 .. l
    BY <1>3, <2>1
  <2>3. ChunkAt(B, ps[k], ps[k + 1], k) /\ ps[l] = Len(B) + 1
    BY <1>1, <2>2 DEF Chunks
  <2>4. ps[k] \in Nat /\ ps[l] \in Nat
    BY <1>0, <1>1, <2>2
  <2>5. k <= ps[k] /\ ps[k] < ps[l]
    BY <2>2, <2>3 DEF ChunkAt
  <2>6. l <= Len(B) + 1
    BY <1>0, <2>2, <2>3, <2>4, <2>5
  <2> QED BY <1>0, <1>1, <2>6
<1>4. l # 0
  BY <1>0, <1>1
<1> QED BY <1>2, <1>3, <1>4

\* One more chunk.
MoreChunk(B, m, n) == Cat(Cat(B, Tok("chunk", n)), RawBytes(m, n))
NextStart(ps, C) == Append(ps, Len(C) + 1)

MoreShape(C, B, k, m, n) ==
    /\ C \in Seq(Toks) /\ Len(C) = k + 1 + n
    /\ (\A i \in 1 .. k : C[i] = B[i]) /\ C[k + 1] = <<"chunk", n>>
    /\ \A i \in k + 2 .. k + 1 + n : C[i] = <<"raw", m + (i - (k + 1))>>

LEMMA MoreIs ==
    ASSUME NEW B \in Seq(Toks), NEW n \in Nat, NEW m \in Nat, NEW k \in Nat, k = Len(B),
           NEW C, C = MoreChunk(B, m, n)
    PROVE  MoreShape(C, B, k, m, n)
<1>2. PICK t : t = Tok("chunk", n)
  OBVIOUS
<1>3. t \in Seq(Toks) /\ Len(t) = 1 /\ t[1] = <<"chunk", n>>
  <2>1. Tok("chunk", n) \in Seq(Toks)
    BY TokType
  <2> QED BY <1>2, <2>1 DEF Tok
<1>4. PICK D : D = Cat(B, t)
  OBVIOUS
<1>5. D \in Seq(Toks) /\ Len(D) = k + 1 /\ (\A i \in 1 .. k : D[i] = B[i]) /\ D[k + 1] = <<"chunk", n>>
  <2>1. /\ D \in Seq(Toks) /\ Len(D) = Len(B) + Len(t) /\ (\A i \in 1 .. Len(B) : D[i] = B[i])
        /\ \A i \in Len(B) + 1 .. Len(B) + Len(t) : D[i] = t[i - Len(B)]
    BY <1>3, <1>4, CatIs
  <2>2. k + 1 \in k + 1 .. k + 1 /\ (k + 1) - k = 1
    OBVIOUS
  <2> QED BY <1>3, <2>1, <2>2
<1>6. PICK R : R = RawBytes(m, n)
  OBVIOUS
<1>7. R \in Seq(Toks) /\ Len(R) = n /\ \A i \in 1 .. n : R[i] = <<"raw", m + i>>
  BY <1>6, RawAre
<1>8. C = Cat(D, R)
  BY <1>2, <1>4, <1>6 DEF MoreChunk
<1>9. /\ C \in Seq(Toks) /\ Len(C) = Len(D) + Len(R) /\ (\A i \in 1 .. Len(D) : C[i] = D[i])
      /\ \A i \in Len(D) + 1 .. Len(D) + Len(R) : C[i] = R[i - Len(D)]
  <2>1. D \in Seq(Toks) /\ R \in Seq(Toks)
    BY <1>5, <1>7
  <2>2. /\ Cat(D, R) \in Seq(Toks) /\ Len(Cat(D, R)) = Len(D) + Len(R)
        /\ (\A i \in 1 .. Len(D) : Cat(D, R)[i] = D[i])
        /\ \A i \in Len(D) + 1 .. Len(D) + Len(R) : Cat(D, R)[i] = R[i - Len(D)]
    BY <2>1, CatIs, Zenon
  <2> QED BY <1>8, <2>2, Zenon
<1>10. C[k + 1] = D[k + 1] /\ \A i \in 1 .. k : C[i] = D[i]
  <2>1. k + 1 \in 1 .. k + 1 /\ \A i \in 1 .. k : i \in 1 .. k + 1
    OBVIOUS
  <2> QED BY <1>5, <1>9, <2>1
<1>11. ASSUME NEW i \in k + 2 .. k + 1 + n PROVE C[i] = <<"raw", m + (i - (k + 1))>>
  <2>1. i \in (k + 1) + 1 .. (k + 1) + n /\ i - (k + 1) \in 1 .. n
    OBVIOUS
  <2> QED BY <1>5, <1>7, <1>9, <2>1
<1>12. Len(C) = k + 1 + n
  BY <1>5, <1>7, <1>9
<1> QED BY <1>5, <1>9, <1>10, <1>11, <1>12 DEF MoreShape

Grown(C, qs, ps, m, n) ==
    Chunks(C, qs) /\ Len(C) + 1 - Len(qs) = m + n /\ (Full(ps) /\ n > 0 => Full(qs))

LEMMA ChunkMore ==
    ASSUME NEW B, NEW ps, Chunks(B, ps), NEW n \in Nat, NEW m \in Nat, m = Len(B) + 1 - Len(ps),
           NEW C, C = MoreChunk(B, m, n), NEW qs, qs = NextStart(ps, C)
    PROVE  Grown(C, qs, ps, m, n)
<1>0. B \in Seq(Toks) /\ ps \in Seq(Nat) /\ Len(ps) \in Nat \ {0}
  BY FewChunks
<1>1. PICK k \in Nat, l \in Nat : k = Len(B) /\ l = Len(ps) /\ l > 0
  BY <1>0
<1>1a. m = k + 1 - l /\ l <= k + 1
  BY <1>1
<1>8. /\ C \in Seq(Toks) /\ Len(C) = k + 1 + n
      /\ (\A i \in 1 .. k : C[i] = B[i]) /\ C[k + 1] = <<"chunk", n>>
      /\ \A i \in k + 2 .. k + 1 + n : C[i] = <<"raw", m + (i - (k + 1))>>
  <2>1. k = Len(B) /\ B \in Seq(Toks)
    BY <1>0, <1>1
  <2>2. MoreShape(C, B, k, m, n)
    BY <2>1, MoreIs
  <2> QED BY <2>2 DEF MoreShape
<1>9. PICK z \in Nat : z = k + n + 2
  OBVIOUS
<1>10. Len(C) + 1 = z
  <2>1. Len(C) = k + 1 + n
    BY <1>8
  <2> QED BY <1>9, <2>1
<1>11. qs \in Seq(Nat) /\ Len(qs) = l + 1 /\ (\A j \in 1 .. l : qs[j] = ps[j]) /\ qs[l + 1] = z
  <2>1. PICK us : us = Append(ps, z)
    OBVIOUS
  <2>2. qs = us
    BY <1>10, <2>1 DEF NextStart
  <2>3. us \in Seq(Nat) /\ Len(us) = l + 1 /\ (\A j \in 1 .. l : us[j] = ps[j]) /\ us[l + 1] = z
    BY <1>0, <1>1, <2>1, AppendProperties
  <2> QED BY <2>2, <2>3
<1>12. qs[1] = 1
  <2>1. 1 \in 1 .. l
    BY <1>1
  <2> QED BY <1>11, <2>1 DEF Chunks
<1>13. ps[l] = k + 1
  BY <1>1 DEF Chunks
<1>14. ASSUME NEW j \in 1 .. l PROVE ChunkAt(C, qs[j], qs[j + 1], j)
  <2>1. CASE j < l
    <3>1. j \in 1 .. l - 1 /\ j + 1 \in 1 .. l
      BY <2>1
    <3>2. qs[j] = ps[j] /\ qs[j + 1] = ps[j + 1]
      BY <1>11, <3>1
    <3>3. ChunkAt(B, ps[j], ps[j + 1], j)
      BY <1>1, <3>1 DEF Chunks
    <3>4. PICK a \in Nat, b \in Nat : a = ps[j] /\ b = ps[j + 1]
      BY <1>0, <1>1, <3>1
    <3>5. /\ j <= a /\ a < b /\ b <= k + 1 /\ B[a] = <<"chunk", b - a - 1>>
          /\ \A i \in a + 1 .. b - 1 : B[i] = <<"raw", i - j>>
      BY <1>1, <3>3, <3>4 DEF ChunkAt
    <3>6. a \in 1 .. k /\ b <= Len(C) + 1 /\ \A i \in a + 1 .. b - 1 : i \in 1 .. k
      BY <1>8, <3>5
    <3>7. C[a] = <<"chunk", b - a - 1>> /\ \A i \in a + 1 .. b - 1 : C[i] = <<"raw", i - j>>
      BY <1>8, <3>5, <3>6
    <3>8. ChunkAt(C, a, b, j)
      BY <3>5, <3>6, <3>7 DEF ChunkAt
    <3> QED BY <3>2, <3>4, <3>8
  <2>2. CASE j = l
    <3>1. qs[j] = k + 1 /\ qs[j + 1] = z
      BY <1>11, <1>13, <2>2
    <3>2. l <= k + 1 /\ k + 1 < z /\ z <= Len(C) + 1 /\ z - (k + 1) - 1 = n
      BY <1>1a, <1>8, <1>9
    <3>3. ASSUME NEW i \in (k + 1) + 1 .. z - 1 PROVE C[i] = <<"raw", i - l>>
      <4>1. i \in k + 2 .. k + 1 + n /\ m + (i - (k + 1)) = i - l
        BY <1>1a, <1>9
      <4> QED BY <1>8, <4>1
    <3>4. ChunkAt(C, k + 1, z, l)
      BY <1>8, <3>2, <3>3 DEF ChunkAt
    <3> QED BY <2>2, <3>1, <3>4
  <2> QED BY <2>1, <2>2
<1>15. Chunks(C, qs)
  <2>1. Len(qs) > 0 /\ Len(qs) - 1 = l /\ qs[Len(qs)] = Len(C) + 1
    BY <1>10, <1>11
  <2> QED BY <1>8, <1>11, <1>12, <1>14, <2>1 DEF Chunks
<1>16. ASSUME Full(ps), n > 0 PROVE Full(qs)
  <2>1. ASSUME NEW j \in 1 .. l PROVE qs[j] + 1 < qs[j + 1]
    <3>1. CASE j < l
      <4>1. j \in 1 .. l - 1 /\ j + 1 \in 1 .. l
        BY <3>1
      <4> QED BY <1>1, <1>11, <1>16, <4>1 DEF Full
    <3>2. CASE j = l
      BY <1>9, <1>11, <1>13, <1>16, <3>2
    <3> QED BY <3>1, <3>2
  <2>2. Len(qs) - 1 = l
    BY <1>11
  <2> QED BY <2>1, <2>2 DEF Full
<1>17. Len(C) + 1 - Len(qs) = m + n
  BY <1>1a, <1>9, <1>10, <1>11
<1> QED BY <1>15, <1>16, <1>17 DEF Grown

LEMMA InitRes == ResInit => ResInv
<1> SUFFICES ASSUME ResInit PROVE ResInv
  OBVIOUS
<1>1. PICK a \in {"CLOSE", "KEEP"} : rs = Prepared(a)
  BY DEF ResInit
<1>2. rs = [mode |-> "FIXED", stage |-> "UNINIT", act |-> a, buf |-> <<>>, bodyBuf |-> <<>>, bodySe |-> None]
  BY <1>1 DEF Prepared
<1>3. <<>> \in Seq(Toks) /\ None \in EmitterRec /\ a \in Acts
  BY NoneIs, TokType DEF Acts
<1>4. rs \in ResRec
  BY <1>2, <1>3 DEF ResRec, Stages
<1>5. RawBytes(0, Len(<<>>)) = <<>>
  BY DEF RawBytes
<1>6. FixedBuild(rs) /\ rs.mode = "FIXED" /\ BodyOK(rs.bodySe)
  <2>1. rs.mode = "FIXED" /\ rs.stage = "UNINIT" /\ rs.buf = <<>> /\ rs.bodyBuf = <<>> /\ rs.bodySe = None
    BY <1>2
  <2>2. rs.bodyBuf = RawBytes(0, Len(rs.bodyBuf))
    BY <1>5, <2>1
  <2> QED BY <2>1, <2>2 DEF FixedBuild, BodyOK
<1>7. BuildOK(rs, empty)
  BY <1>4, <1>6 DEF BuildOK
<1> QED BY <1>7 DEF ResInit, ResInv

LEMMA BuildStep ==
    ASSUME ResInv, phase = "build", NEW R, Built(R), empty' \in BOOLEAN, BuildOK(R, empty')
    PROVE  ResInv'
<1>1. rs' = R /\ phase' = phase /\ taken' = taken /\ cut' = cut
  BY DEF Built
<1>2. BuildOK(rs', empty')
  BY <1>1
<1> QED BY <1>1, <1>2, Zenon DEF ResInv

LEMMA BeginRes ==
    ASSUME ResInv, NEW mode \in {"FIXED", "CHUNKED"}, Begin(mode)
    PROVE  ResInv'
<1>1. phase = "build" /\ rs.stage = "UNINIT" /\ empty' = empty /\ empty \in BOOLEAN /\ BuildOK(rs, empty)
  BY DEF Begin, Building, ResInv
<1>2. /\ rs \in ResRec /\ rs.buf = <<>> /\ rs.bodyBuf = <<>> /\ rs.bodyBuf = RawBytes(0, Len(rs.bodyBuf))
      /\ BodyOK(rs.bodySe)
  BY <1>1 DEF BuildOK, FixedBuild, ChunkBuild, ResRec
<1>3. PICK r0 : r0 = [rs EXCEPT !.mode = mode]
  OBVIOUS
<1>4. /\ r0 \in ResRec /\ r0.mode = mode /\ r0.buf = <<>> /\ r0.bodyBuf = rs.bodyBuf /\ r0.bodySe = rs.bodySe
  BY <1>2, <1>3 DEF ResRec
<1>5. PICK r1 : r1 = WithHeader(r0, Tok("status", 0))
  OBVIOUS
<1>6. Tok("status", 0) \in Seq(Toks) /\ <<TE>> \in Seq(Toks) /\ Tok("te", 0) = <<TE>>
  BY TokType DEF TE, Tok
<1>7. /\ r1 \in ResRec /\ r1.mode = mode /\ r1.stage = "HEADER" /\ r1.buf = Cat(<<>>, Tok("status", 0))
      /\ r1.bodyBuf = rs.bodyBuf /\ r1.bodySe = rs.bodySe
  BY <1>4, <1>5, <1>6, HeaderIs
<1>8. r1.buf = Tok("status", 0)
  BY <1>6, <1>7, CatGroups
<1>9. CASE mode = "FIXED"
  <2>1. Built(r1)
    BY <1>3, <1>5, <1>9 DEF Begin
  <2>2. BuildOK(r1, empty')
    BY <1>2, <1>7, <1>8, <1>9 DEF BuildOK, FixedBuild
  <2> QED BY <1>1, <2>1, <2>2, BuildStep
<1>10. CASE mode = "CHUNKED"
  <2>1. PICK r2 : r2 = WithHeader(r1, <<TE>>)
    OBVIOUS
  <2>2. /\ r2 \in ResRec /\ r2.mode = mode /\ r2.stage = "HEADER" /\ r2.buf = Cat(Tok("status", 0), <<TE>>)
        /\ r2.bodySe = rs.bodySe
    <3>1. /\ r2 \in ResRec /\ r2.mode = r1.mode /\ r2.stage = "HEADER" /\ r2.buf = Cat(r1.buf, <<TE>>)
          /\ r2.bodySe = r1.bodySe
      BY <1>6, <1>7, <2>1, HeaderIs, ZenonT(60)
    <3> QED BY <1>7, <1>8, <3>1
  <2>3. Built(r2)
    BY <1>3, <1>5, <1>6, <1>10, <2>1 DEF Begin
  <2>4. BuildOK(r2, empty')
    BY <1>2, <1>10, <2>2 DEF BuildOK, ChunkBuild
  <2> QED BY <1>1, <2>3, <2>4, BuildStep
<1> QED BY <1>9, <1>10

LEMMA ActionRes ==
    ASSUME ResInv, NEW act \in Acts, SetAction(act)
    PROVE  ResInv'
<1>1. /\ phase = "build" /\ rs.stage \notin {"BODY", "COMPLETED"} /\ empty' = empty /\ empty \in BOOLEAN
      /\ BuildOK(rs, empty)
  BY DEF SetAction, Building, ResInv
<1>2. PICK r : r = [rs EXCEPT !.act = act]
  OBVIOUS
<1>3. rs \in ResRec
  BY <1>1 DEF BuildOK
<1>4. /\ r \in ResRec /\ r.mode = rs.mode /\ r.stage = rs.stage /\ r.buf = rs.buf /\ r.bodyBuf = rs.bodyBuf
      /\ r.bodySe = rs.bodySe
  BY <1>2, <1>3 DEF ResRec
<1>5. BodyOK(r.bodySe)
  BY <1>1, <1>4 DEF BuildOK
<1>6. r.mode = "FIXED" => FixedBuild(r)
  BY <1>1, <1>4 DEF BuildOK, FixedBuild
<1>7. r.mode = "CHUNKED" => ChunkBuild(r, empty')
  BY <1>1, <1>4 DEF BuildOK, ChunkBuild
<1>8. BuildOK(r, empty')
  BY <1>4, <1>5, <1>6, <1>7 DEF BuildOK
<1>9. Built(r)
  BY <1>2 DEF SetAction
<1> QED BY <1>1, <1>8, <1>9, BuildStep

LEMMA EmtRes ==
    ASSUME ResInv, NEW se, BodyOK(se), BodyEmt(se)
    PROVE  ResInv'
<1>1. phase = "build" /\ empty' = empty /\ empty \in BOOLEAN /\ BuildOK(rs, empty)
  BY DEF BodyEmt, Building, ResInv
<1>2. PICK r : r = [rs EXCEPT !.bodySe = se]
  OBVIOUS
<1>3. rs \in ResRec /\ se \in EmitterRec
  BY <1>1, BodyIs DEF BuildOK
<1>4. /\ r \in ResRec /\ r.mode = rs.mode /\ r.stage = rs.stage /\ r.buf = rs.buf /\ r.bodyBuf = rs.bodyBuf
      /\ r.bodySe = se /\ r.act = rs.act
  BY <1>2, <1>3 DEF ResRec
<1>5. r.mode = "FIXED" => FixedBuild(r)
  BY <1>1, <1>4 DEF BuildOK, FixedBuild
<1>6. r.mode = "CHUNKED" => ChunkBuild(r, empty')
  BY <1>1, <1>4, Zenon DEF BuildOK, ChunkBuild
<1>7. BuildOK(r, empty')
  BY <1>4, <1>5, <1>6 DEF BuildOK
<1>8. Built(r)
  BY <1>2 DEF BodyEmt
<1> QED BY <1>1, <1>7, <1>8, BuildStep

\* The head of a chunked response has no bytes of the body.
LEMMA HeadNoRaw ==
    ASSUME NEW act \in Acts
    PROVE  /\ HeadOf(TE, act) \in Seq(Toks) /\ RawAt(HeadOf(TE, act)) = {}
           /\ RawAt(Cat(Tok("status", 0), <<TE>>)) = {}
           /\ HeadOf(TE, act) = Cat(Cat(Cat(Tok("status", 0), <<TE>>), ConTok(act)), Tok("blank", 0))
<1>1. TE \in Seconds /\ TE[1] = "te"
  BY DEF Seconds, TE
<1>2. PICK h : h = HeadOf(TE, act)
  OBVIOUS
<1>3. /\ h \in Seq(Toks) /\ h[1] = <<"status", 0>> /\ h[2] = TE
      /\ act = "UPGRADE" => Len(h) = 3 /\ h[3] = BlankTok
      /\ act = "CLOSE" => Len(h) = 4 /\ h[3] = <<"conn", 0>> /\ h[4] = BlankTok
      /\ act = "KEEP" => Len(h) = 4 /\ h[3] = <<"conn", 1>> /\ h[4] = BlankTok
  BY <1>1, <1>2, HeadIs, Zenon
<1>4. ASSUME NEW i \in DOMAIN h PROVE h[i][1] # "raw"
  <2>1. CASE act = "UPGRADE"
    <3>1. i = 1 \/ i = 2 \/ i = 3
      BY <1>3, <2>1
    <3> QED BY <1>1, <1>3, <2>1, <3>1 DEF BlankTok
  <2>2. CASE act # "UPGRADE"
    <3>1. Len(h) = 4 /\ h[4] = BlankTok /\ h[3][1] = "conn"
      BY <1>3, <2>2 DEF Acts
    <3>2. i = 1 \/ i = 2 \/ i = 3 \/ i = 4
      BY <1>3, <3>1
    <3> QED BY <1>1, <1>3, <3>1, <3>2 DEF BlankTok
  <2> QED BY <2>1, <2>2
<1>5. RawAt(h) = {}
  BY <1>4 DEF RawAt
<1>6. RawAt(Cat(Tok("status", 0), <<TE>>)) = {}
  <2>1. PICK a : a = <<"status", 0>>
    OBVIOUS
  <2>2. a \in Toks /\ a[1] = "status" /\ TE \in Toks
    <3>1. "status" \in Kinds
      BY DEF Kinds
    <3> QED BY <1>1, <2>1, <3>1, TokIs, SecondIs
  <2>3. PICK o : o = <<a>>
    OBVIOUS
  <2>4. o \in Seq(Toks) /\ Len(o) = 1 /\ o[1] = a /\ Tok("status", 0) = o
    BY <2>1, <2>2, <2>3 DEF Tok
  <2>5. PICK p : p = Cat(o, <<TE>>)
    OBVIOUS
  <2>6. /\ p \in Seq(Toks) /\ Len(p) = Len(o) + 1 /\ p[Len(o) + 1] = TE
        /\ \A i \in 1 .. Len(o) : p[i] = o[i]
    BY <2>2, <2>4, <2>5, TokenMore
  <2>7. Len(p) = 2 /\ p[1] = a /\ p[2] = TE
    <3>1. 1 + 1 = 2 /\ 1 \in 1 .. 1
      OBVIOUS
    <3> QED BY <2>4, <2>6, <3>1
  <2>8. ASSUME NEW i \in DOMAIN p PROVE p[i][1] # "raw"
    <3>0. p \in Seq(Toks) /\ Len(p) = 2
      BY <2>6, <2>7
    <3>1. i = 1 \/ i = 2
      BY <3>0
    <3> QED BY <1>1, <2>2, <2>7, <3>1
  <2> QED BY <2>4, <2>5, <2>8 DEF RawAt
<1>7. HeadOf(TE, act) = Cat(Cat(Cat(Tok("status", 0), <<TE>>), ConTok(act)), Tok("blank", 0))
  BY DEF HeadOf, Cat
<1> QED BY <1>2, <1>3, <1>5, <1>6, <1>7

\* The chunks when the first one is about to be written, and one more of them.
LEMMA NoChunks ==
    ASSUME NEW act \in Acts, NEW e \in BOOLEAN
    PROVE  ChunksIn(HeadOf(TE, act), <<>>, <<1>>, e)
<1>1. Chunks(<<>>, <<1>>) /\ Full(<<1>>)
  BY DEF Chunks, Full
<1>2. Cardinality(RawAt(HeadOf(TE, act))) = 0
  BY HeadNoRaw, FS_EmptySet
<1>3. Len(<<>>) + 1 - Len(<<1>>) = 0
  OBVIOUS
<1> QED BY <1>1, <1>2, <1>3 DEF ChunksIn

LEMMA ChunksGrow ==
    ASSUME NEW b \in Seq(Toks), NEW B, NEW ps, NEW e \in BOOLEAN, ChunksIn(b, B, ps, e), NEW n \in Nat,
           NEW H \in Seq(Toks), b = Cat(H, B), NEW m, m = Cardinality(RawAt(b)),
           NEW c, c = Cat(Cat(b, Tok("chunk", n)), RawBytes(m, n)), NEW f \in BOOLEAN, ~f => ~e /\ n # 0
    PROVE  \E C, qs : ChunksIn(c, C, qs, f) /\ c = Cat(H, C)
<1>1. Chunks(B, ps) /\ (~e => Full(ps)) /\ m = Len(B) + 1 - Len(ps)
  BY DEF ChunksIn
<1>2. m \in Nat /\ B \in Seq(Toks)
  BY <1>1, FewChunks
<1>3. PICK C : C = MoreChunk(B, m, n)
  OBVIOUS
<1>4. PICK qs : qs = NextStart(ps, C)
  OBVIOUS
<1>5. Chunks(C, qs) /\ Len(C) + 1 - Len(qs) = m + n /\ (Full(ps) /\ n > 0 => Full(qs))
  <2>1. Chunks(B, ps) /\ m \in Nat /\ m = Len(B) + 1 - Len(ps)
    BY <1>1, <1>2
  <2>2. Grown(C, qs, ps, m, n)
    BY <1>3, <1>4, <2>1, ChunkMore
  <2> QED BY <2>2 DEF Grown
<1>6. PICK t : t = Tok("chunk", n)
  OBVIOUS
<1>7. PICK R : R = RawBytes(m, n)
  OBVIOUS
<1>8. t \in Seq(Toks) /\ R \in Seq(Toks) /\ Len(R) = n
  BY <1>2, <1>6, <1>7, TokType, RawAre
<1>9. c = Cat(H, C)
  <2>1. Cat(Cat(Cat(H, B), t), R) = Cat(Cat(H, Cat(B, t)), R)
    BY <1>2, <1>8, CatGroups
  <2>2. Cat(B, t) \in Seq(Toks)
    BY <1>2, <1>8, CatIs
  <2>3. Cat(Cat(H, Cat(B, t)), R) = Cat(H, Cat(Cat(B, t), R))
    BY <1>8, <2>2, CatGroups
  <2> QED BY <1>3, <1>6, <1>7, <2>1, <2>3 DEF MoreChunk
<1>10. RawAt(Cat(b, t)) = RawAt(b)
  <2>1. Len(t) = 1 /\ t[1] = <<"chunk", n>>
    BY <1>6 DEF Tok
  <2>2. \A i \in 1 .. Len(t) : t[i][1] # "raw"
    BY <2>1
  <2> QED BY <1>8, <2>2, NoRaws
<1>11. Cardinality(RawAt(c)) = m + n
  <2>1. \A i \in 1 .. Len(R) : R[i][1] = "raw"
    <3>1. \A i \in 1 .. n : R[i] = <<"raw", m + i>>
      BY <1>2, <1>7, RawAre
    <3> QED BY <1>8, <3>1
  <2>2. Cat(b, t) \in Seq(Toks)
    BY <1>8, CatIs
  <2>3. Cardinality(RawAt(Cat(Cat(b, t), R))) = Cardinality(RawAt(Cat(b, t))) + Len(R)
    BY <1>8, <2>1, <2>2, AllRaws
  <2> QED BY <1>6, <1>7, <1>8, <1>10, <2>3
<1>12. ~f => Full(qs)
  BY <1>1, <1>5
<1>13. ChunksIn(c, C, qs, f)
  BY <1>5, <1>11, <1>12 DEF ChunksIn
<1> QED BY <1>9, <1>13

LEMMA RawRes ==
    ASSUME ResInv, NEW n \in 0 .. 2, BodyRaw(n)
    PROVE  ResInv'
<1>1. /\ phase = "build" /\ rs.stage \notin {"UNINIT", "COMPLETED"} /\ empty \in BOOLEAN /\ BuildOK(rs, empty)
      /\ empty' = (empty \/ (rs.mode = "CHUNKED" /\ n = 0)) /\ n \in Nat
  BY DEF BodyRaw, Building, ResInv
<1>2. /\ rs \in ResRec /\ rs.mode \in {"FIXED", "CHUNKED"} /\ rs.bodyBuf \in Seq(Toks) /\ rs.buf \in Seq(Toks)
      /\ rs.act \in Acts /\ BodyOK(rs.bodySe) /\ rs.bodySe \in EmitterRec
  BY <1>1 DEF BuildOK, ResRec
<1>3. empty' \in BOOLEAN
  BY <1>1
<1>4. CASE rs.mode = "FIXED"
  <2>1. PICK k \in Nat : k = Len(rs.bodyBuf)
    BY <1>2
  <2>2. RawCount = k /\ rs.bodyBuf = RawBytes(0, k) /\ rs.stage = "HEADER" /\ rs.buf = Tok("status", 0)
    BY <1>1, <1>4, <2>1 DEF RawCount, BuildOK, FixedBuild
  <2>3. PICK b : b = Cat(rs.bodyBuf, RawBytes(k, n))
    OBVIOUS
  <2>4. b = RawBytes(0, k + n)
    <3>1. 0 + k = k /\ 0 \in Nat
      OBVIOUS
    <3> QED BY <1>1, <2>2, <2>3, <3>1, RawsJoin
  <2>5. b \in Seq(Toks) /\ Len(b) = k + n
    <3>1. 0 \in Nat /\ k + n \in Nat
      BY <1>1
    <3> QED BY <2>4, <3>1, RawAre
  <2>6. PICK r : r = [rs EXCEPT !.bodyBuf = b]
    OBVIOUS
  <2>7. /\ r \in ResRec /\ r.mode = "FIXED" /\ r.stage = "HEADER" /\ r.buf = Tok("status", 0) /\ r.bodyBuf = b
        /\ r.bodySe = rs.bodySe
    BY <1>2, <1>4, <2>2, <2>5, <2>6 DEF ResRec
  <2>8. Built(r)
    BY <1>4, <2>2, <2>3, <2>6 DEF BodyRaw, Cat
  <2>9. FixedBuild(r)
    BY <2>4, <2>5, <2>7 DEF FixedBuild
  <2>10. BuildOK(r, empty')
    BY <1>2, <2>7, <2>9 DEF BuildOK
  <2> QED BY <1>1, <1>3, <2>8, <2>10, BuildStep
<1>5. CASE rs.mode = "CHUNKED"
  <2>1. PICK m : m = Cardinality(RawAt(rs.buf))
    OBVIOUS
  <2>2. RawCount = m
    BY <1>5, <2>1 DEF RawCount, RawAt
  <2>3. PICK r0 : r0 = IF rs.stage # "BODY" THEN [HeadersClosed(rs) EXCEPT !.stage = "BODY"] ELSE rs
    OBVIOUS
  <2>4. PICK H : H = HeadOf(TE, rs.act)
    OBVIOUS
  <2>4a. H \in Seq(Toks)
    BY <1>2, <2>4, HeadNoRaw
  <2>5. /\ r0 \in ResRec /\ r0.mode = "CHUNKED" /\ r0.stage = "BODY" /\ r0.act = rs.act /\ r0.bodySe = rs.bodySe
        /\ m = Cardinality(RawAt(r0.buf))
        /\ \E B, ps : ChunksIn(r0.buf, B, ps, empty) /\ r0.buf = Cat(H, B)
    <3>1. CASE rs.stage = "BODY"
      <4>1. r0 = rs
        BY <2>3, <3>1
      <4>2. \E B, ps : ChunksIn(rs.buf, B, ps, empty) /\ rs.buf = Cat(H, B)
        BY <1>1, <1>5, <2>4, <3>1 DEF BuildOK, ChunkBuild
      <4> QED BY <1>2, <1>5, <2>1, <3>1, <4>1, <4>2
    <3>2. CASE rs.stage # "BODY"
      <4>1. rs.buf = Cat(Tok("status", 0), <<TE>>)
        BY <1>1, <1>5, <3>2 DEF BuildOK, ChunkBuild
      <4>2. PICK w : w = HeadersClosed(rs)
        OBVIOUS
      <4>3. /\ w \in ResRec /\ w.mode = rs.mode /\ w.act = rs.act /\ w.bodySe = rs.bodySe
            /\ w.buf = Cat(Cat(rs.buf, ConTok(rs.act)), Tok("blank", 0))
        BY <1>2, <4>2, ClosedIs
      <4>4. w.buf = H /\ RawAt(H) = {} /\ RawAt(rs.buf) = {}
        BY <1>2, <2>4, <4>1, <4>3, HeadNoRaw
      <4>5. r0 = [w EXCEPT !.stage = "BODY"]
        BY <2>3, <3>2, <4>2
      <4>6. /\ r0 \in ResRec /\ r0.mode = "CHUNKED" /\ r0.stage = "BODY" /\ r0.act = rs.act /\ r0.bodySe = rs.bodySe
            /\ r0.buf = H
        BY <1>5, <4>3, <4>4, <4>5 DEF ResRec, Stages
      <4>7. ChunksIn(H, <<>>, <<1>>, empty) /\ H = Cat(H, <<>>)
        BY <1>1, <1>2, <2>4, <2>4a, NoChunks, CatGroups
      <4> QED BY <2>1, <4>4, <4>6, <4>7
    <3> QED BY <3>1, <3>2
  <2>6. PICK B, ps : ChunksIn(r0.buf, B, ps, empty) /\ r0.buf = Cat(H, B)
    BY <2>5
  <2>7. m \in Nat
    <3>1. Chunks(B, ps) /\ m = Len(B) + 1 - Len(ps)
      BY <2>5, <2>6 DEF ChunksIn
    <3> QED BY <3>1, FewChunks
  <2>8. PICK R : R = RawBytes(m, n)
    OBVIOUS
  <2>9. R \in Seq(Toks) /\ Len(R) = n
    BY <1>1, <2>7, <2>8, RawAre
  <2>10. PICK r : r = WithChunk(r0, R)
    OBVIOUS
  <2>11. /\ r \in ResRec /\ r.mode = "CHUNKED" /\ r.stage = "BODY" /\ r.act = rs.act /\ r.bodySe = rs.bodySe
         /\ r.buf = Cat(Cat(r0.buf, Tok("chunk", n)), R)
    BY <2>5, <2>9, <2>10, WithChunkIs
  <2>12. \E C, qs : ChunksIn(r.buf, C, qs, empty') /\ r.buf = Cat(H, C)
    <3>1. PICK b : b = r0.buf
      OBVIOUS
    <3>2. PICK c : c = r.buf
      OBVIOUS
    <3>3. b \in Seq(Toks)
      BY <2>5, <3>1 DEF ResRec
    <3>4. ChunksIn(b, B, ps, empty) /\ b = Cat(H, B) /\ m = Cardinality(RawAt(b))
      BY <2>5, <2>6, <3>1
    <3>5. c = Cat(Cat(b, Tok("chunk", n)), RawBytes(m, n))
      BY <2>8, <2>11, <3>1, <3>2
    <3>6. ~(empty') => ~empty /\ n # 0
      BY <1>1, <1>5
    <3>7. PICK f \in BOOLEAN : f = empty'
      BY <1>3
    <3>8. PICK e \in BOOLEAN : e = empty
      BY <1>1
    <3>9. ChunksIn(b, B, ps, e) /\ (~f => ~e /\ n # 0)
      BY <3>4, <3>6, <3>7, <3>8
    <3>10. \E C, qs : ChunksIn(c, C, qs, f) /\ c = Cat(H, C)
      BY <1>1, <2>4a, <3>3, <3>4, <3>5, <3>9, ChunksGrow
    <3> QED BY <3>2, <3>7, <3>10
  <2>13. Built(r)
    BY <1>5, <2>2, <2>3, <2>8, <2>10 DEF BodyRaw
  <2>14. ChunkBuild(r, empty')
    BY <2>4, <2>11, <2>12, Zenon DEF ChunkBuild
  <2>15. BuildOK(r, empty')
    BY <1>2, <2>11, <2>14 DEF BuildOK
  <2> QED BY <1>1, <1>3, <2>13, <2>15, BuildStep
<1> QED BY <1>2, <1>4, <1>5

\* The response is completed.
LEMMA EndedWhole ==
    ASSUME ResInv, phase = "build", rs.stage \notin {"UNINIT", "COMPLETED"}
    PROVE  Complete(Ended, empty) /\ Ended.bodySe = rs.bodySe
<1>1. BuildOK(rs, empty) /\ empty \in BOOLEAN
  BY DEF ResInv
<1>2. /\ rs \in ResRec /\ rs.mode \in {"FIXED", "CHUNKED"} /\ rs.bodyBuf \in Seq(Toks) /\ rs.buf \in Seq(Toks)
      /\ rs.act \in Acts /\ BodyOK(rs.bodySe) /\ Len(rs.bodyBuf) \in Nat
  BY <1>1 DEF BuildOK, ResRec
<1>3. Len(rs.bodySe.src) \in Nat
  BY <1>2, BodyIs
<1>4. CASE rs.mode = "FIXED"
  <2>0. PICK k \in Nat : k = Len(rs.bodyBuf)
    BY <1>2
  <2>0a. PICK m \in Nat : m = Len(rs.bodySe.src)
    BY <1>3
  <2>0b. PICK n \in Nat : n = k + m
    OBVIOUS
  <2>1. n = Len(rs.bodyBuf) + Len(rs.bodySe.src)
    BY <2>0, <2>0a, <2>0b
  <2>1a. Tok("clen", n) \in Seq(Toks)
    BY TokType
  <2>2. PICK w : w = WithHeader(rs, Tok("clen", n))
    OBVIOUS
  <2>3. rs.buf = Tok("status", 0) /\ rs.bodyBuf = RawBytes(0, Len(rs.bodyBuf))
    BY <1>1, <1>4 DEF BuildOK, FixedBuild
  <2>4. /\ w \in ResRec /\ w.mode = rs.mode /\ w.act = rs.act /\ w.buf = Cat(rs.buf, Tok("clen", n))
        /\ w.bodyBuf = rs.bodyBuf /\ w.bodySe = rs.bodySe
    BY <1>2, <2>1a, <2>2, HeaderIs, SMTT(60)
  <2>5. PICK h : h = HeadersClosed(w)
    OBVIOUS
  <2>6. /\ h \in ResRec /\ h.mode = w.mode /\ h.act = w.act
        /\ h.buf = Cat(Cat(w.buf, ConTok(w.act)), Tok("blank", 0))
        /\ h.bodyBuf = w.bodyBuf /\ h.bodySe = w.bodySe
    BY <2>4, <2>5, ClosedIs
  <2>7. PICK H : H = HeadOf(<<"clen", n>>, rs.act)
    OBVIOUS
  <2>8. h.buf = H
    BY <2>3, <2>4, <2>6, <2>7 DEF HeadOf, Cat, Tok
  <2>9. PICK b : b = Cat(H, rs.bodyBuf)
    OBVIOUS
  <2>10. b \in Seq(Toks)
    <3>1. H \in Seq(Toks)
      BY <2>6, <2>8 DEF ResRec
    <3> QED BY <1>2, <2>9, <3>1, CatIs
  <2>11. Ended = [h EXCEPT !.buf = b]
    BY <1>4, <2>1, <2>2, <2>5, <2>8, <2>9 DEF Ended, EmtLen, Cat
  <2>12. PICK r : r = Ended
    OBVIOUS
  <2>13. /\ r \in ResRec /\ r.mode = "FIXED" /\ r.act = rs.act /\ r.buf = b /\ r.bodyBuf = rs.bodyBuf
         /\ r.bodySe = rs.bodySe
    BY <1>4, <2>4, <2>6, <2>10, <2>11, <2>12 DEF ResRec
  <2>14. r.buf = Cat(HeadOf(<<"clen", Len(r.bodyBuf) + Len(r.bodySe.src)>>, r.act), r.bodyBuf)
    BY <2>1, <2>7, <2>9, <2>13
  <2>15. Complete(r, empty)
    BY <1>2, <2>3, <2>13, <2>14 DEF Complete
  <2> QED BY <2>12, <2>13, <2>15
<1>5. CASE rs.mode = "CHUNKED"
  <2>1. PICK x : x = IF rs.stage \in HeaderStages THEN HeadersClosed(rs) ELSE rs
    OBVIOUS
  <2>2. PICK H : H = HeadOf(TE, rs.act)
    OBVIOUS
  <2>3. H \in Seq(Toks)
    BY <1>2, <2>2, HeadNoRaw
  <2>4. /\ x \in ResRec /\ x.mode = "CHUNKED" /\ x.act = rs.act /\ x.bodySe = rs.bodySe
        /\ \E B, ps : ChunksIn(x.buf, B, ps, empty) /\ x.buf = Cat(H, B)
    <3>1. CASE rs.stage = "BODY"
      <4>1. x = rs
        BY <2>1, <3>1 DEF HeaderStages
      <4>2. \E B, ps : ChunksIn(rs.buf, B, ps, empty) /\ rs.buf = Cat(H, B)
        BY <1>1, <1>5, <2>2, <3>1 DEF BuildOK, ChunkBuild
      <4> QED BY <1>2, <1>5, <4>1, <4>2
    <3>2. CASE rs.stage # "BODY"
      <4>1. rs.buf = Cat(Tok("status", 0), <<TE>>) /\ rs.stage = "HEADER"
        BY <1>1, <1>5, <3>2 DEF BuildOK, ChunkBuild
      <4>2. x = HeadersClosed(rs)
        BY <2>1, <4>1 DEF HeaderStages
      <4>3. /\ x \in ResRec /\ x.mode = rs.mode /\ x.act = rs.act /\ x.bodySe = rs.bodySe
            /\ x.buf = Cat(Cat(rs.buf, ConTok(rs.act)), Tok("blank", 0))
        BY <1>2, <4>2, ClosedIs
      <4>4. x.buf = H
        BY <1>2, <2>2, <4>1, <4>3, HeadNoRaw
      <4>5. ChunksIn(H, <<>>, <<1>>, empty) /\ H = Cat(H, <<>>)
        BY <1>1, <1>2, <2>2, <2>3, NoChunks, CatGroups
      <4> QED BY <1>5, <4>3, <4>4, <4>5
    <3> QED BY <3>1, <3>2
  <2>5. PICK B, ps : ChunksIn(x.buf, B, ps, empty) /\ x.buf = Cat(H, B)
    BY <2>4
  <2>6. Chunks(B, ps) /\ (~empty => Full(ps)) /\ Cardinality(RawAt(x.buf)) = Len(B) + 1 - Len(ps)
    BY <2>5 DEF ChunksIn
  <2>7. B \in Seq(Toks) /\ LastChunk \in Seq(Toks) /\ <<>> \in Seq(Toks) /\ x.buf \in Seq(Toks)
    BY <2>4, <2>6, FewChunks, TokType DEF ResRec
  <2>8. PICK r : r = WithChunk(x, <<>>)
    OBVIOUS
  <2>9. Ended = r
    BY <1>5, <2>1, <2>8 DEF Ended
  <2>10. /\ r \in ResRec /\ r.mode = x.mode /\ r.act = x.act /\ r.bodySe = x.bodySe
         /\ r.buf = Cat(Cat(x.buf, Tok("chunk", Len(<<>>))), <<>>)
    <3>1. PICK o : o = <<>>
      OBVIOUS
    <3>2. x \in ResRec /\ o \in Seq(Toks) /\ r = WithChunk(x, o)
      BY <2>4, <2>7, <2>8, <3>1
    <3>3. /\ r \in ResRec /\ r.mode = x.mode /\ r.act = x.act /\ r.bodySe = x.bodySe
          /\ r.buf = Cat(Cat(x.buf, Tok("chunk", Len(o))), o)
      BY <3>2, WithChunkIs
    <3> QED BY <3>1, <3>3
  <2>11. Tok("chunk", Len(<<>>)) = LastChunk
    BY DEF Tok, LastChunk
  <2>12. Cat(x.buf, LastChunk) \in Seq(Toks)
    BY <2>7, CatIs
  <2>13. r.buf = Cat(x.buf, LastChunk)
    BY <2>10, <2>11, <2>12, CatGroups
  <2>14. r.buf = Cat(H, Cat(B, LastChunk))
    BY <2>3, <2>5, <2>7, <2>13, CatGroups
  <2>15. RawAt(r.buf) = RawAt(x.buf)
    <3>1. Len(LastChunk) = 1 /\ LastChunk[1] = <<"chunk", 0>>
      BY DEF LastChunk
    <3>2. \A i \in 1 .. Len(LastChunk) : LastChunk[i][1] # "raw"
      BY <3>1
    <3> QED BY <2>7, <2>13, <3>2, NoRaws
  <2>16. ChunksIn(r.buf, B, ps, empty)
    BY <2>6, <2>15 DEF ChunksIn
  <2>17. Complete(r, empty)
    <3>1. \E C, qs : ChunksIn(r.buf, C, qs, empty) /\ r.buf = Cat(HeadOf(TE, r.act), Cat(C, LastChunk))
      BY <2>2, <2>4, <2>10, <2>14, <2>16
    <3>2. r.mode = "CHUNKED" /\ r.mode # "FIXED" /\ BodyOK(r.bodySe) /\ r \in ResRec
      BY <1>2, <2>4, <2>10
    <3> QED BY <3>1, <3>2, Zenon DEF Complete
  <2> QED BY <2>4, <2>9, <2>10, <2>17
<1> QED BY <1>2, <1>4, <1>5

LEMMA EndRes ==
    ASSUME ResInv, End
    PROVE  ResInv'
<1>1. /\ phase = "build" /\ rs.stage \notin {"UNINIT", "COMPLETED"} /\ taken = <<>> /\ taken' = taken
      /\ phase' = "send" /\ empty' = empty /\ cut' = cut /\ empty \in BOOLEAN /\ cut \in BOOLEAN
  BY DEF End, Building, ResInv
<1>2. PICK r : r = Ended
  OBVIOUS
<1>3. Complete(r, empty) /\ r.bodySe = rs.bodySe
  BY <1>1, <1>2, EndedWhole
<1>4. rs' = r /\ chain' = <<Emitter("raw", r.buf)>> \o (IF r.bodySe = None THEN <<>> ELSE <<r.bodySe>>)
  BY <1>2, <1>3 DEF End
<1>5. r.buf \in Seq(Toks) /\ <<>> \in Seq(Toks)
  BY <1>3 DEF Complete, ResRec
<1>6. PICK h : h = Emitter("raw", r.buf)
  OBVIOUS
<1>7. h \in EmitterRec /\ h.kind = "raw" /\ h.src = r.buf /\ h.pos = 0
  BY <1>5, <1>6 DEF EmitterRec, Emitter
<1>8. chain' = IF r.bodySe = None THEN <<h>> ELSE <<h, r.bodySe>>
  BY <1>4, <1>6
<1>9. taken' = SubSeq(r.buf, 1, h.pos) /\ h.pos <= Len(r.buf)
  BY <1>1, <1>5, <1>7
<1>10. Sending(chain', taken', r)
  BY <1>7, <1>8, <1>9 DEF Sending
<1>11. Complete(rs', empty') /\ Sending(chain', taken', rs')
  BY <1>1, <1>3, <1>4, <1>10
<1> QED BY <1>1, <1>11, Zenon DEF ResInv

-----------------------------------------------------------------------------
(* Sending the response.                                                   *)

LEMMA CutJoin ==
    ASSUME NEW S, NEW a \in Seq(S), NEW i \in Nat, NEW j \in Nat, NEW k \in Nat, i <= j, j <= k, k <= Len(a)
    PROVE  Cat(SubSeq(a, i + 1, j), SubSeq(a, j + 1, k)) = SubSeq(a, i + 1, k)
<1>0. i <= k /\ j <= Len(a)
  BY LenProperties
<1>1. PICK x : x = SubSeq(a, i + 1, j)
  OBVIOUS
<1>2. PICK y : y = SubSeq(a, j + 1, k)
  OBVIOUS
<1>3. PICK z : z = SubSeq(a, i + 1, k)
  OBVIOUS
<1>4. x \in Seq(S) /\ Len(x) = j - i /\ \A n \in 1 .. j - i : x[n] = a[i + n]
  BY <1>0, <1>1, CutOf, SMTT(60)
<1>5. y \in Seq(S) /\ Len(y) = k - j /\ \A n \in 1 .. k - j : y[n] = a[j + n]
  BY <1>2, CutOf
<1>6. z \in Seq(S) /\ Len(z) = k - i /\ \A n \in 1 .. k - i : z[n] = a[i + n]
  BY <1>0, <1>3, CutOf
<1>7. PICK c : c = Cat(x, y)
  OBVIOUS
<1>8. /\ c \in Seq(S) /\ Len(c) = Len(x) + Len(y)
      /\ \A n \in 1 .. Len(x) : c[n] = x[n]
      /\ \A n \in Len(x) + 1 .. Len(x) + Len(y) : c[n] = y[n - Len(x)]
  <2>1. x \in Seq(S) /\ y \in Seq(S)
    BY <1>4, <1>5
  <2> QED BY <1>7, <2>1, CatIs
<1>9. Len(c) = Len(z)
  BY <1>4, <1>5, <1>6, <1>8
<1>10. ASSUME NEW n \in 1 .. k - i PROVE c[n] = z[n]
  <2>1. CASE n <= j - i
    <3>1. n \in 1 .. j - i
      BY <2>1
    <3>2. c[n] = x[n]
      BY <1>4, <1>8, <3>1
    <3> QED BY <1>4, <1>6, <3>1, <3>2
  <2>2. CASE n > j - i
    <3>1. PICK m \in Nat : m = n - (j - i)
      BY <2>2
    <3>2. m \in 1 .. k - j /\ j + m = i + n /\ n \in j - i + 1 .. (j - i) + (k - j)
      BY <2>2, <3>1
    <3>3. c[n] = y[m]
      BY <1>4, <1>5, <1>8, <3>1, <3>2
    <3>4. y[m] = a[j + m] /\ z[n] = a[i + n]
      BY <1>5, <1>6, <3>2
    <3> QED BY <3>2, <3>3, <3>4
  <2> QED BY <2>1, <2>2
<1>11. c = z
  <2>1. \A n \in 1 .. Len(c) : c[n] = z[n]
    BY <1>6, <1>9, <1>10
  <2>2. c \in Seq(S) /\ z \in Seq(S)
    BY <1>6, <1>8
  <2> QED BY <1>9, <2>1, <2>2, SameSeq
<1> QED BY <1>1, <1>2, <1>3, <1>7, <1>11

LEMMA CutCut ==
    ASSUME NEW S, NEW a \in Seq(S), NEW i \in Nat, NEW k \in Nat, i <= k, k <= Len(a),
           NEW x \in Nat, NEW y \in Nat, x <= y, y <= k - i
    PROVE  SubSeq(SubSeq(a, i + 1, k), x + 1, y) = SubSeq(a, i + x + 1, i + y)
<1>1. PICK b : b = SubSeq(a, i + 1, k)
  OBVIOUS
<1>2. b \in Seq(S) /\ Len(b) = k - i /\ \A n \in 1 .. k - i : b[n] = a[i + n]
  BY <1>1, CutOf
<1>3. PICK c : c = SubSeq(b, x + 1, y)
  OBVIOUS
<1>4. c \in Seq(S) /\ Len(c) = y - x /\ \A n \in 1 .. y - x : c[n] = b[x + n]
  <2>1. b \in Seq(S) /\ y <= Len(b)
    BY <1>2
  <2> QED BY <1>3, <2>1, CutOf
<1>5. PICK u \in Nat : u = i + x
  OBVIOUS
<1>5a. PICK v \in Nat : v = i + y
  OBVIOUS
<1>5b. PICK d : d = SubSeq(a, u + 1, v)
  OBVIOUS
<1>6. d \in Seq(S) /\ Len(d) = y - x /\ \A n \in 1 .. y - x : d[n] = a[u + n]
  <2>1. u <= v /\ v <= Len(a) /\ v - u = y - x
    BY <1>5, <1>5a, LenProperties
  <2>2. d \in Seq(S) /\ Len(d) = v - u /\ \A n \in 1 .. v - u : d[n] = a[u + n]
    BY <1>5b, <2>1, CutOf
  <2> QED BY <2>1, <2>2
<1>7. ASSUME NEW n \in 1 .. y - x PROVE c[n] = d[n]
  <2>1. x + n \in 1 .. k - i /\ i + (x + n) = u + n
    BY <1>5
  <2> QED BY <1>2, <1>4, <1>6, <2>1
<1>8. c = d
  <2>1. c \in Seq(S) /\ d \in Seq(S) /\ Len(c) = Len(d) /\ \A n \in 1 .. Len(c) : c[n] = d[n]
    BY <1>4, <1>6, <1>7
  <2> QED BY <2>1, SameSeq
<1> QED BY <1>1, <1>3, <1>5, <1>5a, <1>5b, <1>8

LEMMA CutAll ==
    ASSUME NEW S, NEW a \in Seq(S)
    PROVE  /\ SubSeq(a, 1, Len(a)) = a /\ SubSeq(a, 1, 0) = <<>> /\ Cat(a, <<>>) = a
           /\ \A n \in 0 .. Len(a) : SubSeq(a, 1, n) \in Seq(S) /\ SubSeq(a, n + 1, n) = <<>>
BY DEF Cat

\* A response that is complete stays so when its stage says so.
LEMMA StageWhole ==
    ASSUME NEW r, NEW e, Complete(r, e), NEW q, q = [r EXCEPT !.stage = "COMPLETED"]
    PROVE  Complete(q, e) /\ q.buf = r.buf /\ q.bodySe = r.bodySe
<1>1. r \in ResRec
  BY DEF Complete
<1>2. /\ q \in ResRec /\ q.mode = r.mode /\ q.act = r.act /\ q.buf = r.buf /\ q.bodyBuf = r.bodyBuf
      /\ q.bodySe = r.bodySe
  BY <1>1 DEF ResRec, Stages
<1>3. Complete(q, e)
  BY <1>2, Zenon DEF Complete
<1> QED BY <1>2, <1>3

LEMMA SendStep ==
    ASSUME ResInv, phase \in {"send", "wait"}, rs' \in {rs, [rs EXCEPT !.stage = "COMPLETED"]}, empty' = empty,
           cut' = cut, phase' \in {"send", "wait"}, Sending(chain', taken', rs)
    PROVE  ResInv'
<1>1. PICK q : q = rs'
  OBVIOUS
<1>2. Complete(rs, empty) /\ empty \in BOOLEAN /\ cut \in BOOLEAN
  BY DEF ResInv
<1>3. Complete(q, empty) /\ q.buf = rs.buf /\ q.bodySe = rs.bodySe
  BY <1>1, <1>2, StageWhole
<1>4. Sending(chain', taken', q)
  BY <1>3, Zenon DEF Sending
<1>5. Complete(rs', empty') /\ Sending(chain', taken', rs')
  BY <1>1, <1>3, <1>4
<1>6. phase' # "build" /\ phase' # "done" /\ phase' \in {"build", "send", "wait", "done", "failed"}
  OBVIOUS
<1> QED BY <1>2, <1>5, <1>6, Zenon DEF ResInv

LEMMA DoneStep ==
    ASSUME ResInv, phase = "send", rs' \in {rs, [rs EXCEPT !.stage = "COMPLETED"]}, empty' = empty,
           cut' \in BOOLEAN, phase' = "done", Sent(taken', rs, cut')
    PROVE  ResInv'
<1>1. PICK q : q = rs'
  OBVIOUS
<1>2. Complete(rs, empty) /\ empty \in BOOLEAN
  BY DEF ResInv
<1>3. Complete(q, empty) /\ q.buf = rs.buf /\ q.bodySe = rs.bodySe
  BY <1>1, <1>2, StageWhole
<1>4. Sent(taken', q, cut')
  BY <1>3, Zenon DEF Sent
<1>5. Complete(rs', empty') /\ Sent(taken', rs', cut')
  BY <1>1, <1>3, <1>4
<1>6. phase' # "build" /\ phase' \notin {"send", "wait"} /\ phase' \in {"build", "send", "wait", "done", "failed"}
  OBVIOUS
<1> QED BY <1>2, <1>5, <1>6, Zenon DEF ResInv

LEMMA FailedRes ==
    ASSUME ResInv, Failed
    PROVE  ResInv'
<1>1. empty \in BOOLEAN /\ cut \in BOOLEAN /\ empty' = empty /\ cut' = cut /\ phase' = "failed"
  BY DEF ResInv, Failed
<1>2. /\ phase' # "build" /\ phase' # "done" /\ phase' \notin {"send", "wait"}
      /\ phase' \in {"build", "send", "wait", "done", "failed"}
  BY <1>1
<1> QED BY <1>1, <1>2, Zenon DEF ResInv

\* A step of a raw emitter that writes w bytes.
RawTakes(se, w) ==
    /\ taken' = Cat(taken, SubSeq(se.src, se.pos + 1, se.pos + w))
    /\ IF se.pos + w = Len(se.src) THEN Finished ELSE Again([se EXCEPT !.pos = @ + w])
    /\ empty' = empty /\ cut' = cut

LEMMA RawEmits ==
    ASSUME EmitRaw, NEW se, se = Head(chain)
    PROVE  phase = "send" /\ se.kind = "raw" /\ (Failed \/ \E w \in 0 .. Len(se.src) - se.pos : RawTakes(se, w))
BY Zenon DEF EmitRaw, RawTakes, Cat

\* What a raw emitter has sent so far is a prefix, and it is all at the end.
LEMMA RawPrefix ==
    ASSUME NEW s \in Seq(Toks), NEW p \in Nat, p <= Len(s), NEW w \in 0 .. Len(s) - p
    PROVE  /\ Cat(SubSeq(s, 1, p), SubSeq(s, p + 1, p + w)) = SubSeq(s, 1, p + w)
           /\ p + w \in Nat /\ p + w <= Len(s) /\ SubSeq(s, p + 1, p + w) \in Seq(Toks)
           /\ SubSeq(s, 1, p) \in Seq(Toks) /\ SubSeq(s, 1, p + w) \in Seq(Toks)
           /\ p + w = Len(s) => SubSeq(s, 1, p + w) = s
<1>0. Len(s) \in Nat
  OBVIOUS
<1>1. PICK q \in Nat : q = p + w
  OBVIOUS
<1>2. p <= q /\ q <= Len(s) /\ 0 \in Nat /\ 0 <= p /\ 0 <= q /\ 0 + 1 = 1
  BY <1>0, <1>1
<1>3. Cat(SubSeq(s, 1, p), SubSeq(s, p + 1, q)) = SubSeq(s, 1, q)
  <2>1. PICK o \in Nat : o = 0
    OBVIOUS
  <2>2. o <= p
    BY <2>1
  <2>3. Cat(SubSeq(s, o + 1, p), SubSeq(s, p + 1, q)) = SubSeq(s, o + 1, q)
    BY <1>2, <2>2, CutJoin
  <2> QED BY <1>2, <2>1, <2>3
<1>4. SubSeq(s, p + 1, q) \in Seq(Toks) /\ SubSeq(s, 1, p) \in Seq(Toks) /\ SubSeq(s, 1, q) \in Seq(Toks)
  BY <1>2, CutOf
<1>5. q = Len(s) => SubSeq(s, 1, q) = s
  BY CutAll
<1> QED BY <1>1, <1>2, <1>3, <1>4, <1>5

\* The body's emitter begins.
LEMMA BodyBegins ==
    ASSUME NEW r, BodyOK(r.bodySe), r.bodySe # None, r.buf \in Seq(Toks), NEW tk, tk = r.buf
    PROVE  Sending(<<r.bodySe>>, tk, r)
<1>1. PICK se : se = r.bodySe
  OBVIOUS
<1>2. /\ se \in EmitterRec /\ se.src \in Seq(Toks) /\ se.kind \in {"raw", "file"} /\ se.pos = 0 /\ se.buf = <<>>
      /\ se.eof = FALSE
  BY <1>1, BodyIs
<1>3. PICK y : y = <<>>
  OBVIOUS
<1>4. y \in Seq(Toks) /\ tk = Cat(r.buf, y) /\ Len(y) = 0
  BY <1>3, CutAll, TokType
<1>5. se.pos <= Len(se.src) /\ SubSeq(se.src, 1, 0) = y
  BY <1>2, <1>3, CutAll
<1>6. FileOK(se, y)
  <2>1. Len(se.buf) = 0 /\ FileBuf \in Nat
    BY <1>2, HttpResponseAssumption
  <2>2. ~se.eof /\ Len(se.buf) <= se.pos /\ Len(se.buf) <= FileBuf
    BY <1>2, <2>1
  <2>3. se.pos - Len(se.buf) = 0 /\ se.pos - Len(se.buf) + 1 = 1
    <3>1. 0 - 0 = 0 /\ 0 - 0 + 1 = 1
      OBVIOUS
    <3> QED BY <1>2, <2>1, <3>1, Zenon
  <2>4. y = SubSeq(se.src, 1, se.pos - Len(se.buf)) /\ se.buf = SubSeq(se.src, se.pos - Len(se.buf) + 1, se.pos)
    BY <1>2, <1>3, <1>5, <2>3
  <2> QED BY <1>5, <2>2, <2>4 DEF FileOK
<1>7. se.kind = "raw" => y = SubSeq(se.src, 1, se.pos)
  BY <1>2, <1>5
<1> QED BY <1>1, <1>2, <1>4, <1>5, <1>6, <1>7 DEF Sending

\* The emitter of the response's buffer.
LEMMA HeadTakes ==
    ASSUME ResInv, phase = "send", NEW h \in EmitterRec,
           chain = IF rs.bodySe = None THEN <<h>> ELSE <<h, rs.bodySe>>,
           h.kind = "raw", h.src = rs.buf, h.pos <= Len(rs.buf), taken = SubSeq(rs.buf, 1, h.pos),
           NEW w \in 0 .. Len(h.src) - h.pos, RawTakes(h, w)
    PROVE  ResInv'
<1>1. PICK b : b = rs.buf
  OBVIOUS
<1>2. PICK p \in Nat : p = h.pos
  BY DEF EmitterRec
<1>3. b \in Seq(Toks) /\ BodyOK(rs.bodySe) /\ Complete(rs, empty) /\ cut \in BOOLEAN
  BY <1>1 DEF ResInv, Complete, ResRec
<1>4. p <= Len(b) /\ w \in 0 .. Len(b) - p /\ taken = SubSeq(b, 1, p)
  BY <1>1, <1>2
<1>5. /\ taken' = SubSeq(b, 1, p + w) /\ p + w \in Nat /\ p + w <= Len(b) /\ empty' = empty /\ cut' = cut
      /\ p + w = Len(b) => taken' = b
  <2>1. taken' = Cat(SubSeq(b, 1, p), SubSeq(b, p + 1, p + w)) /\ empty' = empty /\ cut' = cut
    BY <1>1, <1>2, <1>4 DEF RawTakes
  <2>2. /\ Cat(SubSeq(b, 1, p), SubSeq(b, p + 1, p + w)) = SubSeq(b, 1, p + w)
        /\ p + w \in Nat /\ p + w <= Len(b) /\ (p + w = Len(b) => SubSeq(b, 1, p + w) = b)
    BY <1>3, <1>4, RawPrefix
  <2> QED BY <2>1, <2>2
<1>6. CASE p + w = Len(b)
  <2>1. Finished
    BY <1>1, <1>2, <1>6 DEF RawTakes
  <2>2. CASE rs.bodySe = None
    <3>1. chain = <<h>>
      BY <2>2
    <3>2. Len(chain) = 1
      BY <3>1
    <3>3. phase' = "done" /\ rs' = [rs EXCEPT !.stage = "COMPLETED"]
      BY <2>1, <3>2 DEF Finished
    <3>4. Sent(taken', rs, cut')
      <4>1. taken' = Cat(rs.buf, <<>>) /\ <<>> \in Seq(Toks) /\ rs.bodySe.src = <<>>
        BY <1>1, <1>3, <1>5, <1>6, <2>2, CutAll, NoneIs, TokType
      <4> QED BY <4>1 DEF Sent
    <3> QED BY <1>3, <1>5, <3>3, <3>4, DoneStep
  <2>3. CASE rs.bodySe # None
    <3>1. chain = <<h, rs.bodySe>>
      BY <2>3
    <3>2. Len(chain) = 2 /\ Tail(chain) = <<rs.bodySe>>
      BY <3>1
    <3>3. phase' = "send" /\ rs' = rs /\ chain' = <<rs.bodySe>>
      BY <2>1, <3>2 DEF Finished
    <3>4. taken' = rs.buf /\ rs.buf \in Seq(Toks)
      BY <1>1, <1>3, <1>5, <1>6
    <3>5. Sending(<<rs.bodySe>>, taken', rs)
      BY <1>3, <2>3, <3>4, BodyBegins
    <3>6. Sending(chain', taken', rs) /\ rs' \in {rs, [rs EXCEPT !.stage = "COMPLETED"]}
      BY <3>3, <3>5
    <3> QED BY <1>5, <3>3, <3>6, SendStep
  <2> QED BY <2>2, <2>3
<1>7. CASE p + w # Len(b)
  <2>1. PICK k : k = [h EXCEPT !.pos = p + w]
    OBVIOUS
  <2>2. Again(k)
    BY <1>1, <1>2, <1>7, <2>1 DEF RawTakes
  <2>3. chain' = <<k>> \o Tail(chain) /\ phase' = "wait" /\ rs' = [rs EXCEPT !.stage = "COMPLETED"]
    BY <2>2 DEF Again
  <2>4. k \in EmitterRec /\ k.kind = "raw" /\ k.src = b /\ k.pos = p + w
    BY <1>1, <1>5, <2>1 DEF EmitterRec
  <2>5. Tail(chain) = IF rs.bodySe = None THEN <<>> ELSE <<rs.bodySe>>
    OBVIOUS
  <2>6. chain' = IF rs.bodySe = None THEN <<k>> ELSE <<k, rs.bodySe>>
    BY <2>3, <2>5, SMTT(60)
  <2>7. k.pos <= Len(rs.buf) /\ taken' = SubSeq(rs.buf, 1, k.pos) /\ k.src = rs.buf
    BY <1>1, <1>5, <2>4
  <2>8. Sending(chain', taken', rs)
    BY <2>4, <2>6, <2>7 DEF Sending
  <2> QED BY <1>5, <2>3, <2>8, SendStep
<1> QED BY <1>6, <1>7

\* The raw emitter of the body.
LEMMA BodyTakes ==
    ASSUME ResInv, phase = "send", NEW se \in EmitterRec, NEW y \in Seq(Toks), chain = <<se>>, rs.bodySe # None,
           se.src = rs.bodySe.src, taken = Cat(rs.buf, y), se.kind = "raw", se.pos <= Len(se.src),
           y = SubSeq(se.src, 1, se.pos), NEW w \in 0 .. Len(se.src) - se.pos, RawTakes(se, w)
    PROVE  ResInv'
<1>1. PICK b : b = rs.buf
  OBVIOUS
<1>2. PICK p \in Nat : p = se.pos
  BY DEF EmitterRec
<1>3. PICK s \in Seq(Toks) : s = se.src
  BY DEF EmitterRec
<1>4. b \in Seq(Toks) /\ cut \in BOOLEAN
  BY <1>1 DEF ResInv, Complete, ResRec
<1>5. p <= Len(s) /\ w \in 0 .. Len(s) - p /\ y = SubSeq(s, 1, p)
  BY <1>2, <1>3
<1>6. PICK x : x = SubSeq(s, p + 1, p + w)
  OBVIOUS
<1>7. PICK z : z = SubSeq(s, 1, p + w)
  OBVIOUS
<1>8. /\ Cat(y, x) = z /\ p + w \in Nat /\ p + w <= Len(s) /\ x \in Seq(Toks) /\ z \in Seq(Toks)
      /\ p + w = Len(s) => z = s
  BY <1>5, <1>6, <1>7, RawPrefix
<1>9. taken' = Cat(b, z) /\ empty' = empty /\ cut' = cut
  <2>0. PICK v \in Seq(Toks) : v = y
    OBVIOUS
  <2>1. taken' = Cat(Cat(b, v), x) /\ empty' = empty /\ cut' = cut
    BY <1>1, <1>2, <1>3, <1>6, <2>0 DEF RawTakes
  <2>2. Cat(Cat(b, v), x) = Cat(b, Cat(v, x))
    <3>1. b \in Seq(Toks) /\ x \in Seq(Toks)
      BY <1>4, <1>8
    <3> QED BY <3>1, CatGroups
  <2> QED BY <1>8, <2>0, <2>1, <2>2
<1>10. Len(chain) = 1 /\ Tail(chain) = <<>>
  OBVIOUS
<1>11. CASE p + w = Len(s)
  <2>1. phase' = "done" /\ rs' = [rs EXCEPT !.stage = "COMPLETED"]
    BY <1>2, <1>3, <1>10, <1>11 DEF RawTakes, Finished
  <2>2. taken' = Cat(rs.buf, z) /\ z \in Seq(Toks) /\ z = rs.bodySe.src
    BY <1>1, <1>3, <1>8, <1>9, <1>11
  <2>3. Sent(taken', rs, cut')
    BY <2>2 DEF Sent
  <2> QED BY <1>4, <1>9, <2>1, <2>3, DoneStep
<1>12. CASE p + w # Len(s)
  <2>1. PICK k : k = [se EXCEPT !.pos = p + w]
    OBVIOUS
  <2>2. Again(k)
    BY <1>2, <1>3, <1>12, <2>1 DEF RawTakes
  <2>3. chain' = <<k>> /\ phase' = "wait" /\ rs' = [rs EXCEPT !.stage = "COMPLETED"]
    BY <1>10, <2>2 DEF Again
  <2>4. k \in EmitterRec /\ k.kind = "raw" /\ k.src = s /\ k.pos = p + w
    BY <1>3, <1>8, <2>1 DEF EmitterRec
  <2>5. /\ k.pos <= Len(k.src) /\ z = SubSeq(k.src, 1, k.pos) /\ k.src = rs.bodySe.src /\ taken' = Cat(rs.buf, z)
        /\ z \in Seq(Toks)
    BY <1>1, <1>3, <1>7, <1>8, <1>9, <2>4
  <2>6. Sending(chain', taken', rs)
    BY <2>3, <2>4, <2>5 DEF Sending
  <2> QED BY <1>9, <2>3, <2>6, SendStep
<1> QED BY <1>11, <1>12

LEMMA EmitRawRes ==
    ASSUME ResInv, EmitRaw
    PROVE  ResInv'
<1>1. PICK se : se = Head(chain)
  OBVIOUS
<1>2. phase = "send" /\ se.kind = "raw" /\ (Failed \/ \E w \in 0 .. Len(se.src) - se.pos : RawTakes(se, w))
  BY <1>1, RawEmits
<1>3. CASE Failed
  BY <1>3, FailedRes
<1>4. ASSUME NEW w \in 0 .. Len(se.src) - se.pos, RawTakes(se, w) PROVE ResInv'
  <2>1. Sending(chain, taken, rs)
    BY <1>2 DEF ResInv
  <2>2. ASSUME NEW h \in EmitterRec, chain = (IF rs.bodySe = None THEN <<h>> ELSE <<h, rs.bodySe>>),
               h.kind = "raw", h.src = rs.buf, h.pos <= Len(rs.buf), taken = SubSeq(rs.buf, 1, h.pos)
        PROVE  ResInv'
    <3>1. h = se
      BY <1>1, <2>2
    <3> QED BY <1>2, <1>4, <2>2, <3>1, HeadTakes
  <2>3. ASSUME NEW x \in EmitterRec, NEW y \in Seq(Toks), chain = <<x>>, rs.bodySe # None,
               x.src = rs.bodySe.src, taken = Cat(rs.buf, y),
               \/ x.kind = "raw" /\ x.pos <= Len(x.src) /\ y = SubSeq(x.src, 1, x.pos)
               \/ x.kind = "file" /\ FileOK(x, y)
        PROVE  ResInv'
    <3>1. x = se
      BY <1>1, <2>3
    <3>2. x.pos <= Len(x.src) /\ y = SubSeq(x.src, 1, x.pos)
      BY <1>2, <2>3, <3>1
    <3> QED BY <1>2, <1>4, <2>3, <3>1, <3>2, BodyTakes
  <2> QED BY <2>1, <2>2, <2>3, Zenon DEF Sending
<1> QED BY <1>2, <1>3, <1>4

\* What a read of the file adds to the emitter's buffer.
ReadBy(se, rd, r) ==
    /\ r \in Nat /\ r <= FileBuf - Len(se.buf) /\ r <= Len(se.src) - se.pos
    /\ r < FileBuf - Len(se.buf) => r = Len(se.src) - se.pos
    /\ rd \in EmitterRec /\ rd.kind = se.kind /\ rd.src = se.src /\ rd.pos = se.pos + r
    /\ rd.buf = Cat(se.buf, SubSeq(se.src, se.pos + 1, se.pos + r))
    /\ rd.eof = (se.eof \/ r < FileBuf - Len(se.buf))

LEMMA ReadIs ==
    ASSUME NEW se \in EmitterRec, Len(se.buf) <= FileBuf, se.pos <= Len(se.src), NEW rd, rd = FileRead(se)
    PROVE  \E r : ReadBy(se, rd, r)
<1>1. PICK b \in Seq(Toks) : b = se.buf
  BY DEF EmitterRec
<1>2. PICK s \in Seq(Toks) : s = se.src
  BY DEF EmitterRec
<1>3. PICK p \in Nat : p = se.pos
  BY DEF EmitterRec
<1>4. Len(b) \in Nat /\ Len(s) \in Nat /\ FileBuf \in Nat /\ Len(b) <= FileBuf /\ p <= Len(s)
  BY <1>1, <1>2, <1>3, HttpResponseAssumption
<1>5. PICK want \in Nat : want = FileBuf - Len(b)
  <2>1. PICK l \in Nat : l = Len(b)
    OBVIOUS
  <2>2. FileBuf - l \in Nat
    BY <1>4, <2>1
  <2> QED BY <2>1, <2>2
<1>6. PICK left \in Nat : left = Len(s) - p
  <2>1. PICK l \in Nat : l = Len(s)
    OBVIOUS
  <2>2. l - p \in Nat
    BY <1>4, <2>1
  <2> QED BY <2>1, <2>2
<1>7. PICK r : r = Min({want, left})
  OBVIOUS
<1>8. r \in Nat /\ r <= want /\ r <= left /\ (r < want => r = left)
  <2>1. r = IF want <= left THEN want ELSE left
    BY <1>7, MinOfTwo
  <2> QED BY <2>1
<1>9. PICK c : c = Cat(b, SubSeq(s, p + 1, p + r))
  OBVIOUS
<1>10. c \in Seq(Toks)
  <2>1. PICK q \in Nat : q = p + r
    BY <1>8
  <2>2. p <= q /\ q <= Len(s)
    BY <1>4, <1>6, <1>8, <2>1
  <2>3. SubSeq(s, p + 1, q) \in Seq(Toks)
    BY <2>2, CutOf
  <2> QED BY <1>9, <2>1, <2>3, CatIs
<1>11. PICK e \in BOOLEAN : e = (se.eof \/ r < want)
  BY DEF EmitterRec
<1>12. rd = [se EXCEPT !.buf = c, !.pos = p + r, !.eof = e]
  BY <1>1, <1>2, <1>3, <1>5, <1>6, <1>7, <1>9, <1>11 DEF FileRead, Cat
<1>13. p + r \in Nat
  BY <1>8
<1>14. /\ rd \in EmitterRec /\ rd.kind = se.kind /\ rd.src = se.src /\ rd.pos = p + r /\ rd.buf = c /\ rd.eof = e
  BY <1>10, <1>12, <1>13 DEF EmitterRec
<1>15. ReadBy(se, rd, r)
  BY <1>1, <1>2, <1>3, <1>5, <1>6, <1>8, <1>9, <1>11, <1>14 DEF ReadBy
<1> QED BY <1>15

\* The step of a file emitter: nothing more is read at the end of the file, or
\* w bytes of the buffer are written.
FileEnds(se, rd) ==
    /\ rd.pos = se.pos /\ rd.eof /\ Finished
    /\ cut' = (cut \/ \E i \in DOMAIN se.buf : se.buf[i] # Junk)
    /\ taken' = taken /\ empty' = empty
FileTakes(rd, w) ==
    /\ taken' = Cat(taken, SubSeq(rd.buf, 1, w)) /\ empty' = empty /\ cut' = cut
    /\ chain' = <<[rd EXCEPT !.buf = FileRest(rd.buf, w)]>> \o Tail(chain)
    /\ \/ rs' = rs /\ phase' = phase
       \/ rs' = [rs EXCEPT !.stage = "COMPLETED"] /\ phase' = "wait"

LEMMA FileEmits ==
    ASSUME EmitFile, NEW se, se = Head(chain), NEW rd, rd = FileRead(se)
    PROVE  /\ phase = "send" /\ se.kind = "file"
           /\ Failed \/ FileEnds(se, rd) \/ (rd.pos # se.pos /\ \E w \in 0 .. Len(rd.buf) : FileTakes(rd, w))
<1>1. phase = "send" /\ se.kind = "file"
  BY DEF EmitFile
<1>2. \/ Failed
      \/ /\ rd.pos = se.pos /\ rd.eof
         /\ Finished
         /\ cut' = (cut \/ \E i \in DOMAIN se.buf : se.buf[i] # Junk)
         /\ UNCHANGED <<taken, empty>>
      \/ /\ rd.pos # se.pos
         /\ \E w \in 0 .. Len(rd.buf) :
               /\ taken' = taken \o SubSeq(rd.buf, 1, w)
               /\ IF w = Len(rd.buf)
                  THEN chain' = <<[rd EXCEPT !.buf = FileRest(rd.buf, w)]>> \o Tail(chain) /\ UNCHANGED <<rs, phase>>
                  ELSE Again([rd EXCEPT !.buf = FileRest(rd.buf, w)])
               /\ UNCHANGED <<empty, cut>>
  BY Zenon DEF EmitFile
<1>3. ASSUME NEW w \in 0 .. Len(rd.buf), taken' = taken \o SubSeq(rd.buf, 1, w), UNCHANGED <<empty, cut>>,
             IF w = Len(rd.buf)
             THEN chain' = <<[rd EXCEPT !.buf = FileRest(rd.buf, w)]>> \o Tail(chain) /\ UNCHANGED <<rs, phase>>
             ELSE Again([rd EXCEPT !.buf = FileRest(rd.buf, w)])
      PROVE  FileTakes(rd, w)
  <2>1. CASE w = Len(rd.buf)
    BY <1>3, <2>1, Zenon DEF FileTakes, Cat
  <2>2. CASE w # Len(rd.buf)
    BY <1>3, <2>2, Zenon DEF FileTakes, Cat, Again
  <2> QED BY <2>1, <2>2
<1>4. ASSUME rd.pos = se.pos, rd.eof, Finished, cut' = (cut \/ \E i \in DOMAIN se.buf : se.buf[i] # Junk),
             UNCHANGED <<taken, empty>>
      PROVE  FileEnds(se, rd)
  BY <1>4, Zenon DEF FileEnds
<1> QED BY <1>1, <1>2, <1>3, <1>4, Zenon

\* The buffer of a file emitter is what lies between what was taken and what was
\* read; a write moves the border.
BufMoved(s, a, q, c, w, y) ==
    /\ c \in Seq(Toks) /\ Len(c) = q - a
    /\ Cat(y, SubSeq(c, 1, w)) = SubSeq(s, 1, a + w)
    /\ SubSeq(c, w + 1, Len(c)) = SubSeq(s, a + w + 1, q)

LEMMA BufGoes ==
    ASSUME NEW s \in Seq(Toks), NEW a \in Nat, NEW p \in Nat, NEW q \in Nat, a <= p, p <= q, q <= Len(s),
           NEW c, c = Cat(SubSeq(s, a + 1, p), SubSeq(s, p + 1, q)), NEW w \in 0 .. q - a,
           NEW y, y = SubSeq(s, 1, a)
    PROVE  BufMoved(s, a, q, c, w, y)
<1>1. c = SubSeq(s, a + 1, q)
  BY CutJoin
<1>2. a <= q /\ w \in Nat /\ Len(s) \in Nat
  OBVIOUS
<1>3. c \in Seq(Toks) /\ Len(c) = q - a
  <2>1. PICK d : d = SubSeq(s, a + 1, q)
    OBVIOUS
  <2>2. d \in Seq(Toks) /\ Len(d) = q - a
    BY <1>2, <2>1, CutOf
  <2> QED BY <1>1, <2>1, <2>2
<1>4. PICK o \in Nat : o = 0
  OBVIOUS
<1>5. PICK v \in Nat : v = a + w
  BY <1>2
<1>6. PICK m \in Nat : m = q - a
  BY <1>2
<1>7. /\ o <= w /\ w <= q - a /\ m <= q - a /\ w <= m /\ a + o + 1 = a + 1 /\ o + 1 = 1 /\ v <= q /\ v <= Len(s)
      /\ a + m = q /\ o <= a /\ a <= v /\ Len(c) = m
  BY <1>2, <1>3, <1>4, <1>5, <1>6
<1>8. SubSeq(c, 1, w) = SubSeq(s, a + 1, v)
  <2>1. SubSeq(SubSeq(s, a + 1, q), o + 1, w) = SubSeq(s, a + o + 1, a + w)
    BY <1>2, <1>7, CutCut
  <2> QED BY <1>1, <1>5, <1>7, <2>1
<1>9. SubSeq(c, w + 1, m) = SubSeq(s, v + 1, q)
  <2>1. SubSeq(SubSeq(s, a + 1, q), w + 1, m) = SubSeq(s, a + w + 1, a + m)
    BY <1>2, <1>7, CutCut
  <2> QED BY <1>1, <1>5, <1>7, <2>1
<1>10. Cat(SubSeq(s, 1, a), SubSeq(s, a + 1, v)) = SubSeq(s, 1, v)
  <2>0. o <= a /\ a <= v /\ v <= Len(s)
    BY <1>7
  <2>1. Cat(SubSeq(s, o + 1, a), SubSeq(s, a + 1, v)) = SubSeq(s, o + 1, v)
    BY <2>0, CutJoin, SMTT(60)
  <2> QED BY <1>7, <2>1
<1> QED BY <1>3, <1>5, <1>7, <1>8, <1>9, <1>10 DEF BufMoved

\* The end of a file whose bytes were all taken.
LEMMA FileEnd ==
    ASSUME NEW se \in EmitterRec, NEW y, FileOK(se, y), \A i \in 1 .. Len(se.src) : se.src[i] # Junk,
           NEW rd, NEW r, ReadBy(se, rd, r), rd.pos = se.pos, rd.eof,
           \A i \in 1 .. Len(se.buf) : se.buf[i] = Junk
    PROVE  y = se.src
<1>1. CASE se.eof
  BY <1>1 DEF FileOK
<1>2. CASE ~se.eof
  <2>1. PICK s \in Seq(Toks) : s = se.src
    BY DEF EmitterRec
  <2>2. PICK p \in Nat : p = se.pos
    BY DEF EmitterRec
  <2>3. PICK b \in Seq(Toks) : b = se.buf
    BY DEF EmitterRec
  <2>4. PICK l \in Nat : l = Len(b)
    OBVIOUS
  <2>5. p <= Len(s) /\ l <= p /\ y = SubSeq(s, 1, p - l) /\ b = SubSeq(s, p - l + 1, p)
    BY <1>2, <2>1, <2>2, <2>3, <2>4 DEF FileOK
  <2>6. r \in Nat /\ p = p + r /\ r < FileBuf - l /\ (r < FileBuf - l => r = Len(s) - p)
    BY <1>2, <2>1, <2>2, <2>3, <2>4 DEF ReadBy
  <2>7. p = Len(s)
    <3>1. r = 0 /\ r = Len(s) - p /\ Len(s) \in Nat
      BY <2>6
    <3> QED BY <3>1
  <2>8. PICK a \in Nat : a = p - l
    BY <2>5
  <2>9. a <= p /\ p - a = l /\ b = SubSeq(s, a + 1, p) /\ y = SubSeq(s, 1, a)
    BY <2>5, <2>8
  <2>10. \A n \in 1 .. l : b[n] = s[a + n]
    <3>1. \A n \in 1 .. p - a : b[n] = s[a + n]
      BY <2>5, <2>9, CutOf
    <3> QED BY <2>9, <3>1
  <2>11. l = 0
    <3>1. SUFFICES ASSUME l # 0 PROVE FALSE
      OBVIOUS
    <3>2. 1 \in 1 .. l /\ a + 1 \in 1 .. Len(s)
      BY <2>5, <2>8, <3>1
    <3>3. b[1] = s[a + 1] /\ b[1] = Junk /\ s[a + 1] # Junk
      BY <2>1, <2>3, <2>4, <2>10, <3>2
    <3> QED BY <3>3
  <2>12. a = Len(s)
    BY <2>7, <2>8, <2>11
  <2> QED BY <2>1, <2>9, <2>12, CutAll
<1> QED BY <1>1, <1>2

\* What is left in the buffer after w bytes of it were taken: the unsent bytes,
\* and whatever lies behind them when the file ended before the buffer was full.
LEMMA FileRestIs ==
    ASSUME NEW b \in Seq(Toks), Len(b) <= FileBuf, NEW w \in 0 .. Len(b), NEW R, R = SubSeq(b, w + 1, Len(b)),
           NEW t, t = FileRest(b, w)
    PROVE  /\ t \in Seq(Toks) /\ Len(t) = FileBuf - w /\ (Len(b) = FileBuf => t = R)
           /\ \A i \in 1 .. Len(b) - w : t[i] = R[i]
<1>1. PICK l \in Nat : l = Len(b)
  OBVIOUS
<1>2. FileBuf \in Nat /\ l <= FileBuf /\ w \in Nat /\ w <= l
  BY <1>1, HttpResponseAssumption
<1>3. PICK F \in Nat : F = FileBuf - l
  BY <1>2
<1>4. PICK J : J = [i \in 1 .. F |-> Junk]
  OBVIOUS
<1>5. Junk \in Toks
  <2>1. "junk" \in Kinds /\ 0 \in Nat
    BY DEF Kinds
  <2> QED BY <2>1, TokIs DEF Junk
<1>6. J \in Seq(Toks) /\ Len(J) = F /\ (F = 0 => J = <<>>)
  BY <1>4, <1>5
<1>7. R \in Seq(Toks) /\ Len(R) = l - w
  BY <1>1, <1>2, CutOf
<1>8. t = Cat(R, J)
  BY <1>1, <1>3, <1>4 DEF FileRest, Cat
<1>9. /\ Cat(R, J) \in Seq(Toks) /\ Len(Cat(R, J)) = Len(R) + Len(J)
      /\ \A i \in 1 .. Len(R) : Cat(R, J)[i] = R[i]
  <2>1. R \in Seq(Toks) /\ J \in Seq(Toks)
    BY <1>6, <1>7
  <2> QED BY <2>1, CatIs, ZenonT(60)
<1>10. t \in Seq(Toks) /\ Len(t) = FileBuf - w
  <2>1. (l - w) + F = FileBuf - w
    BY <1>2, <1>3
  <2>2. t \in Seq(Toks) /\ Len(t) = Len(R) + Len(J)
    BY <1>8, <1>9, Zenon
  <2> QED BY <1>6, <1>7, <2>1, <2>2
<1>11. \A i \in 1 .. l - w : t[i] = R[i]
  BY <1>7, <1>8, <1>9
<1>12. l = FileBuf => t = R
  <2>1. SUFFICES ASSUME l = FileBuf PROVE t = R
    OBVIOUS
  <2>2. J = <<>>
    BY <1>2, <1>3, <1>6, <2>1
  <2> QED BY <1>7, <1>8, <2>2, CatGroups
<1> QED BY <1>1, <1>10, <1>11, <1>12

\* One write of a file emitter: se is read into rd, of which w bytes are taken.
FileStep(se, y, rd, r, w, k, z) ==
    /\ se \in EmitterRec /\ FileOK(se, y) /\ \A i \in 1 .. Len(se.src) : se.src[i] # Junk
    /\ ReadBy(se, rd, r) /\ rd.pos # se.pos /\ w \in 0 .. Len(rd.buf)
    /\ k = [rd EXCEPT !.buf = FileRest(rd.buf, w)] /\ z = Cat(y, SubSeq(rd.buf, 1, w))

LEMMA FileGoes ==
    ASSUME NEW se, NEW y, NEW rd, NEW r, NEW w, NEW k, NEW z, FileStep(se, y, rd, r, w, k, z)
    PROVE  FileOK(k, z) /\ k \in EmitterRec /\ k.kind = se.kind /\ k.src = se.src /\ z \in Seq(Toks)
<1>0. /\ se \in EmitterRec /\ FileOK(se, y) /\ (\A i \in 1 .. Len(se.src) : se.src[i] # Junk)
      /\ ReadBy(se, rd, r) /\ rd.pos # se.pos /\ w \in 0 .. Len(rd.buf)
      /\ k = [rd EXCEPT !.buf = FileRest(rd.buf, w)] /\ z = Cat(y, SubSeq(rd.buf, 1, w))
  BY DEF FileStep
<1>1. PICK s \in Seq(Toks) : s = se.src
  BY <1>0 DEF EmitterRec
<1>2. PICK p \in Nat : p = se.pos
  BY <1>0 DEF EmitterRec
<1>3. PICK b \in Seq(Toks) : b = se.buf
  BY <1>0 DEF EmitterRec
<1>4. PICK l \in Nat : l = Len(b)
  OBVIOUS
<1>5. PICK L \in Nat : L = Len(s)
  OBVIOUS
<1>5a. PICK FB \in Nat : FB = FileBuf
  BY HttpResponseAssumption
<1>6. r \in Nat /\ r <= FB - l /\ r <= L - p /\ (r < FB - l => r = L - p)
  BY <1>0, <1>1, <1>2, <1>3, <1>4, <1>5, <1>5a DEF ReadBy
<1>6a. /\ rd \in EmitterRec /\ rd.kind = se.kind /\ rd.src = s /\ rd.buf = Cat(b, SubSeq(s, p + 1, p + r))
       /\ rd.pos = p + r /\ rd.eof = (se.eof \/ r < FB - l)
  BY <1>0, <1>1, <1>2, <1>3, <1>4, <1>5, <1>5a DEF ReadBy
<1>7. r # 0
  BY <1>0, <1>2, <1>6, <1>6a
<1>8. ~se.eof
  <2>1. SUFFICES ASSUME se.eof PROVE FALSE
    OBVIOUS
  <2>2. p = L
    BY <1>0, <1>1, <1>2, <1>5, <2>1 DEF FileOK
  <2> QED BY <1>6, <1>7, <2>2
<1>8a. p <= L /\ l <= p
  BY <1>0, <1>1, <1>2, <1>3, <1>4, <1>5, <1>8 DEF FileOK
<1>8b. y = SubSeq(s, 1, p - l) /\ b = SubSeq(s, p - l + 1, p)
  BY <1>0, <1>1, <1>2, <1>3, <1>4, <1>5, <1>8 DEF FileOK
<1>9. PICK a \in Nat : a = p - l
  BY <1>8a
<1>10. PICK q \in Nat : q = p + r
  BY <1>6
<1>11. PICK c : c = rd.buf
  OBVIOUS
<1>12. a <= p /\ p <= q /\ q <= L /\ q - a = l + r /\ p - a = l /\ (q - p) + l = q - a /\ q - a <= FB
  BY <1>6, <1>8a, <1>9, <1>10
<1>12a. y = SubSeq(s, 1, a) /\ b = SubSeq(s, a + 1, p)
  BY <1>8b, <1>9
<1>13. c \in Seq(Toks)
  BY <1>6a, <1>11 DEF EmitterRec
<1>14. c = Cat(b, SubSeq(s, p + 1, q)) /\ c = Cat(SubSeq(s, a + 1, p), SubSeq(s, p + 1, q))
  BY <1>6a, <1>10, <1>11, <1>12a
<1>15. Len(c) = q - a
  <2>0. PICK d : d = SubSeq(s, p + 1, q)
    OBVIOUS
  <2>0a. q <= Len(s)
    BY <1>5, <1>12
  <2>1. d \in Seq(Toks) /\ Len(d) = q - p
    BY <1>12, <2>0, <2>0a, CutOf
  <2>2. Len(Cat(b, d)) = Len(b) + Len(d)
    BY <2>1, CatIs
  <2>3. Len(c) = l + (q - p)
    BY <1>4, <1>14, <2>0, <2>1, <2>2
  <2> QED BY <1>12, <2>3
<1>16. w \in Nat /\ w <= q - a
  BY <1>0, <1>11, <1>12, <1>15
<1>17. BufMoved(s, a, q, c, w, y)
  <2>1. q <= Len(s) /\ a <= p /\ p <= q
    BY <1>5, <1>12
  <2>2. w \in 0 .. q - a
    BY <1>16
  <2> QED BY <1>12a, <1>14, <2>1, <2>2, BufGoes
<1>18. PICK v \in Nat : v = a + w
  BY <1>16
<1>19. z = SubSeq(s, 1, v) /\ SubSeq(c, w + 1, Len(c)) = SubSeq(s, v + 1, q)
  BY <1>0, <1>11, <1>17, <1>18 DEF BufMoved
<1>19a. v <= q /\ q - v = (q - a) - w /\ v <= L
  BY <1>12, <1>16, <1>18
<1>20. PICK R : R = SubSeq(s, v + 1, q)
  OBVIOUS
<1>21. PICK t : t = FileRest(c, w)
  OBVIOUS
<1>22. Len(c) <= FB /\ w \in 0 .. Len(c)
  BY <1>12, <1>15, <1>16
<1>23. /\ t \in Seq(Toks) /\ Len(t) = FB - w /\ (Len(c) = FB => t = R)
       /\ \A i \in 1 .. Len(c) - w : t[i] = R[i]
  <2>1. R = SubSeq(c, w + 1, Len(c))
    BY <1>19, <1>20
  <2>2. Len(c) <= FileBuf
    BY <1>5a, <1>22
  <2>3. /\ t \in Seq(Toks) /\ Len(t) = FileBuf - w /\ (Len(c) = FileBuf => t = R)
        /\ \A i \in 1 .. Len(c) - w : t[i] = R[i]
    BY <1>13, <1>21, <1>22, <2>1, <2>2, FileRestIs, SMTT(60)
  <2> QED BY <1>5a, <2>3
<1>24. k = [rd EXCEPT !.buf = t]
  BY <1>0, <1>11, <1>21
<1>25. k \in EmitterRec /\ k.kind = se.kind /\ k.src = s /\ k.pos = q /\ k.buf = t /\ k.eof = rd.eof
  BY <1>6a, <1>10, <1>23, <1>24 DEF EmitterRec
<1>26. z \in Seq(Toks) /\ (v = L => z = s)
  <2>1. v \in 0 .. Len(s)
    BY <1>5, <1>19a
  <2> QED BY <1>5, <1>19, <2>1, CutAll
<1>27. R \in Seq(Toks) /\ Len(R) = q - v /\ \A n \in 1 .. q - v : R[n] = s[v + n]
  <2>1. q <= Len(s) /\ v <= q
    BY <1>5, <1>12, <1>19a
  <2>2. R \in Seq(Toks) /\ Len(R) = q - v
    BY <1>20, <2>1, CutOf
  <2>3. ASSUME NEW n \in 1 .. q - v PROVE R[n] = s[v + n]
    BY <1>20, <2>1, CutOf
  <2> QED BY <2>2, <2>3, Zenon
<1>28. CASE rd.eof
  <2>1. q = L
    <3>1. r < FB - l
      BY <1>6a, <1>8, <1>28
    <3> QED BY <1>6, <1>10, <3>1
  <2>2. ASSUME \A i \in 1 .. Len(t) : t[i] = Junk PROVE z = s
    <3>1. SUFFICES ASSUME v # L PROVE FALSE
      BY <1>26
    <3>2. 1 \in 1 .. q - v /\ v + 1 \in 1 .. L
      BY <1>19a, <2>1, <3>1
    <3>2a. 1 \in 1 .. Len(c) - w /\ 1 \in 1 .. Len(t)
      <4>1. Len(c) - w >= 1 /\ FB - w >= 1
        BY <1>12, <1>15, <1>16, <1>19a, <3>2
      <4> QED BY <1>15, <1>16, <1>23, <4>1
    <3>3. t[1] = R[1] /\ R[1] = s[v + 1] /\ t[1] = Junk
      BY <1>23, <1>27, <2>2, <3>2, <3>2a
    <3>4. s[v + 1] # Junk
      BY <1>0, <1>1, <1>5, <3>2
    <3> QED BY <3>3, <3>4
  <2>3. Len(t) <= FB
    BY <1>16, <1>23
  <2>4. /\ k.eof /\ k.pos = Len(k.src) /\ Len(k.buf) <= FileBuf
        /\ (\A i \in 1 .. Len(k.buf) : k.buf[i] = Junk) => z = k.src
    BY <1>5, <1>5a, <1>25, <1>28, <2>1, <2>2, <2>3
  <2>5. FileOK(k, z)
    BY <2>4, Zenon DEF FileOK
  <2> QED BY <1>1, <1>25, <1>26, <2>5
<1>29. CASE ~rd.eof
  <2>1. r = FB - l
    <3>1. ~(r < FB - l)
      BY <1>6a, <1>8, <1>29
    <3> QED BY <1>6, <3>1
  <2>2. Len(c) = FB
    BY <1>12, <1>15, <2>1
  <2>3. t = R /\ Len(t) = q - v
    BY <1>23, <1>27, <2>2
  <2>4. q - (q - v) = v /\ q <= L /\ q - v <= q /\ q - v <= FB
    BY <1>12, <1>16, <1>18, <1>19a
  <2>5. /\ ~k.eof /\ k.pos <= Len(k.src) /\ Len(k.buf) <= k.pos /\ Len(k.buf) <= FileBuf
        /\ k.pos - Len(k.buf) = v
    BY <1>5, <1>5a, <1>25, <1>29, <2>3, <2>4
  <2>6. z = SubSeq(k.src, 1, k.pos - Len(k.buf)) /\ k.buf = SubSeq(k.src, k.pos - Len(k.buf) + 1, k.pos)
    BY <1>19, <1>20, <1>25, <2>3, <2>5
  <2>7. FileOK(k, z)
    BY <2>5, <2>6, Zenon DEF FileOK
  <2> QED BY <1>1, <1>25, <1>26, <2>7
<1> QED BY <1>28, <1>29

LEMMA EmitFileRes ==
    ASSUME ResInv, EmitFile
    PROVE  ResInv'
<1>1. PICK se : se = Head(chain)
  OBVIOUS
<1>2. PICK rd : rd = FileRead(se)
  OBVIOUS
<1>3. /\ phase = "send" /\ se.kind = "file"
      /\ Failed \/ FileEnds(se, rd) \/ (rd.pos # se.pos /\ \E w \in 0 .. Len(rd.buf) : FileTakes(rd, w))
  BY <1>1, <1>2, FileEmits
<1>4. /\ Sending(chain, taken, rs) /\ cut \in BOOLEAN /\ rs.buf \in Seq(Toks) /\ BodyOK(rs.bodySe)
  BY <1>3 DEF ResInv, Complete, ResRec
<1>5. PICK y \in Seq(Toks) : /\ se \in EmitterRec /\ chain = <<se>> /\ se.src = rs.bodySe.src
                             /\ taken = Cat(rs.buf, y) /\ FileOK(se, y) /\ rs.bodySe # None
  <2>1. ASSUME NEW h, chain = (IF rs.bodySe = None THEN <<h>> ELSE <<h, rs.bodySe>>), h.kind = "raw"
        PROVE  FALSE
    <3>1. h = se
      BY <1>1, <2>1
    <3> QED BY <1>3, <2>1, <3>1
  <2>2. PICK x \in EmitterRec, y \in Seq(Toks) :
           /\ chain = <<x>> /\ rs.bodySe # None /\ x.src = rs.bodySe.src /\ taken = Cat(rs.buf, y)
           /\ \/ x.kind = "raw" /\ x.pos <= Len(x.src) /\ y = SubSeq(x.src, 1, x.pos)
              \/ x.kind = "file" /\ FileOK(x, y)
    BY <1>4, <2>1, Zenon DEF Sending
  <2>3. x = se
    BY <1>1, <2>2
  <2> QED BY <1>3, <2>2, <2>3
<1>6. \A i \in 1 .. Len(se.src) : se.src[i] # Junk
  BY <1>4, <1>5, BodyIs
<1>7. Len(chain) = 1 /\ Tail(chain) = <<>>
  BY <1>5
<1>8. Len(se.buf) <= FileBuf /\ se.pos <= Len(se.src)
  <2>1. Len(se.src) \in Nat
    BY <1>5 DEF EmitterRec
  <2> QED BY <1>5, <2>1 DEF FileOK
<1>9. PICK r : ReadBy(se, rd, r)
  BY <1>2, <1>5, <1>8, ReadIs
<1>10. CASE Failed
  BY <1>10, FailedRes
<1>11. CASE FileEnds(se, rd)
  <2>1. /\ rd.pos = se.pos /\ rd.eof /\ Finished /\ taken' = taken /\ empty' = empty
        /\ cut' = (cut \/ \E i \in DOMAIN se.buf : se.buf[i] # Junk)
    BY <1>11 DEF FileEnds
  <2>2. phase' = "done" /\ rs' = [rs EXCEPT !.stage = "COMPLETED"] /\ cut' \in BOOLEAN
    BY <1>7, <2>1 DEF Finished
  <2>3. ASSUME ~cut' PROVE y = rs.bodySe.src
    <3>1. DOMAIN se.buf = 1 .. Len(se.buf)
      BY <1>5 DEF EmitterRec
    <3>2. \A i \in 1 .. Len(se.buf) : se.buf[i] = Junk
      BY <2>1, <2>3, <3>1
    <3> QED BY <1>5, <1>6, <1>9, <2>1, <3>2, FileEnd
  <2>4. Sent(taken', rs, cut')
    BY <1>5, <2>1, <2>3, Zenon DEF Sent
  <2>5. rs' \in {rs, [rs EXCEPT !.stage = "COMPLETED"]}
    BY <2>2
  <2> QED BY <1>3, <2>1, <2>2, <2>4, <2>5, DoneStep
<1>12. ASSUME rd.pos # se.pos, NEW w \in 0 .. Len(rd.buf), FileTakes(rd, w) PROVE ResInv'
  <2>1. PICK k : k = [rd EXCEPT !.buf = FileRest(rd.buf, w)]
    OBVIOUS
  <2>2. PICK x : x = SubSeq(rd.buf, 1, w)
    OBVIOUS
  <2>3. PICK z : z = Cat(y, x)
    OBVIOUS
  <2>4. FileStep(se, y, rd, r, w, k, z)
    BY <1>5, <1>6, <1>9, <1>12, <2>1, <2>2, <2>3 DEF FileStep
  <2>5. FileOK(k, z) /\ k \in EmitterRec /\ k.kind = se.kind /\ k.src = se.src /\ z \in Seq(Toks)
    BY <2>4, FileGoes
  <2>6. chain' = <<k>> /\ empty' = empty /\ cut' = cut /\ taken' = Cat(taken, x)
    <3>1. /\ chain' = <<k>> \o Tail(chain) /\ empty' = empty /\ cut' = cut
          /\ taken' = Cat(taken, x)
      BY <1>12, <2>1, <2>2, Zenon DEF FileTakes
    <3>2. <<k>> \o <<>> = <<k>>
      OBVIOUS
    <3> QED BY <1>7, <3>1, <3>2
  <2>7. taken' = Cat(rs.buf, z)
    <3>1. x \in Seq(Toks)
      <4>1. rd.buf \in Seq(Toks)
        BY <1>9 DEF ReadBy, EmitterRec
      <4> QED BY <1>12, <2>2, <4>1, CutAll
    <3>2. Cat(Cat(rs.buf, y), x) = Cat(rs.buf, Cat(y, x))
      BY <1>4, <3>1, CatGroups
    <3> QED BY <1>5, <2>3, <2>6, <3>2
  <2>8. rs' \in {rs, [rs EXCEPT !.stage = "COMPLETED"]} /\ phase' \in {"send", "wait"}
    BY <1>3, <1>12 DEF FileTakes
  <2>9. k.src = rs.bodySe.src /\ k.kind = "file" /\ rs.bodySe # None
    BY <1>3, <1>5, <2>5
  <2>10. Sending(chain', taken', rs)
    BY <2>5, <2>6, <2>7, <2>9, Zenon DEF Sending
  <2> QED BY <1>3, <2>6, <2>8, <2>10, SendStep
<1> QED BY <1>3, <1>10, <1>11, <1>12

LEMMA WriteRes ==
    ASSUME ResInv, CanWrite
    PROVE  ResInv'
<1>1. /\ phase = "wait" /\ phase' = "send" /\ rs' = rs /\ chain' = chain /\ taken' = taken /\ empty' = empty
      /\ cut' = cut
  BY DEF CanWrite
<1>2. Sending(chain', taken', rs)
  BY <1>1 DEF ResInv
<1> QED BY <1>1, <1>2, SendStep

\* FramedAsWritten of http_response.c and socket_emitter.c: a response that was
\* sent is read by a client as the application wrote it, in any order of the
\* calls that build it, for bodies, files and file buffers of any length, and
\* wherever the socket takes only a part of what is written to it.
THEOREM AnswerFramed == ResSpec => []FramedAsWritten
<1>1. ResInv /\ [ResNext]_resVars => ResInv'
  <2> SUFFICES ASSUME ResInv, [ResNext]_resVars PROVE ResInv'
    OBVIOUS
  <2>1. ASSUME NEW m \in {"FIXED", "CHUNKED"}, Begin(m) PROVE ResInv'
    BY <2>1, BeginRes
  <2>2. ASSUME NEW a \in {"CLOSE", "KEEP", "UPGRADE"}, SetAction(a) PROVE ResInv'
    BY <2>2, ActionRes DEF Acts
  <2>3. ASSUME NEW n \in 0 .. 2, BodyRaw(n) PROVE ResInv'
    BY <2>3, RawRes
  <2>4. ASSUME NEW n \in FileLens, BodyEmt(Emitter("raw", EmtBytes(n))) \/ BodyEmt(Emitter("file", EmtBytes(n)))
        PROVE  ResInv'
    <3>1. BodyOK(Emitter("raw", EmtBytes(n))) /\ BodyOK(Emitter("file", EmtBytes(n)))
      BY HttpResponseAssumption DEF BodyOK
    <3> QED BY <2>4, <3>1, EmtRes
  <2>5. CASE End
    BY <2>5, EndRes
  <2>6. CASE EmitRaw
    BY <2>6, EmitRawRes
  <2>7. CASE EmitFile
    BY <2>7, EmitFileRes
  <2>8. CASE CanWrite
    BY <2>8, WriteRes
  <2>9. CASE UNCHANGED resVars
    <3>1. rs' = rs /\ chain' = chain /\ taken' = taken /\ phase' = phase /\ empty' = empty /\ cut' = cut
      BY <2>9 DEF resVars
    <3> QED BY <3>1, Zenon DEF ResInv
  <2> QED BY <2>1, <2>2, <2>3, <2>4, <2>5, <2>6, <2>7, <2>8, <2>9, Zenon DEF ResNext
<1>2. ResInv => FramedAsWritten
  BY SentIsRead DEF FramedAsWritten
<1> QED BY <1>1, <1>2, InitRes, PTL DEF ResSpec
=============================================================================
