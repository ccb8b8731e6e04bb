------------------------------ MODULE NmStream ------------------------------
(***************************************************************************)
(* One NM connection over a plain TCP socket: the blocking client          *)
(* (nm_stream_client.c), the server's connection object and callbacks      *)
(* (nm_stream_connection.c, nm_stream_server.c, socket_connection.c), and  *)
(* other threads of the server application that send on the connection.    *)
(*                                                                         *)
(* Each direction of the TCP connection is a sequence of at most PipeCap   *)
(* bytes; a read takes any part of them, so messages arrive in arbitrary   *)
(* pieces.  The socket server below is taken at its promises: it calls     *)
(* can_read and can_write of a socket one at a time, and only for a        *)
(* direction in the socket's interest set (StreamServer has the rest).     *)
(***************************************************************************)
EXTENDS SocketState, NmProtocol

CONSTANTS ReqMsgs,     \* the messages the client may send
          RepMsgs,     \* the messages other server threads may send
          MaxReq,      \* bound on the client's sends
          MaxPush,     \* bound on the other threads' sends
          MaxRecv,     \* bound on the client's receives
          PipeCap      \* bytes in flight in one direction

ASSUME BoundsAssumption ==
    /\ MaxReq \in Nat /\ MaxPush \in Nat /\ MaxRecv \in Nat
    /\ PipeCap \in Nat \ {0}

\* What a caller keeps to: fewer than 2^16 fields, names that are not empty and
\* values that have the size of their type, or a length that fits 32 bits.
TwoTo16 == 65536
Byte == 0 .. 255
FieldOK(name, v) ==
    /\ name \in Seq(Byte) /\ name # <<>>
    /\ v = [type |-> v.type, value |-> v.value] /\ v.value \in Seq(Byte)
    /\ IF HasLength(v.type) THEN Len(v.value) \div TwoTo16 < TwoTo16
       ELSE Supported(v.type) => Len(v.value) = ElemSize(v.type)
MsgOK(m) ==
    /\ m = [n \in DOMAIN m |-> m[n]]
    /\ IsFiniteSet(DOMAIN m) /\ Cardinality(DOMAIN m) < TwoTo16
    /\ \A n \in DOMAIN m : FieldOK(n, m[n])

ASSUME MsgsAssumption == \A m \in ReqMsgs \cup RepMsgs : MsgOK(m)

VARIABLES
    flags,      \* state word of the server's socket
    con,        \* the connection object: "none", "live" or "freed"
    srv,        \* the server callback: "idle", "read" or "msg"
    par,        \* con->parser
    recvbuf,    \* con->sock_con.recvbuf, the unread bytes
    sendbuf,    \* con->sock_con.sendbuf, the unwritten bytes
    writing,    \* con->sock_con.writing
    cl,         \* the client thread: "idle", "send", "recv" or "closed"
    clout,      \* the bytes of its send that are not yet in the kernel
    clpar,      \* cl->parser
    clbuf,      \* cl->buf, the unread bytes
    c2s, s2c,   \* bytes in flight
    calls,      \* how often the bounded calls were made
    mishaps,    \* history: a con_send that failed to encode ("encode") or to
                \* write ("write"), a recv that ended inside a message ("cut")
    bad,        \* history: whose parser has met an invalid byte
    reqSent, reqGot, repSent, repGot    \* history: whole messages

sockVars == <<flags, con>>
readVars == <<srv, par, recvbuf>>
sendVars == <<sendbuf, writing>>
clVars   == <<cl, clout, clpar, clbuf>>
netVars  == <<c2s, s2c>>
histVars == <<mishaps, bad, reqSent, reqGot, repSent, repGot>>
vars     == <<sockVars, readVars, sendVars, clVars, netVars, calls, histVars>>

Init ==
    /\ flags = {} /\ con = "none"
    /\ srv = "idle" /\ par = NewParser({}) /\ recvbuf = <<>>
    /\ sendbuf = <<>> /\ writing = FALSE
    /\ cl = "idle" /\ clout = <<>> /\ clpar = NewParser({}) /\ clbuf = <<>>
    /\ c2s = <<>> /\ s2c = <<>>
    /\ calls = [req |-> 0, push |-> 0, recv |-> 0]
    /\ mishaps = {} /\ bad = {}
    /\ reqSent = <<>> /\ reqGot = <<>> /\ repSent = <<>> /\ repGot = <<>>

Open   == con = "live" /\ "CLOSED" \notin flags
Closed == "CLOSED" \in flags

Smaller(a, b) == IF a <= b THEN a ELSE b
Drop(s, n) == SubSeq(s, n + 1, Len(s))
Prefix(s, n) == SubSeq(s, 1, n)

-----------------------------------------------------------------------------
(* vtm_socket_con: the queue of unsent bytes. *)

\* vtm_socket_plain_write: on a socket whose peer is gone the call fails or is
\* accepted and lost; otherwise it takes what fits.  A call that lacks buffer
\* space or is interrupted fails and leaves no flag.
WriteOutcomes(buf) ==
    IF Closed THEN {[res |-> "closed", n |-> 0]}
    ELSE LET n  == Smaller(Len(buf), PipeCap - Len(s2c))
             up == [res |-> IF n = Len(buf) THEN "ok" ELSE "again", n |-> n]
         IN  IF cl = "closed"
             THEN {[res |-> "ok", n |-> Len(buf)], [res |-> "error", n |-> 0]}
             ELSE {up, [res |-> "failed", n |-> 0]}

\* Mutant: a partial write ends the writing all the same.
WriteQueue_Done(buf, o) ==
    /\ sendbuf' = Drop(buf, o.n)
    /\ s2c' = IF cl = "closed" THEN s2c ELSE s2c \o Prefix(buf, o.n)
    /\ writing' = FALSE

\* vtm_socket_con_write_internal with the bytes buf in the queue.  Unless
\* everything was written the listener is told to watch the socket anew, with
\* the interest its flags then have.
WriteQueue(buf, o) ==
    /\ sendbuf' = Drop(buf, o.n)
    /\ s2c' = IF cl = "closed" THEN s2c ELSE s2c \o Prefix(buf, o.n)
    /\ writing' = (o.res # "ok")

\* vtm_socket_write: a failure without a flag sets the hints like a success.
WriteFlags(o) ==
    CASE o.res = "closed" -> flags
      [] o.res = "failed" -> WriteState(flags, "ok")
      [] OTHER            -> WriteState(flags, o.res)

\* vtm_socket_con_write_start: a write that is under way takes the new bytes
\* along.
WriteStart(buf) ==
    IF writing
    THEN sendbuf' = buf /\ UNCHANGED <<flags, s2c, writing, mishaps>>
    ELSE \E o \in WriteOutcomes(buf) :
            /\ WriteQueue(buf, o)
            /\ flags' = WriteFlags(o)
            /\ mishaps' = IF o.res \in {"ok", "again"} THEN mishaps
                                                      ELSE mishaps \cup {"write"}

\* vtm_nm_stream_con_send, under write_mtx.  The bytes of an encoding that
\* failed stay in the queue.
ConSend(m) ==
    LET buf == sendbuf \o MsgBytes(m)
    IN  \E rc \in EncodeResults(m) :
            IF rc = "OK"
            THEN /\ WriteStart(buf)
                 /\ repSent' = Append(repSent, m)
            ELSE /\ sendbuf' = buf
                 /\ mishaps' = mishaps \cup {"encode"}
                 /\ UNCHANGED <<flags, s2c, writing, repSent>>

-----------------------------------------------------------------------------
(* The server. *)

\* vtm_nm_stream_srv_sock_connected.
SockConnected ==
    /\ con = "none"
    /\ con' = "live"
    /\ flags' = flags \cup {"NBL_AUTO", "NBL_READ"}
    /\ UNCHANGED <<readVars, sendVars, clVars, netVars, calls, histVars>>

\* vtm_nm_stream_srv_sock_disconnected, after the socket is closed.
SockDisconnected ==
    /\ con = "live" /\ Closed /\ srv = "idle"
    /\ con' = "freed"
    /\ UNCHANGED <<flags, readVars, sendVars, clVars, netVars, calls, histVars>>

\* The listener reports the socket readable.
CanRead ==
    /\ Open /\ srv = "idle" /\ "IN" \in Interest(flags)
    /\ c2s # <<>> \/ cl = "closed"
    /\ srv' = "read"
    /\ UNCHANGED <<sockVars, par, recvbuf, sendVars, clVars, netVars, calls, histVars>>

\* Mutant: every read starts a new message.
Parse_Restart(buf, again, fl) ==
    LET r == ParserRun(NewParser({}), buf)
    IN  /\ par' = r.par /\ recvbuf' = r.buf
        /\ srv' = CASE r.stat = "COMPLETE" -> "msg"
                    [] r.stat = "AGAIN"    -> IF again THEN "idle" ELSE "read"
                    [] OTHER               -> "idle"
        /\ flags' = IF r.stat = "INVALID" THEN CloseState(fl) ELSE fl
        /\ bad' = IF r.stat = "INVALID" THEN bad \cup {"server"} ELSE bad

\* vtm_nm_stream_con_read after a read that returned OK or IO_AGAIN: the
\* parser goes on where it stopped, and can_read returns, goes on reading,
\* hands out a message or closes the socket.
Parse(buf, again, fl) ==
    LET r == ParserRun(par, buf)
    IN  /\ par' = r.par /\ recvbuf' = r.buf
        /\ srv' = CASE r.stat = "COMPLETE" -> "msg"
                    [] r.stat = "AGAIN"    -> IF again THEN "idle" ELSE "read"
                    [] OTHER               -> "idle"
        /\ flags' = IF r.stat = "INVALID" THEN CloseState(fl) ELSE fl
        /\ bad' = IF r.stat = "INVALID" THEN bad \cup {"server"} ELSE bad

\* One turn of vtm_nm_stream_con_read that reads n bytes.
ConRead ==
    /\ srv = "read" /\ ~Closed
    /\ \E n \in 1..Len(c2s) :
          /\ Parse(recvbuf \o Prefix(c2s, n), FALSE, ReadState(flags, "data"))
          /\ c2s' = Drop(c2s, n)
    /\ UNCHANGED <<con, sendVars, clVars, s2c, calls, mishaps,
                   reqSent, reqGot, repSent, repGot>>

\* Nothing has arrived: what is left in the buffer is parsed all the same.
ConReadAgain ==
    /\ srv = "read" /\ ~Closed
    /\ c2s = <<>> => cl # "closed"
    /\ IF recvbuf = <<>>
       THEN /\ srv' = "idle"
            /\ flags' = ReadState(flags, "again")
            /\ UNCHANGED <<par, recvbuf, bad>>
       ELSE Parse(recvbuf, TRUE, ReadState(flags, "again"))
    /\ UNCHANGED <<con, sendVars, clVars, netVars, calls, mishaps,
                   reqSent, reqGot, repSent, repGot>>

\* Another thread has closed the socket, or the client has: end of file, or a
\* reset that drops what was under way.  can_read closes the socket whatever
\* the buffer still holds.
ConReadFails ==
    /\ srv = "read"
    /\ \/ Closed /\ UNCHANGED flags
       \/ /\ ~Closed /\ cl = "closed"
          /\ \E r \in {"error"} \cup (IF c2s = <<>> THEN {"eof"} ELSE {}) :
                flags' = CloseState(ReadState(flags, r))
    /\ srv' = "idle"
    /\ UNCHANGED <<con, par, recvbuf, sendVars, clVars, netVars, calls, histVars>>

\* vtm_nm_parser_get_msg, then the application's client_msg callback, which
\* answers with the same message or not at all.  A message without fields
\* never got a dataset and closes the connection.
ClientMsg ==
    /\ srv = "msg"
    /\ par' = [par EXCEPT !.msg = {}, !.state = "MSG_BEGIN"]
    /\ \/ /\ par.msg = {}
          /\ flags' = CloseState(flags)
          /\ srv' = "idle"
          /\ UNCHANGED <<sendVars, s2c, mishaps, reqGot, repSent>>
       \/ \E m \in par.msg :
             /\ reqGot' = Append(reqGot, m)
             /\ srv' = "read"
             /\ \/ ConSend(m)
                \/ UNCHANGED <<flags, sendVars, s2c, mishaps, repSent>>
    /\ UNCHANGED <<con, recvbuf, clVars, c2s, calls, bad, reqSent, repGot>>

\* vtm_nm_stream_srv_sock_can_write: an error closes the socket.
CanWrite ==
    /\ Open /\ srv = "idle" /\ "OUT" \in Interest(flags)
    /\ Len(s2c) < PipeCap \/ cl = "closed"
    /\ \E o \in WriteOutcomes(sendbuf) :
          /\ WriteQueue(sendbuf, o)
          /\ flags' = IF o.res \in {"ok", "again"} THEN WriteFlags(o)
                                                ELSE CloseState(WriteFlags(o))
    /\ UNCHANGED <<con, readVars, clVars, c2s, calls, histVars>>

\* Another thread of the application sends, or closes the connection.  It
\* stops using the connection when client_disconnect is called.
Push ==
    /\ con = "live" /\ calls.push < MaxPush
    /\ \E m \in RepMsgs : ConSend(m)
    /\ calls' = [calls EXCEPT !.push = @ + 1]
    /\ UNCHANGED <<con, readVars, clVars, c2s, bad, reqSent, reqGot, repGot>>

ConClose ==
    /\ Open
    /\ flags' = CloseState(flags)
    /\ UNCHANGED <<con, readVars, sendVars, clVars, netVars, calls, histVars>>

-----------------------------------------------------------------------------
(* The client. *)

\* vtm_nm_stream_client_send: a failed encoding sends nothing.
ClientSend ==
    /\ cl = "idle" /\ calls.req < MaxReq
    /\ \E m \in ReqMsgs : \E rc \in EncodeResults(m) :
          IF rc = "OK"
          THEN /\ cl' = "send" /\ clout' = MsgBytes(m)
               /\ reqSent' = Append(reqSent, m)
          ELSE UNCHANGED <<cl, clout, reqSent>>
    /\ calls' = [calls EXCEPT !.req = @ + 1]
    /\ UNCHANGED <<sockVars, readVars, sendVars, clpar, clbuf, netVars,
                   mishaps, bad, reqGot, repSent, repGot>>

\* The blocking write puts in what fits until all is written; the socket of
\* a server that has closed refuses it.
ClientWrite ==
    /\ cl = "send"
    /\ IF Closed
       THEN clout' = <<>> /\ cl' = "idle" /\ UNCHANGED c2s
       ELSE LET n == Smaller(Len(clout), PipeCap - Len(c2s))
            IN  /\ n > 0
                /\ c2s' = c2s \o Prefix(clout, n)
                /\ clout' = Drop(clout, n)
                /\ cl' = IF n = Len(clout) THEN "idle" ELSE "send"
    /\ UNCHANGED <<sockVars, readVars, sendVars, clpar, clbuf, s2c, calls, histVars>>

\* vtm_nm_stream_client_recv after the bytes buf are there to parse.
ClientParse(p, buf) ==
    LET r == ParserRun(p, buf)
    IN  /\ clbuf' = r.buf
        /\ cl' = IF r.stat = "AGAIN" THEN "recv" ELSE "idle"
        /\ clpar' = IF r.stat = "AGAIN" THEN r.par ELSE [r.par EXCEPT !.msg = {}]
        /\ repGot' = IF r.stat = "COMPLETE" THEN repGot \o SetToSeq(r.par.msg) ELSE repGot
        /\ bad' = IF r.stat = "INVALID" THEN bad \cup {"client"} ELSE bad

\* Mutant: the parser is not reset, only given the new dataset.
ClientRecv_NoReset ==
    /\ cl = "idle" /\ calls.recv < MaxRecv
    /\ calls' = [calls EXCEPT !.recv = @ + 1]
    /\ IF clbuf # <<>>
       THEN ClientParse([clpar EXCEPT !.msg = {<<>>}], clbuf)
       ELSE /\ cl' = "recv" /\ clpar' = [clpar EXCEPT !.msg = {<<>>}]
            /\ UNCHANGED <<clbuf, repGot, bad>>
    /\ UNCHANGED <<sockVars, readVars, sendVars, clout, netVars, mishaps,
                   reqSent, reqGot, repSent>>

\* A new call of recv: the parser starts afresh, with the caller's dataset,
\* and first looks at what the last call left in the buffer.
ClientRecv ==
    /\ cl = "idle" /\ calls.recv < MaxRecv
    /\ calls' = [calls EXCEPT !.recv = @ + 1]
    /\ IF clbuf # <<>>
       THEN ClientParse(NewParser({<<>>}), clbuf)
       ELSE /\ cl' = "recv" /\ clpar' = NewParser({<<>>})
            /\ UNCHANGED <<clbuf, repGot, bad>>
    /\ UNCHANGED <<sockVars, readVars, sendVars, clout, netVars, mishaps,
                   reqSent, reqGot, repSent>>

ClientRead ==
    /\ cl = "recv"
    /\ \E n \in 1..Len(s2c) :
          /\ ClientParse(clpar, clbuf \o Prefix(s2c, n))
          /\ s2c' = Drop(s2c, n)
    /\ UNCHANGED <<sockVars, readVars, sendVars, clout, c2s, calls, mishaps,
                   reqSent, reqGot, repSent>>

\* The read fails: VTM_SOCK_OPT_RECV_TIMEOUT has passed, or the server has
\* closed.  Bytes the parser has taken out of the buffer are lost to the next
\* call.
ClientRecvFails ==
    /\ cl = "recv" /\ (s2c = <<>> \/ Closed)
    /\ cl' = "idle"
    /\ clpar' = [clpar EXCEPT !.msg = {}]
    /\ mishaps' = IF clpar.state \in {"MSG_BEGIN", "MAGIC"} THEN mishaps
                                                        ELSE mishaps \cup {"cut"}
    /\ UNCHANGED <<sockVars, readVars, sendVars, clout, clbuf, netVars, calls,
                   bad, reqSent, reqGot, repSent, repGot>>

\* vtm_nm_stream_client_close.
ClientClose ==
    /\ cl = "idle"
    /\ cl' = "closed"
    /\ UNCHANGED <<sockVars, readVars, sendVars, clout, clpar, clbuf, netVars,
                   calls, histVars>>

-----------------------------------------------------------------------------

Next ==
    \/ SockConnected \/ SockDisconnected
    \/ CanRead \/ ConRead \/ ConReadAgain \/ ConReadFails \/ ClientMsg
    \/ CanWrite \/ Push \/ ConClose
    \/ ClientSend \/ ClientWrite
    \/ ClientRecv \/ ClientRead \/ ClientRecvFails \/ ClientClose

Spec == Init /\ [][Next]_vars

-----------------------------------------------------------------------------
(* Properties. *)

Requests == INSTANCE NmChannel WITH sent <- reqSent, got <- reqGot

\* Whatever pieces the requests arrive in, the client_msg callback sees them
\* whole and in order (the resumable parser, con_read and get_msg).
RequestsInOrder == Requests!ChanSpec

\* The same for the replies, with several server threads queueing them while
\* earlier ones are half written, until an encoding fails on the server or
\* the client gives up in the middle of a message.  Failing writes do no harm.
RepliesInOrder ==
    mishaps \subseteq {"write"} =>
        /\ Len(repGot) <= Len(repSent)
        /\ repGot = Prefix(repSent, Len(repGot))

\* No parser meets a byte it must refuse: the server's never (a failed encoding
\* of the client sends nothing), the client's only after the framing of the
\* replies was broken by one of those two events; and no parser, which compares
\* its two counts for equality only, passes the field count of its message.
WellFramed ==
    /\ "server" \notin bad
    /\ \A p \in {par, clpar} : p.fields_parsed <= p.field_count
    /\ mishaps \subseteq {"write"} => bad = {}

\* Unsent replies are not forgotten: as long as no con_send has returned an
\* error, a queue that is not empty is being written, and being written means
\* that the listener is asked for writability - under NBL_AUTO for that only,
\* so that the server reads no more requests until its replies are out.
PendingWatched ==
    (Open /\ mishaps \subseteq {"cut"}) =>
        /\ (sendbuf # <<>>) = writing
        /\ Interest(flags) = IF writing THEN {"OUT"} ELSE {"IN"}

=============================================================================
