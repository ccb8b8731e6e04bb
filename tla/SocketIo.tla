------------------------------ MODULE SocketIo ------------------------------
(***************************************************************************)
(* One stream socket and its peer: the calls of socket.c on the two        *)
(* implementations, plain (socket_plain.c) and TLS (socket_tls_openssl.c), *)
(* with the helpers they share (socket_util.c).  SocketState has what a    *)
(* result does to the state word; here are the bytes.                      *)
(*                                                                         *)
(* The bytes of each direction are numbered.  A caller that was told AGAIN *)
(* comes back with the bytes that were not written, perhaps with more      *)
(* behind them, as socket connections and emitters do.                     *)
(***************************************************************************)
EXTENDS SocketState, Integers, SequencesExt, FiniteSetsExt

CONSTANTS
    MaxBytes,   \* bound: bytes the application and the peer send together
    RecSize,    \* the bytes of a TLS record
    ReadLen     \* the largest buffer a read is called with

ASSUME SocketIoAssumption ==
    MaxBytes \in Nat /\ {RecSize, ReadLen} \subseteq Nat \ {0}

VARIABLES
    sk,         \* the socket: tls, flags, the buffers of vtm_socket_tls_info, fd
    ssl,        \* OpenSSL: a record that was not flushed, the bytes of the call
                \* before it, and the rest of a record that was not read
    made,       \* the bytes the application has to send are 1 .. made
    sent,       \* of them a write has confirmed 1 .. sent
    peerGot,    \* what the peer has got
    arriving,   \* the records the peer has sent and nobody has read
    got,        \* what the application has read
    noted       \* history: bytes lost with a buffer, a descriptor leaked, the peer gone

ioVars == <<sk, ssl, made, sent, peerGot, arriving, got, noted>>

Numbers(a, b) == [i \in 1 .. b - a + 1 |-> a + i - 1]
Ok(r) == r = "ok"

\* The rc and the flags vtm_socket_util_error makes of errno.
Errnos == {"AGAIN", "CONNABORTED", "INTR", "MFILE", "NOMEM", "PROTO", "PERM", "OTHER"}
UtilError(e) ==
    [rc    |-> CASE e = "AGAIN" -> "IO_AGAIN"      [] e = "CONNABORTED" -> "IO_CANCELED"
                 [] e = "INTR" -> "INTERRUPTED"    [] e = "MFILE" -> "MAX_REACHED"
                 [] e = "NOMEM" -> "MEMORY"        [] e = "PROTO" -> "IO_PROTOCOL"
                 [] e = "PERM" -> "PERMISSION"     [] e = "OTHER" -> "IO_UNKNOWN",
     flags |-> IF e \in {"PROTO", "OTHER"} THEN {"ERR"} ELSE {}]

TlsErrs == {"WANT_READ", "WANT_WRITE", "ZERO_RETURN", "SSL", "SYSCALL"}
\* vtm_socket_tls_convert_error: a result of SSL_get_error for an operation.
TlsFlags(err, op) ==
    CASE err \in {"NONE", "WANT_READ"} /\ op = "READ"  -> {"READ_AGAIN"}
      [] err = "WANT_WRITE" /\ op = "READ"             -> {"READ_AGAIN_WHEN_WRITEABLE"}
      [] err \in {"NONE", "WANT_WRITE"} /\ op = "WRITE" -> {"WRITE_AGAIN"}
      [] err = "WANT_READ" /\ op = "WRITE"             -> {"WRITE_AGAIN_WHEN_READABLE"}
      [] err = "ZERO_RETURN"                           -> {"HUP"}
      [] err \in {"SSL", "SYSCALL"}                    -> {"ERR"}
      [] OTHER                                         -> {}
TlsAgain(err) == err \in {"NONE", "WANT_READ", "WANT_WRITE"}

\* The NBL_AUTO hints after a read or a write that left the flags f.
Hinted(f, op) ==
    LET back == IF op = "READ" THEN {"READ_AGAIN_WHEN_WRITEABLE"}
                ELSE {"WRITE_AGAIN", "READ_AGAIN_WHEN_WRITEABLE"}
    IN  IF "NBL_AUTO" \notin f THEN f
        ELSE IF f \cap back # {} THEN NblWriteOnly(f)
        ELSE IF op = "WRITE" THEN NblReadOnly(f) ELSE f
\* vtm_socket_read and vtm_socket_write around the call of the implementation.
AfterCall(op, new) ==
    [sk EXCEPT !.flags = Hinted((@ \ IF op = "READ" THEN ReadAgain ELSE WriteAgain) \cup new, op)]

\* A closed socket refuses every call; one with an error or a hang-up is only
\* closed by its callers.
Usable == sk.fd = "open" /\ sk.flags \cap {"CLOSED", "ERR", "HUP"} = {}

-----------------------------------------------------------------------------
(* How the socket comes to be.                                             *)

NewSocket(tls) == [tls |-> tls, flags |-> {}, buffers |-> FALSE, recvBuf |-> <<>>, sendWant |-> 0,
                   fd |-> "open"]

\* vtm_socket_plain_accept, vtm_socket_tls_accept: the step that fails, or ok.
\* A descriptor is closed again on every way out but the last one.
AcceptSteps(tls) == IF tls THEN {"accept", "ssl_new", "set_timeout", "handshake", "alloc",
                                 "reset_timeout", "ok"}
                    ELSE {"accept", "alloc", "ok"}
SockAccept(tls, step) ==
    /\ sk.fd = "none" /\ step \in AcceptSteps(tls)
    /\ sk' = IF step = "ok" THEN NewSocket(tls) ELSE sk
    /\ noted' = IF step = "reset_timeout" THEN [noted EXCEPT !.leaked = TRUE] ELSE noted
    /\ UNCHANGED <<ssl, made, sent, peerGot, arriving, got>>

\* vtm_socket_new or vtm_socket_tls_new with vtm_socket_connect: an errno of
\* connect, or a failure of SSL_connect, leaves a socket with its flags.
Connect(tls, err) ==
    /\ sk.fd = "none" /\ (err = "HANDSHAKE" => tls)
    /\ sk' = [NewSocket(tls) EXCEPT !.flags =
                  CASE err = "ok" -> {}
                    [] err = "AGAIN" -> {"READ_AGAIN"}
                    [] err \in Errnos \ {"AGAIN"} -> UtilError(err).flags
                    [] err = "HANDSHAKE" -> {"ERR"}]
    /\ UNCHANGED <<ssl, made, sent, peerGot, arriving, got, noted>>

\* vtm_socket_set_opt with NONBLOCKING: the implementation is told the value,
\* the flag is set for every value (socket.c:295).  Going back to blocking
\* frees a TLS socket's buffer with what is in it.
SetNonblocking(on) ==
    /\ Usable /\ (sk.tls => on # sk.buffers)
    /\ sk' = IF ~sk.tls THEN sk
             ELSE IF on THEN [sk EXCEPT !.buffers = TRUE, !.recvBuf = <<>>, !.sendWant = 0]
             ELSE [sk EXCEPT !.buffers = FALSE, !.recvBuf = <<>>]
    /\ noted' = [noted EXCEPT !.lost = @ + Len(sk.recvBuf)]
    /\ UNCHANGED <<ssl, made, sent, peerGot, arriving, got>>

\* The other options of vtm_socket_util_set_opt, and vtm_socket_shutdown on
\* either implementation: only a failing system call touches the state.
SetOption(e) == /\ Usable /\ sk' = [sk EXCEPT !.flags = @ \cup UtilError(e).flags]
                /\ UNCHANGED <<ssl, made, sent, peerGot, arriving, got, noted>>
Shutdown(err) ==
    /\ Usable /\ err \in IF sk.tls THEN TlsErrs ELSE Errnos
    /\ sk' = [sk EXCEPT !.flags = @ \cup IF sk.tls THEN TlsFlags(err, "SHUTDOWN")
                                         ELSE UtilError(err).flags]
    /\ UNCHANGED <<ssl, made, sent, peerGot, arriving, got, noted>>

SetAuto == /\ Usable /\ sk' = [sk EXCEPT !.flags = @ \cup {"NBL_AUTO", "NBL_READ"}]
           /\ UNCHANGED <<ssl, made, sent, peerGot, arriving, got, noted>>

-----------------------------------------------------------------------------
(* Writing.                                                                *)

\* The bytes the peer has sent.
Arrived == Len(got) + Len(sk.recvBuf) + Len(ssl.rest) + Len(FlattenSeq(arriving)) + noted.lost
Produce == /\ Usable /\ made + Arrived < MaxBytes /\ made' = made + 1
           /\ UNCHANGED <<sk, ssl, sent, peerGot, arriving, got, noted>>

\* vtm_socket_plain_write: send until all is taken or fails.
PlainWrite(k, e) ==
    LET len == made - sent
        new == IF k = len THEN {} ELSE IF e = "AGAIN" THEN {"WRITE_AGAIN"} ELSE UtilError(e).flags
    IN  /\ Usable /\ ~sk.tls /\ k <= len
        /\ peerGot' = peerGot \o Numbers(sent + 1, sent + k)
        /\ sent' = sent + k
        /\ sk' = AfterCall("WRITE", new)
        /\ UNCHANGED <<ssl, made, arriving, got, noted>>

\* SSL_write of n bytes from src, in the mode that lets the buffer move: the
\* ways it may end, with what reaches the peer.  A call that is repeated with
\* fewer bytes than it had is an error; the record on its way keeps its bytes.
SslWrite(s, src, n) ==
    LET begun   == s.wnum + Len(s.pend)
        upto(j) == [i \in 1 .. j - begun |-> IF begun + i <= Len(src) THEN src[begun + i] ELSE 0]
        flushed(j) == IF j <= s.wnum THEN <<>> ELSE s.pend \o upto(j)
        stops   == {s.wnum} \cup {j \in begun .. n - 1 : (j - begun) % RecSize = 0 /\ j > s.wnum}
        rec(j)  == IF j = s.wnum /\ s.pend # <<>> THEN s.pend
                   ELSE [i \in 1 .. Min({RecSize, n - j}) |-> IF j + i <= Len(src) THEN src[j + i] ELSE 0]
    IN  IF n < begun THEN {[err |-> "SSL", num |-> 0, out |-> <<>>, ssl |-> s]}
        ELSE {[err |-> "ok", num |-> n, out |-> s.pend \o upto(n),
               ssl |-> [s EXCEPT !.wnum = 0, !.pend = <<>>]]}
             \cup {[err |-> "WANT_WRITE", num |-> 0, out |-> flushed(j),
                    ssl |-> [s EXCEPT !.wnum = j, !.pend = rec(j)]] : j \in stops}
             \cup {[err |-> "WANT_READ", num |-> 0, out |-> <<>>, ssl |-> s]}
             \cup {[err |-> e, num |-> 0, out |-> <<>>, ssl |-> s] : e \in {"ZERO_RETURN", "SYSCALL"}}

\* Mutant: after the repeated call the loop begins with the first byte again.
WriteTurn_FromStart(t) ==
    LET src  == Numbers(sent + 1, made)
        len  == made - sent
        wlen == IF sk.buffers /\ t.want > 0 THEN t.want ELSE len - t.written
    IN  IF t.err # "ok" \/ t.written >= len THEN {t}
        ELSE {[written |-> t.written + r.num, out |-> t.out \o r.out, ssl |-> r.ssl, err |-> r.err,
               want |-> IF sk.buffers /\ TlsAgain(r.err) THEN wlen ELSE 0] :
              r \in SslWrite(t.ssl, src, wlen)}

\* The loop of vtm_socket_tls_write: a call that was to be repeated comes first
\* with the length it had, then the rest; written counts what was confirmed.
WriteTurn(t) ==
    LET src  == Numbers(sent + 1, made)
        len  == made - sent
        wlen == IF sk.buffers /\ t.want > 0 THEN t.want ELSE len - t.written
        rest == SubSeq(src, t.written + 1, len)
    IN  IF t.err # "ok" \/ t.written >= len THEN {t}
        ELSE {[written |-> t.written + r.num, out |-> t.out \o r.out, ssl |-> r.ssl, err |-> r.err,
               want |-> IF sk.buffers /\ TlsAgain(r.err) THEN wlen
                        ELSE IF sk.buffers THEN 0 ELSE t.want] :
              r \in SslWrite(t.ssl, rest, wlen)}
TlsWrite ==
    /\ Usable /\ sk.tls /\ made > sent
    /\ \E t \in UNION {WriteTurn(u) : u \in WriteTurn([written |-> 0, out |-> <<>>, ssl |-> ssl,
                                                       err |-> "ok", want |-> sk.sendWant])} :
          /\ ssl' = t.ssl /\ peerGot' = peerGot \o t.out /\ sent' = sent + t.written
          /\ sk' = [AfterCall("WRITE", IF Ok(t.err) THEN {} ELSE TlsFlags(t.err, "WRITE"))
                      EXCEPT !.sendWant = t.want]
    /\ UNCHANGED <<made, arriving, got, noted>>

-----------------------------------------------------------------------------
(* Reading.                                                                *)

PeerSends(k) ==
    /\ Usable /\ ~noted.peerGone /\ made + Arrived + k <= MaxBytes
    /\ arriving' = Append(arriving, Numbers(Arrived + 1, Arrived + k))
    /\ UNCHANGED <<sk, ssl, made, sent, peerGot, got, noted>>
PeerCloses == /\ Usable /\ ~noted.peerGone /\ noted' = [noted EXCEPT !.peerGone = TRUE]
              /\ UNCHANGED <<sk, ssl, made, sent, peerGot, arriving, got>>

ReadFlags(new) == sk' = AfterCall("READ", new)
NoBytes == UNCHANGED <<ssl, made, sent, peerGot, arriving, got, noted>>

\* vtm_socket_plain_read: recv gives any part of what has arrived; every error
\* but AGAIN, an interruption too, leaves ERR.
PlainRead(len) ==
    LET all == FlattenSeq(arriving)
    IN  /\ Usable /\ ~sk.tls /\ all # <<>>
        /\ \E k \in 1 .. Min({len, Len(all)}) :
              /\ got' = got \o SubSeq(all, 1, k)
              /\ arriving' = IF k = Len(all) THEN <<>> ELSE <<SubSeq(all, k + 1, Len(all))>>
        /\ ReadFlags({}) /\ UNCHANGED <<ssl, made, sent, peerGot, noted>>
PlainReadNone(e) ==
    /\ Usable /\ ~sk.tls
    /\ e \in {"AGAIN", "eof"} => arriving = <<>>
    /\ e = "eof" <=> (noted.peerGone /\ arriving = <<>>)
    /\ ReadFlags(CASE e = "eof" -> {"HUP"} [] e = "AGAIN" -> {"READ_AGAIN"} [] OTHER -> {"ERR"})
    /\ NoBytes

\* SSL_read gives at most one record, or the rest of one.
Source == IF ssl.rest # <<>> THEN ssl.rest ELSE IF arriving # <<>> THEN Head(arriving) ELSE <<>>
Drained(rest) == /\ ssl' = [ssl EXCEPT !.rest = rest]
                 /\ arriving' = IF ssl.rest # <<>> THEN arriving ELSE Tail(arriving)

\* vtm_socket_tls_read in blocking mode: SSL_read into the caller's buffer.
TlsRead(len) ==
    LET k == Min({len, Len(Source)})
    IN  /\ Usable /\ sk.tls /\ ~sk.buffers /\ Source # <<>>
        /\ got' = got \o SubSeq(Source, 1, k)
        /\ Drained(SubSeq(Source, k + 1, Len(Source)))
        /\ ReadFlags({}) /\ UNCHANGED <<made, sent, peerGot, noted>>

\* In non-blocking mode the socket's own buffer is read first, and filled from
\* SSL_read only when it is empty; vtm_socket_tls_read_buf.
TlsReadBuf(len) ==
    LET data == IF sk.recvBuf # <<>> THEN sk.recvBuf ELSE Source
        k    == Min({len, Len(data)})
    IN  /\ Usable /\ sk.tls /\ sk.buffers /\ data # <<>>
        /\ got' = got \o SubSeq(data, 1, k)
        /\ IF sk.recvBuf # <<>> THEN UNCHANGED <<ssl, arriving>> ELSE Drained(<<>>)
        /\ sk' = [AfterCall("READ", {}) EXCEPT !.recvBuf = SubSeq(data, k + 1, Len(data))]
        /\ UNCHANGED <<made, sent, peerGot, noted>>

TlsReadNone(err) ==
    /\ Usable /\ sk.tls /\ sk.recvBuf = <<>> /\ ssl.rest = <<>>
    /\ err \in {"WANT_READ", "ZERO_RETURN"} => arriving = <<>>
    /\ err = "ZERO_RETURN" <=> (noted.peerGone /\ arriving = <<>>)
    /\ ReadFlags(TlsFlags(err, "READ"))
    /\ NoBytes

\* vtm_socket_close; vtm_socket_tls_close tries to tell the peer.
CloseSocket == /\ sk.fd = "open" /\ sk' = [sk EXCEPT !.flags = CloseState(@), !.fd = "closed"]
         /\ NoBytes

SocketIoInit ==
    /\ sk = [NewSocket(FALSE) EXCEPT !.fd = "none"]
    /\ ssl = [wnum |-> 0, pend |-> <<>>, rest |-> <<>>]
    /\ made = 0 /\ sent = 0 /\ peerGot = <<>> /\ arriving = <<>> /\ got = <<>>
    /\ noted = [lost |-> 0, leaked |-> FALSE, peerGone |-> FALSE]

SocketIoNext ==
    \/ \E tls \in BOOLEAN, step \in AcceptSteps(TRUE) : SockAccept(tls, step)
    \/ \E tls \in BOOLEAN, e \in Errnos \cup {"ok", "HANDSHAKE"} : Connect(tls, e)
    \/ \E on \in BOOLEAN : SetNonblocking(on)
    \/ SetAuto \/ Produce \/ TlsWrite \/ PeerCloses \/ CloseSocket
    \/ \E k \in 0 .. MaxBytes, e \in Errnos : PlainWrite(k, e)
    \/ \E k \in 1 .. RecSize : PeerSends(k)
    \/ \E len \in 1 .. ReadLen : PlainRead(len) \/ TlsRead(len) \/ TlsReadBuf(len)
    \/ \E e \in Errnos \cup {"eof"} : PlainReadNone(e)
    \/ \E e \in TlsErrs : TlsReadNone(e) \/ Shutdown(e)
    \/ \E e \in Errnos : SetOption(e) \/ Shutdown(e)

SocketIoSpec == SocketIoInit /\ [][SocketIoNext]_ioVars

-----------------------------------------------------------------------------
\* Both directions carry what was put in: the peer gets the application's bytes
\* in order, none twice and none left out, wherever writes stop and are repeated
\* with more bytes behind, and everything that was confirmed has been handed to
\* the peer; the application reads the peer's bytes in order, unless a TLS socket
\* was switched back to blocking with bytes in its buffer.  The call that is to
\* be repeated has a length OpenSSL accepts and the caller still has bytes for.
BytesIntact ==
    /\ peerGot = Numbers(1, Len(peerGot)) /\ sent <= Len(peerGot) /\ Len(peerGot) <= made
    /\ noted.lost = 0 =>
         got \o sk.recvBuf \o ssl.rest \o FlattenSeq(arriving) = Numbers(1, Arrived)
    /\ sk.buffers /\ sk.sendWant > 0 =>
         sk.sendWant \in ssl.wnum + Len(ssl.pend) .. made - sent
=============================================================================
