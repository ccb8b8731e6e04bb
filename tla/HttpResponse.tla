---------------------------- MODULE HttpResponse ----------------------------
(***************************************************************************)
(* A response (http_response.c) and the emitters that send it              *)
(* (socket_emitter.c): the application begins it, adds headers, body and a *)
(* body emitter in any order and ends it; the socket takes any part of     *)
(* what is written to it.                                                  *)
(*                                                                         *)
(* What is written is a sequence of tokens: the status line, the header    *)
(* lines that matter, the blank line, the size line of a chunk and single  *)
(* bytes of the body, which are numbered.                                  *)
(***************************************************************************)
EXTENDS Integers, Sequences, SequencesExt, FiniteSetsExt

CONSTANTS
    MaxRaw,     \* bound: bytes of the body that are written directly, of
                \* which at most one chunk is empty
    FileLens,   \* the lengths of the files and memory that are emitted
    FileBuf     \* VTM_EMT_FILE_BUF_SIZE

ASSUME HttpResponseAssumption ==
    /\ MaxRaw \in Nat /\ FileLens \subseteq Nat /\ FileBuf \in Nat \ {0}

VARIABLES
    rs,         \* the response: mode, stage, action, buf, body_buf, body_se
    chain,      \* the emitters that are sent; the connection's after AGAIN
    taken,      \* what the socket has taken
    phase,      \* what the server does with it: build, send, wait, done, failed
    empty,      \* history: an empty chunk was written by the application
    cut         \* history: a file emitter ended with bytes in its buffer

resVars == <<rs, chain, taken, phase, empty, cut>>

\* An emitter: what it sends, how much of it was taken from there, and the
\* buffer and the end of file flag of a file emitter.
Emitter(kind, src) == [kind |-> kind, src |-> src, pos |-> 0, buf |-> <<>>, eof |-> FALSE]
None   == Emitter("none", <<>>)
Tok(t, n) == <<<<t, n>>>>
Junk   == <<"junk", 0>>
RawBytes(from, n) == [i \in 1 .. n |-> <<"raw", from + i>>]
RawCount == IF rs.mode = "FIXED" THEN Len(rs.bodyBuf)
            ELSE Cardinality({i \in DOMAIN rs.buf : rs.buf[i][1] = "raw"})

\* vtm_http_res_prepare: a request of version 1.0, or with Connection: close,
\* closes, any other keeps the connection.
Prepared(act) == [mode |-> "FIXED", stage |-> "UNINIT", act |-> act, buf |-> <<>>,
                  bodyBuf |-> <<>>, bodySe |-> None]

HeaderStages == {"HEADER_OR_BODY", "HEADER"}

\* vtm_http_res_header.
WithHeader(r, tok) == [r EXCEPT !.stage = "HEADER", !.buf = @ \o tok]
\* vtm_http_res_close_headers.
ConTok(act) == CASE act = "CLOSE" -> Tok("conn", 0)
                 [] act = "KEEP"  -> Tok("conn", 1)
                 [] act = "UPGRADE" -> <<>>
HeadersClosed(r) == LET h == IF r.act = "UPGRADE" THEN r ELSE WithHeader(r, ConTok(r.act))
                    IN  [h EXCEPT !.buf = @ \o Tok("blank", 0)]
\* vtm_http_res_write_chunked.
WithChunk(r, bytes) == [r EXCEPT !.buf = @ \o Tok("chunk", Len(bytes)) \o bytes]

Building == phase = "build"
Built(r) == rs' = r /\ UNCHANGED <<chain, taken, phase, cut>>

\* vtm_http_res_begin: the status line, Server, Date and Transfer-Encoding.
Begin(mode) ==
    /\ Building /\ rs.stage = "UNINIT"
    /\ Built(LET r == WithHeader([rs EXCEPT !.mode = mode], Tok("status", 0))
             IN  IF mode = "CHUNKED" THEN WithHeader(r, Tok("te", 0)) ELSE r)
    /\ UNCHANGED empty

\* vtm_http_res_set_action.
SetAction(act) ==
    /\ Building /\ rs.stage \notin {"BODY", "COMPLETED"}
    /\ Built([rs EXCEPT !.act = act]) /\ UNCHANGED empty

\* vtm_http_res_body_raw and vtm_http_res_body_str.
BodyRaw(n) ==
    /\ Building /\ rs.stage \notin {"UNINIT", "COMPLETED"} /\ RawCount + n <= MaxRaw
    /\ n = 0 => ~empty
    /\ CASE rs.mode = "FIXED" -> Built([rs EXCEPT !.bodyBuf = @ \o RawBytes(RawCount, n)])
         [] rs.mode = "CHUNKED" ->
              Built(WithChunk(IF rs.stage # "BODY" THEN [HeadersClosed(rs) EXCEPT !.stage = "BODY"] ELSE rs,
                              RawBytes(RawCount, n)))
    /\ empty' = (empty \/ (rs.mode = "CHUNKED" /\ n = 0))

\* vtm_http_res_body_emt, with an emitter of vtm_socket_emitter_for_raw or the
\* one vtm_http_file_serve makes of a file.
EmtBytes(n) == [i \in 1 .. n |-> <<"emt", i>>]
EmtLen(se) == Len(se.src)
BodyEmt(se) ==
    /\ Building /\ rs.bodySe = None
    /\ Built([rs EXCEPT !.bodySe = se]) /\ UNCHANGED empty

\* vtm_http_res_end: the response is completed in its buffer and given to the
\* emitters of the buffer and of the body.
Ended ==
    CASE rs.mode = "FIXED" ->
           LET n == Len(rs.bodyBuf) + EmtLen(rs.bodySe)
               h == HeadersClosed(WithHeader(rs, Tok("clen", n)))
           IN  [h EXCEPT !.buf = @ \o rs.bodyBuf]
      [] rs.mode = "CHUNKED" ->
           WithChunk(IF rs.stage \in HeaderStages THEN HeadersClosed(rs) ELSE rs, <<>>)
End ==
    /\ Building /\ rs.stage \notin {"UNINIT", "COMPLETED"}
    /\ rs' = Ended
    /\ chain' = <<Emitter("raw", Ended.buf)>> \o (IF rs.bodySe = None THEN <<>> ELSE <<rs.bodySe>>)
    /\ phase' = "send"
    /\ UNCHANGED <<taken, empty, cut>>

-----------------------------------------------------------------------------
(* vtm_socket_emitter_try_write: the first emitter writes until the socket *)
(* takes no more, is completed and freed, or fails.                        *)

Finished == /\ chain' = Tail(chain)
            /\ phase' = IF Len(chain) = 1 THEN "done" ELSE "send"
            /\ rs' = IF Len(chain) = 1 THEN [rs EXCEPT !.stage = "COMPLETED"] ELSE rs
Again(se) == /\ chain' = <<se>> \o Tail(chain) /\ phase' = "wait"
             /\ rs' = [rs EXCEPT !.stage = "COMPLETED"]
Failed == /\ chain' = <<>> /\ phase' = "failed" /\ UNCHANGED <<rs, taken, empty, cut>>

EmitRaw ==
    LET se == Head(chain)
    IN  /\ phase = "send" /\ se.kind = "raw"
        /\ \/ \E w \in 0 .. Len(se.src) - se.pos :
                 /\ taken' = taken \o SubSeq(se.src, se.pos + 1, se.pos + w)
                 /\ IF se.pos + w = Len(se.src) THEN Finished ELSE Again([se EXCEPT !.pos = @ + w])
                 /\ UNCHANGED <<empty, cut>>
           \/ Failed

\* Mutant: the file is read over what is still in the buffer.
FileRead_Over(se) ==
    LET r == Min({FileBuf, Len(se.src) - se.pos})
    IN  [se EXCEPT !.buf = SubSeq(se.src, se.pos + 1, se.pos + r), !.pos = @ + r,
                   !.eof = @ \/ r < FileBuf]

\* vtm_socket_emitter_write_file: what fread adds to the buffer; eof is feof.
FileRead(se) ==
    LET want == FileBuf - Len(se.buf)
        r    == Min({want, Len(se.src) - se.pos})
    IN  [se EXCEPT !.buf = @ \o SubSeq(se.src, se.pos + 1, se.pos + r), !.pos = @ + r,
                   !.eof = @ \/ r < want]
\* The unsent part is counted from the size of the buffer.
FileRest(b, w) == SubSeq(b, w + 1, Len(b)) \o [i \in 1 .. FileBuf - Len(b) |-> Junk]

EmitFile ==
    LET se == Head(chain)
        rd == FileRead(se)
    IN  /\ phase = "send" /\ se.kind = "file"
        /\ \/ /\ rd.pos = se.pos /\ rd.eof
              /\ Finished
              /\ cut' = (cut \/ \E i \in DOMAIN se.buf : se.buf[i] # Junk)
              /\ UNCHANGED <<taken, empty>>
           \/ rd.pos = se.pos /\ ~rd.eof /\ Failed
           \/ /\ rd.pos # se.pos
              /\ \E w \in 0 .. Len(rd.buf) :
                    LET next == [rd EXCEPT !.buf = FileRest(rd.buf, w)]
                    IN  /\ taken' = taken \o SubSeq(rd.buf, 1, w)
                        /\ IF w = Len(rd.buf)
                           THEN chain' = <<next>> \o Tail(chain) /\ UNCHANGED <<rs, phase>>
                           ELSE Again(next)
                        /\ UNCHANGED <<empty, cut>>
           \/ rd.pos # se.pos /\ Failed

\* vtm_http_con_write, when the socket can write again.
CanWrite == phase = "wait" /\ phase' = "send" /\ UNCHANGED <<rs, chain, taken, empty, cut>>

ResInit ==
    /\ rs \in {Prepared(a) : a \in {"CLOSE", "KEEP"}}
    /\ chain = <<>> /\ taken = <<>> /\ phase = "build" /\ empty = FALSE /\ cut = FALSE

ResNext ==
    \/ \E m \in {"FIXED", "CHUNKED"} : Begin(m)
    \/ \E a \in {"CLOSE", "KEEP", "UPGRADE"} : SetAction(a)
    \/ \E n \in 0 .. 2 : BodyRaw(n)
    \/ \E n \in FileLens : BodyEmt(Emitter("raw", EmtBytes(n))) \/ BodyEmt(Emitter("file", EmtBytes(n)))
    \/ End
    \/ EmitRaw \/ EmitFile \/ CanWrite

ResSpec == ResInit /\ [][ResNext]_resVars

-----------------------------------------------------------------------------
(* A client that reads the tokens: the head ends at the first blank line.  *)

HeadEnd(s) == Min({i \in DOMAIN s : s[i] = <<"blank", 0>>})
HasTok(s, t) == \E i \in 1 .. HeadEnd(s) : s[i][1] = t
ArgOf(s, t) == s[CHOOSE i \in 1 .. HeadEnd(s) : s[i][1] = t][2]

\* The chunks up to the one without bytes: what they hold, and that nothing
\* else follows.
Dechunk(s) ==
    LET dec[i \in 1 .. Len(s) + 1] ==
            IF i > Len(s) \/ s[i][1] # "chunk" \/ i + s[i][2] > Len(s) THEN <<Junk>>
            ELSE IF s[i][2] = 0 THEN (IF i = Len(s) THEN <<>> ELSE <<Junk>>)
            ELSE SubSeq(s, i + 1, i + s[i][2]) \o dec[i + s[i][2] + 1]
    IN  dec[1]
ClientBody(s) ==
    LET rest == SubSeq(s, HeadEnd(s) + 1, Len(s))
    IN  CASE HasTok(s, "te") -> Dechunk(rest)
          [] ~HasTok(s, "te") -> IF Len(rest) = ArgOf(s, "clen") THEN rest ELSE <<Junk>>

\* A response that was sent is read by the client as the application wrote it,
\* however it was built and wherever the socket took only a part: the bytes of
\* the body in order, then those of the emitter, framed by the length or the
\* chunks that were announced.  Known gaps are left out: an empty chunk, an
\* emitter in chunked mode, the tail of a file (socket_emitter.c:193).  And what
\* the client is told about the connection is what the server does with it.
FramedAsWritten ==
    phase = "done" =>
      /\ ~empty /\ ~cut /\ ~(rs.mode = "CHUNKED" /\ rs.bodySe # None)
           => ClientBody(taken) = RawBytes(0, RawCount) \o EmtBytes(EmtLen(rs.bodySe))
      /\ IF rs.act = "UPGRADE" THEN ~HasTok(taken, "conn")
         ELSE HasTok(taken, "conn") /\ <<<<"conn", ArgOf(taken, "conn")>>>> = ConTok(rs.act)
=============================================================================
