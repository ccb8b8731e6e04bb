----------------------------- MODULE HttpParser -----------------------------
(***************************************************************************)
(* The HTTP/1 parser (http_parser.c) and the loop that feeds it from a     *)
(* socket (vtm_http_con_read, vtm_http_con_get_request; the client's       *)
(* vtm_http_client_recv has the same shape).                               *)
(*                                                                         *)
(* A byte is a one-letter string, "CR", "LF" or "NUL"; a method, a header  *)
(* name and the value "chunked" are one letter each.  A parser is a record *)
(* of the struct's fields together with its buffer: data[1..Len(data)] are *)
(* the used bytes, read of them are consumed, and a pointer or an offset   *)
(* into the buffer is the number of bytes before it.  The C strings the    *)
(* parser hands out lie in that buffer, so they are read at the end.       *)
(***************************************************************************)
EXTENDS Integers, Sequences, SequencesExt, FiniteSetsExt, TLC

CONSTANTS
    Scripts,    \* the sequences of messages a peer may send
    MaxHeader,  \* par->max_header_size
    MaxBody,    \* par->max_body_size
    SData,      \* sizeof(buf->sdata)
    Room        \* the space a read makes in the buffer

ASSUME ParserAssumption ==
    /\ MaxHeader \in Nat /\ MaxBody \in Nat
    /\ SData \in Nat \ {0} /\ Room \in Nat \ {0}

VARIABLES
    script,     \* the messages the peer sends
    wire,       \* the bytes of them that are not read yet
    par,        \* con->parser and con->recvbuf
    clear,      \* con->clear
    open,       \* the socket is not closed
    out,        \* history: the messages that were handed out
    clean       \* history: neither of the two disturbances has happened

parserVars == <<script, wire, par, clear, open, out, clean>>

Methods    == {"G", "P"}
TE         == "E"    \* Transfer-Encoding
CL         == "L"    \* Content-Length
CHUNKED    == "K"
Space      == {" ", "TAB"}
Digits     == <<"0", "1", "2", "3", "4", "5", "6", "7", "8", "9">>
HexDigits  == Digits \o <<"A", "B", "C", "D", "E", "F">>
LowHex     == Digits \o <<"a", "b", "c", "d", "e", "f">>
IsDigit(c) == Contains(Digits, c)
IsHex(c)   == Contains(HexDigits, c) \/ Contains(LowHex, c)
DigitOf(c) == (IF Contains(HexDigits, c) THEN SelectInSeq(HexDigits, LAMBDA d : d = c)
               ELSE SelectInSeq(LowHex, LAMBDA d : d = c)) - 1

BodyStates == {"BODY", "BODY_READALL", "BODY_FIXEDLENGTH", "BODY_CHUNKED",
               "BODY_CHUNK_SIZE", "BODY_CHUNK_SIZE_LF", "BODY_CHUNK_CONTENT",
               "BODY_CHUNK_END_LF", "COMPLETE"}

\* The states that accept one byte only, with that byte and the next state.
Literal ==
    [VERSION_H     |-> <<"H", "VERSION_HT">>,    VERSION_HT   |-> <<"T", "VERSION_HTT">>,
     VERSION_HTT   |-> <<"T", "VERSION_HTTP">>,  VERSION_HTTP |-> <<"P", "VERSION_SLASH">>,
     VERSION_SLASH |-> <<"/", "VERSION_MAJOR">>,
     REQ_LINE_LF   |-> <<"LF", "HEADER_LINE_BEGIN">>,
     RES_STATUS_MSG_LF |-> <<"LF", "HEADER_LINE_BEGIN">>]

\* vtm_http_parser_reset: every field but the buffer's.
Reset(p) ==
    [mode |-> p.mode, state |-> "BEGIN", old |-> "BEGIN", chars |-> 0, method |-> "", path |-> -1,
     params |-> <<>>, major |-> 0, minor |-> 0, code |-> 0, msg |-> -1,
     headers |-> <<>>, body |-> -1, bodyLen |-> 0, paramName |-> 0, msgBegin |-> 0,
     headerName |-> 0, headerValue |-> 0, bodyBegin |-> 0, chunkDst |-> 0,
     chunkBegin |-> 0, chunkSize |-> 0, stat |-> "AGAIN", eval |-> FALSE,
     data |-> p.data, read |-> p.read, len |-> p.len]

NewParser(mode) == Reset([mode |-> mode, data |-> <<>>, read |-> 0, len |-> SData])

-----------------------------------------------------------------------------
(* One turn of the switch in vtm_http_parser_run.                          *)

To(p, s)    == [p EXCEPT !.state = s]
Eval(p, s)  == [p EXCEPT !.state = s, !.eval = TRUE]     \* goto eval
Return(p, s) == [p EXCEPT !.stat = s]
Cut(p)      == [p EXCEPT !.data[p.read] = "NUL"]

\* The C string that begins after the first n bytes.
Str(p, n) ==
    LET ends == {i \in n + 1 .. Len(p.data) : p.data[i] = "NUL"}
    IN  SubSeq(p.data, n + 1, IF ends = {} THEN Len(p.data) ELSE Min(ends) - 1)

Put(f, k, v) == (k :> v) @@ f

RequestLine(p, c) ==
    CASE p.state = "REQ_METHOD" ->
           IF c # " " THEN p
           ELSE LET q == Cut(p)
                IN  IF Len(Str(q, 0)) = 1 /\ Str(q, 0)[1] \in Methods
                    THEN To([q EXCEPT !.method = Str(q, 0)[1]], "REQ_PATH")
                    ELSE Return(q, "INVALID")
      [] p.state = "REQ_PATH" ->
           IF c \notin {" ", "?"} THEN p
           ELSE [To(Cut(p), IF c = " " THEN "VERSION_H" ELSE "REQ_PARAM_BEGIN")
                   EXCEPT !.path = p.read - p.chars]
      [] p.state = "REQ_PARAM_BEGIN" -> Eval([p EXCEPT !.paramName = 0], "REQ_PARAM_NAME")
      [] p.state = "REQ_PARAM_NAME" ->
           (CASE c = " " -> To(p, "VERSION_H")
              [] c = "&" -> To(p, "REQ_PARAM_BEGIN")
              [] c = "=" -> To(IF p.chars > 1 THEN [Cut(p) EXCEPT !.paramName = p.read - p.chars]
                               ELSE p, "REQ_PARAM_VALUE")
              [] OTHER   -> p)
      [] p.state = "REQ_PARAM_VALUE" ->
           IF c \notin {" ", "&"} THEN p
           ELSE LET q == To(p, IF c = " " THEN "VERSION_H" ELSE "REQ_PARAM_BEGIN")
                IN  IF p.paramName = 0 THEN q
                    ELSE [Cut(q) EXCEPT !.params = Put(@, Str(Cut(q), p.paramName),
                                                       Str(Cut(q), p.read - p.chars))]

Version(p, c) ==
    CASE p.state = "VERSION_MAJOR" ->
           IF IsDigit(c) THEN [p EXCEPT !.major = @ * 10 + DigitOf(c)]
           ELSE IF c = "." THEN To(p, "VERSION_MINOR") ELSE Return(p, "INVALID")
      [] p.state = "VERSION_MINOR" ->
           IF IsDigit(c) THEN [p EXCEPT !.minor = @ * 10 + DigitOf(c)]
           ELSE IF c # (IF p.mode = "REQUEST" THEN "CR" ELSE " ") THEN Return(p, "INVALID")
           ELSE LET q == To(p, IF p.mode = "REQUEST" THEN "REQ_LINE_LF" ELSE "RES_STATUS_CODE")
                IN  IF p.major = 1 /\ p.minor \in {0, 1} THEN q ELSE Return(q, "INVALID")

StatusLine(p, c) ==
    CASE p.state = "RES_STATUS_CODE" ->
           IF p.chars <= 3
           THEN IF IsDigit(c) THEN [p EXCEPT !.code = @ * 10 + DigitOf(c)]
                ELSE Return(p, "INVALID")
           ELSE IF c = " " THEN To([p EXCEPT !.msgBegin = p.read], "RES_STATUS_MSG_CR")
                ELSE Return(p, "INVALID")
      [] p.state = "RES_STATUS_MSG_CR" ->
           IF c # "CR" THEN p
           ELSE To([Cut(p) EXCEPT !.msg = p.msgBegin], "RES_STATUS_MSG_LF")

\* Mutant: a repeated header replaces the value before it.
SaveHeader_Replaces(p) ==
    [p EXCEPT !.headers = Put(@, Str(p, p.headerName), Str(p, p.headerValue))]

\* A header that was there already gets the new value appended.
SaveHeader(p) ==
    LET name  == Str(p, p.headerName)
        value == Str(p, p.headerValue)
    IN  [p EXCEPT !.headers =
            Put(@, name, IF name \in DOMAIN @ THEN @[name] \o <<",", " ">> \o value ELSE value)]

\* The search for trailing blanks starts on the CR itself and finds none.
HeaderLine(p, c) ==
    CASE p.state = "HEADER_LINE_BEGIN" ->
           Eval([p EXCEPT !.headerName = p.read - 1, !.headerValue = 0], "HEADER_NAME")
      [] p.state = "HEADER_NAME" ->
           (CASE c = "CR" /\ p.chars = 1   -> To(p, "HEADERS_END_LF")
              [] c = "CR" /\ p.chars # 1   -> Return(p, "INVALID")
              [] c \in {" ", "LF"}         -> Return(p, "INVALID")
              [] c = ":"                   -> To(Cut(p), "HEADER_VALUE")
              [] OTHER                     -> p)
      [] p.state = "HEADER_VALUE" ->
           (CASE c \in Space /\ p.headerValue = 0 -> p
              [] c = "CR" /\ p.headerValue = 0    -> Return(p, "INVALID")
              [] c = "CR" /\ p.headerValue # 0    -> To(Cut(p), "HEADER_LINE_LF")
              [] c = "LF"                         -> Return(p, "INVALID")
              [] OTHER -> [p EXCEPT !.headerValue = IF @ = 0 THEN p.read - 1 ELSE @])
      [] p.state = "HEADER_LINE_LF" ->
           IF c = "LF" THEN Eval(p, "HEADER_LINE_COMPLETE") ELSE Return(p, "INVALID")
      [] p.state = "HEADER_LINE_COMPLETE" -> To(SaveHeader(p), "HEADER_LINE_BEGIN")
      [] p.state = "HEADERS_END_LF" ->
           IF c = "LF" THEN Eval(p, "BODY") ELSE Return(p, "INVALID")

\* vtm_str_list_contains(val, ",", "chunked"), and the number a value starts with.
ListHas(v, x) ==
    \E i \in 1 .. Len(v) :
        /\ v[i] = x
        /\ i = 1 \/ v[i - 1] \in {",", " "}
        /\ i = Len(v) \/ v[i + 1] \in {",", " "}
NumberOf(v) ==
    LET other  == {i \in 1 .. Len(v) : ~IsDigit(v[i])}
        digits == SubSeq(v, 1, IF other = {} THEN Len(v) ELSE Min(other) - 1)
    IN  FoldLeft(LAMBDA n, d : n * 10 + DigitOf(d), 0, digits)

Body(p) ==
    LET q == [p EXCEPT !.bodyBegin = p.read]
    IN  CASE <<TE>> \in DOMAIN p.headers /\ ListHas(p.headers[<<TE>>], CHUNKED) ->
               To(q, "BODY_CHUNKED")
          [] <<CL>> \in DOMAIN p.headers /\ ~(<<TE>> \in DOMAIN p.headers
                                             /\ ListHas(p.headers[<<TE>>], CHUNKED)) ->
               Eval([q EXCEPT !.bodyLen = NumberOf(p.headers[<<CL>>])], "BODY_FIXEDLENGTH")
          [] OTHER -> Eval(q, IF p.mode = "REQUEST" THEN "COMPLETE" ELSE "BODY_READALL")

\* A chunk that has ended is moved behind the chunks before it.
Chunk(p, c) ==
    CASE p.state = "BODY_CHUNKED" ->
           Eval([p EXCEPT !.chunkDst = IF @ = 0 THEN p.bodyBegin ELSE @, !.chunkSize = 0],
                "BODY_CHUNK_SIZE")
      [] p.state = "BODY_CHUNK_SIZE" ->
           (CASE c = "CR"              -> To(p, "BODY_CHUNK_SIZE_LF")
              [] c # "CR" /\ IsHex(c)  -> [p EXCEPT !.chunkSize = @ * 16 + DigitOf(c)]
              [] c # "CR" /\ ~IsHex(c) -> Return(p, "INVALID"))
      [] p.state = "BODY_CHUNK_SIZE_LF" ->
           IF c = "LF" THEN To([p EXCEPT !.chunkBegin = p.read], "BODY_CHUNK_CONTENT")
           ELSE Return(p, "INVALID")
      [] p.state = "BODY_CHUNK_CONTENT" ->
           IF p.chars <= p.chunkSize THEN p
           ELSE IF c = "CR" THEN To(p, "BODY_CHUNK_END_LF") ELSE Return(p, "INVALID")
      [] p.state = "BODY_CHUNK_END_LF" ->
           (CASE c # "LF"                      -> Return(p, "INVALID")
              [] c = "LF" /\ p.chunkSize = 0   -> Eval(p, "COMPLETE")
              [] c = "LF" /\ p.chunkSize # 0   ->
                   To([p EXCEPT !.data = [i \in DOMAIN @ |->
                                    IF i \in p.chunkDst + 1 .. p.chunkDst + p.chunkSize
                                    THEN @[i - p.chunkDst + p.chunkBegin] ELSE @[i]],
                                !.chunkDst = @ + p.chunkSize,
                                !.bodyLen = @ + p.chunkSize], "BODY_CHUNKED"))

MarkBody(p) == [p EXCEPT !.body = IF p.bodyLen > 0 THEN p.bodyBegin ELSE @]

Switch(p, c) ==
    CASE p.state = "BEGIN" ->
           Eval(p, IF p.mode = "REQUEST" THEN "REQ_METHOD" ELSE "VERSION_H")
      [] p.state \in DOMAIN Literal ->
           IF c = Literal[p.state][1] THEN To(p, Literal[p.state][2]) ELSE Return(p, "INVALID")
      [] p.state \in {"REQ_METHOD", "REQ_PATH", "REQ_PARAM_BEGIN", "REQ_PARAM_NAME",
                      "REQ_PARAM_VALUE"} -> RequestLine(p, c)
      [] p.state \in {"VERSION_MAJOR", "VERSION_MINOR"} -> Version(p, c)
      [] p.state \in {"RES_STATUS_CODE", "RES_STATUS_MSG_CR"} -> StatusLine(p, c)
      [] p.state \in {"HEADER_LINE_BEGIN", "HEADER_NAME", "HEADER_VALUE", "HEADER_LINE_LF",
                      "HEADER_LINE_COMPLETE", "HEADERS_END_LF"} -> HeaderLine(p, c)
      [] p.state = "BODY" -> Body(p)
      [] p.state = "BODY_READALL" ->
           Return([p EXCEPT !.read = Len(p.data)],
                  IF Len(p.data) > MaxBody THEN "INVALID" ELSE "AGAIN")
      [] p.state = "BODY_FIXEDLENGTH" ->
           IF p.chars < p.bodyLen THEN p ELSE Eval(p, "COMPLETE")
      [] p.state \in {"BODY_CHUNKED", "BODY_CHUNK_SIZE", "BODY_CHUNK_SIZE_LF",
                      "BODY_CHUNK_CONTENT", "BODY_CHUNK_END_LF"} -> Chunk(p, c)
      [] p.state = "COMPLETE" -> Return(MarkBody(p), "COMPLETE")

\* The label eval: count the byte for the state it meets, then switch.
Turn(p, c) ==
    Switch([p EXCEPT !.chars = IF p.state # p.old THEN 1 ELSE @ + 1,
                     !.old = p.state, !.eval = FALSE], c)

\* Mutant: the limits are taken for the number of bytes that may be exceeded by one.
Limit_OneMore(p) == 1 + (IF p.state \in BodyStates THEN MaxBody ELSE MaxHeader)

Limit(p) == IF p.state \in BodyStates THEN MaxBody ELSE MaxHeader

\* One byte of the loop; a byte meets at most four states.
Char(p) ==
    IF p.read > Limit(p) THEN Return(p, "INVALID")
    ELSE LET q == [p EXCEPT !.read = @ + 1]
             c == q.data[q.read]
             turn[n \in 1 .. 4] ==
                 IF n = 1 THEN Turn(q, c)
                 ELSE IF turn[n - 1].eval THEN Turn(turn[n - 1], c) ELSE turn[n - 1]
         IN  turn[4]

ParserRun(p) ==
    LET n == Len(p.data) - p.read
        after[i \in 0 .. n] ==
            IF i = 0 THEN [p EXCEPT !.stat = "RUN", !.old = p.state]
            ELSE LET r == after[i - 1] IN IF r.stat = "RUN" THEN Char(r) ELSE r
        q == after[n]
    IN  CASE n = 0 /\ p.state = "BODY_READALL" ->
               Return(To(MarkBody([p EXCEPT !.bodyLen = Len(p.data) - p.bodyBegin]),
                         "COMPLETE"), "COMPLETE")
          [] n = 0 /\ p.state # "BODY_READALL" -> Return(p, "AGAIN")
          [] n > 0 -> Return(q, IF q.stat = "RUN" THEN "AGAIN" ELSE q.stat)

-----------------------------------------------------------------------------
(* The feeding loop.                                                       *)

Dangling == -2

Discard(p) == [p EXCEPT !.data = SubSeq(@, p.read + 1, Len(@)), !.read = 0]

\* vtm_buf_ensure: leaving sdata always moves the bytes, realloc may; the
\* parser's path and status message point to the old place.
Grown(p)  == p.len * 2 ^ Min({k \in 0 .. Room : p.len * 2 ^ k >= p.len + Room})
Moves(p)  == CASE Len(p.data) + Room <= p.len                  -> {FALSE}
               [] Len(p.data) + Room > p.len /\ p.len = SData -> {TRUE}
               [] Len(p.data) + Room > p.len /\ p.len # SData -> BOOLEAN
Ensure(p, moves) ==
    IF Len(p.data) + Room <= p.len THEN p
    ELSE IF ~moves THEN [p EXCEPT !.len = Grown(p)]
    ELSE [p EXCEPT !.len = Grown(p), !.path = IF @ >= 0 THEN Dangling ELSE @,
                   !.msg = IF @ >= 0 THEN Dangling ELSE @]

Pointee(p, n) == IF n = -1 THEN <<>> ELSE IF n = Dangling THEN <<"?">> ELSE Str(p, n)

\* What get_request and recv hand out; "?" is a byte nobody has written.
Message(p) ==
    [method |-> p.method, path |-> Pointee(p, p.path), params |-> p.params, code |-> p.code,
     msg |-> Pointee(p, p.msg), headers |-> p.headers,
     body |-> [i \in 1 .. IF p.body < 0 THEN 0 ELSE p.bodyLen |->
                 IF p.body + i <= Len(p.data) THEN p.data[p.body + i] ELSE "?"]]

\* A run that ends on the byte that enters a state carries the count of the
\* state before it into that state; these states use the count.
Carried(p) ==
    /\ p.stat = "AGAIN" /\ p.state # p.old
    /\ p.state \in {"REQ_PATH", "REQ_PARAM_VALUE", "RES_STATUS_CODE", "BODY_CHUNK_CONTENT"}

\* One turn of the loop: drop the message before, make room, read k bytes, run
\* the parser, hand out a message.  A server's read may find nothing (k = 0);
\* a client's blocks, and is skipped when bytes are left over.
ReadAndParse(k, moves) ==
    LET d == IF clear THEN Discard(par) ELSE par
        e == Ensure(d, moves)
        r == ParserRun([e EXCEPT !.data = @ \o SubSeq(wire, 1, k)])
    IN  /\ open
        /\ k <= Len(wire) /\ k <= e.len - Len(e.data)
        /\ moves \in Moves(d)
        /\ par.mode = "RESPONSE" => (k = 0 <=> clear /\ d.data # <<>>)
        /\ wire' = SubSeq(wire, k + 1, Len(wire))
        /\ open' = (r.stat \in {"AGAIN", "COMPLETE"})
        /\ clear' = (r.stat = "COMPLETE")
        /\ par' = IF r.stat = "COMPLETE" THEN Reset(r) ELSE r
        /\ out' = IF r.stat = "COMPLETE" THEN Append(out, Message(r)) ELSE out
        /\ clean' = (clean /\ ~Carried(r) /\ Dangling \notin {r.path, r.msg})
        /\ UNCHANGED script

\* A client's read at the end of the stream fails: recv returns at once, also
\* in the middle of a body that the end was to delimit.
ReadEOF ==
    /\ open /\ par.mode = "RESPONSE" /\ wire = <<>>
    /\ ~(clear /\ Discard(par).data # <<>>)
    /\ open' = FALSE
    /\ UNCHANGED <<script, wire, par, clear, out, clean>>

-----------------------------------------------------------------------------
(* Reference: how a message is written, and what a reader should make of   *)
(* it.                                                                     *)

CRLF    == <<"CR", "LF">>
HTTP11  == <<"H", "T", "T", "P", "/", "1", ".", "1">>
Query(ps) ==
    FlattenSeq([i \in 1 .. Len(ps) |->
        <<IF i = 1 THEN "?" ELSE "&">> \o ps[i][1] \o <<"=">> \o ps[i][2]])
StartLine(m) ==
    (IF m.mode = "REQUEST"
     THEN <<m.method, " ">> \o m.path \o Query(m.params) \o <<" ">> \o HTTP11
     ELSE HTTP11 \o <<" ">> \o m.code \o <<" ">> \o m.msg) \o CRLF
BodyBytes(m) == FlattenSeq(m.parts)
Heads(m) ==
    m.heads \o (CASE m.kind = "fixed"   -> << <<CL, <<Digits[Len(BodyBytes(m)) + 1]>>>> >>
                  [] m.kind = "chunked" -> << <<TE, <<CHUNKED>>>> >>
                  [] OTHER              -> <<>>)
Head1(m) ==
    StartLine(m)
    \o FlattenSeq([i \in 1 .. Len(Heads(m)) |->
           <<Heads(m)[i][1], ":", " ">> \o Heads(m)[i][2] \o CRLF])
    \o CRLF
OneChunk(b) == <<HexDigits[Len(b) + 1]>> \o CRLF \o b \o CRLF
Bytes(m) ==
    Head1(m) \o (IF m.kind # "chunked" THEN BodyBytes(m)
                 ELSE FlattenSeq([i \in 1 .. Len(m.parts) |-> OneChunk(m.parts[i])])
                      \o OneChunk(<<>>))

Expected(m) ==
    LET add(f, h) == Put(f, <<h[1]>>, IF <<h[1]>> \in DOMAIN f
                                      THEN f[<<h[1]>>] \o <<",", " ">> \o h[2] ELSE h[2])
        set(f, q) == Put(f, q[1], q[2])
        num(n, d) == n * 10 + DigitOf(d)
    IN  [method |-> m.method, path |-> m.path, params |-> FoldLeft(set, <<>>, m.params),
         code |-> FoldLeft(num, 0, m.code), msg |-> m.msg,
         headers |-> FoldLeft(add, <<>>, Heads(m)), body |-> BodyBytes(m)]

\* The head and the whole message are within the parser's limits.
Fits(m) == Len(Head1(m)) - 1 <= MaxHeader /\ Len(Bytes(m)) - 1 <= MaxBody

\* What the parser can tell the end of: no body, chunks, or a length of zero
\* (http_parser.c counts the last byte of the head as the body's first).
Delimited(m) == m.kind \in {"none", "chunked"} \/ (m.kind = "fixed" /\ BodyBytes(m) = <<>>)

ParserInit ==
    /\ script \in Scripts
    /\ wire = FlattenSeq([i \in 1 .. Len(script) |-> Bytes(script[i])])
    /\ par = NewParser(script[1].mode)
    /\ clear = FALSE /\ open = TRUE /\ out = <<>> /\ clean = TRUE

ParserNext ==
    \/ \E k \in 0 .. Room, moves \in BOOLEAN : ReadAndParse(k, moves)
    \/ ReadEOF

ParserSpec == ParserInit /\ [][ParserNext]_parserVars

-----------------------------------------------------------------------------
\* The messages of the script that come before the first one the parser
\* cannot delimit or must refuse.
Good == {i \in 1 .. Len(script) : \A j \in 1 .. i : Delimited(script[j]) /\ Fits(script[j])}

AllParsed == wire = <<>> /\ par.read = Len(par.data)

\* However the network cuts the bytes of well-formed messages into pieces, the
\* parser hands out exactly these messages, in order, with the chunks of a body
\* joined and repeated headers merged, and refuses none of them - unless a run
\* ended on a byte that enters a counting state, or the buffer moved under the
\* path (vtm_http_parser_run).
ParsedAsSent ==
    clean =>
      /\ \A i \in Good : i <= Len(out) => out[i] = Expected(script[i])
      /\ Good = 1 .. Len(script) /\ par.mode = "REQUEST"
            => open /\ Len(out) <= Len(script) /\ (AllParsed => Len(out) = Len(script))

\* The parser keeps its bounds: a message whose head or body is larger than the
\* limits by one byte is never handed out, in whatever pieces it arrives
\* (http_parser.c:105-116); its offsets lie inside the buffer, also after the
\* buffer was shortened or grew; and vtm_http_parser_release never finds a body to
\* free, which would be a pointer into the middle of the buffer.
LimitsHold ==
    /\ \A i \in 1 .. Len(script) :
          ~Fits(script[i]) /\ (\A j \in 1 .. i : Delimited(script[j])) /\ clean => Len(out) < i
    /\ par.read <= Len(par.data) /\ Len(par.data) <= par.len
    /\ par.body = -1
    /\ par.chunkDst <= par.chunkBegin \/ par.chunkBegin = 0
    /\ {par.headerName, par.headerValue, par.bodyBegin} \subseteq 0 .. Len(par.data)
=============================================================================
