------------------------------ MODULE WsParser ------------------------------
(***************************************************************************)
(* The WebSocket parser (ws_parser.c), the frame header writer             *)
(* (ws_frame.c) and the loops that feed the parser: the server's           *)
(* (vtm_ws_con_read and vtm_http_srv_sock_can_read) and the client's       *)
(* (vtm_ws_client_recv).                                                   *)
(*                                                                         *)
(* A byte is a number below 256.  A parser is a record of the struct's     *)
(* fields together with the buffer it reads: data holds the bytes that are *)
(* not discarded, read of them are consumed.                               *)
(***************************************************************************)
EXTENDS Integers, Sequences, SequencesExt, Bitwise

CONSTANTS
    Frames,     \* the sequences of frames a peer may send
    Len7Max,    \* VTM_WS_LEN7_MAX
    Len16Max,   \* VTM_WS_LEN16_MAX
    MsgBufInit, \* VTM_WS_PARSER_MSG_BUF_INIT
    MsgBufMax   \* VTM_WS_PARSER_MSG_BUF_MAX

ASSUME WsAssumption ==
    /\ Len7Max \in 1 .. 125 /\ Len16Max \in Len7Max .. 65535
    /\ MsgBufInit \in Nat \ {0} /\ MsgBufMax \in Nat

VARIABLES
    frames,     \* the frames the peer sends
    bytes,      \* the bytes of them that are not read yet
    ws,         \* con->parser and con->sock_con.recvbuf
    looping,    \* the loop turns again although no new byte was announced
    up,         \* the connection is not closed
    msgs,       \* history: the messages that were handed out
    starved     \* history: the parser ran between two frames and found no byte

wsVars == <<frames, bytes, ws, looping, up, msgs, starved>>

CONTINUE == 0
TEXT == 1
BINARY == 2
CLOSE == 8
PING == 9
PONG == 10
LEN16_ID == 126
LEN64_ID == 127

\* vtm_ws_parser_is_valid_opcode, vtm_ws_parser_is_control_opcode
ValidOpcode(o)   == o \in {CONTINUE, TEXT, BINARY, CLOSE, PING, PONG}
ControlOpcode(o) == o \in {CLOSE, PING, PONG}

NoMsg == [type |-> -1, data |-> <<>>]

\* vtm_ws_parser_init
NewWs(mode) ==
    [mode |-> mode, stage |-> "MSG_BEGIN", fin |-> FALSE, opcode |-> 0, masked |-> FALSE,
     len |-> 0, begin |-> 0, mask |-> <<>>, msg |-> <<>>, size |-> MsgBufInit, count |-> 0,
     type |-> CLOSE, ctrl |-> NoMsg, data |-> <<>>, read |-> 0, stat |-> "RUN"]

-----------------------------------------------------------------------------
(* The stages of vtm_ws_parser_run.                                        *)

Stage(p, s)  == [p EXCEPT !.stage = s]
Ends(p, s)   == [p EXCEPT !.stat = s]
Invalid(p)   == [p EXCEPT !.stat = "INVALID", !.stage = "ERROR"]
Avail(p, n)  == p.read + n <= Len(p.data)
Byte(p, i)   == p.data[p.read + i]
Taken(p, n)  == [p EXCEPT !.read = @ + n]

\* The four bits of a byte's upper half: fin, rsv1, rsv2, rsv3.
FinOpcode(p) ==
    LET b   == Byte(p, 1)
        op  == b % 16
        rsv == (b \div 16) % 8
        q   == [Taken(p, 1) EXCEPT !.fin = (b >= 128), !.opcode = op]
    IN  IF \/ rsv # 0
           \/ ~ValidOpcode(op)
           \/ op >= CLOSE /\ ~q.fin
           \/ op = CONTINUE /\ p.count < 1
           \/ p.count > 0 /\ op > CONTINUE /\ op < CLOSE
        THEN Invalid(q)
        ELSE Stage([q EXCEPT !.type = IF p.count = 0 /\ op < CLOSE THEN op ELSE @],
                   "FRAME_MASK_LEN7")

MaskLen7(p) ==
    LET b == Byte(p, 1)
        q == [Taken(p, 1) EXCEPT !.masked = (b >= 128), !.len = b % 128]
    IN  IF (p.mode = "SERVER" /\ ~q.masked) \/ (p.mode = "CLIENT" /\ q.masked)
        THEN Invalid(q)
        ELSE Stage(q, CASE q.len = LEN16_ID -> "FRAME_LEN16"
                        [] q.len = LEN64_ID -> "FRAME_LEN64"
                        [] OTHER            -> "FRAME_MASK32")

Len16(p) ==
    LET q == [Taken(p, 2) EXCEPT !.len = Byte(p, 1) * 256 + Byte(p, 2)]
    IN  IF q.len <= Len7Max THEN Invalid(q) ELSE Stage(q, "FRAME_MASK32")

\* Bit 31 must be clear.  A length with one of the upper 32 bits set is accepted
\* and never available: Huge stands for all of them.
Huge == 2 ^ 30
Len64(p) ==
    LET huge == \E i \in 1 .. 4 : Byte(p, i) # 0
        bit31 == Byte(p, 5) >= 128
        n == IF huge \/ bit31 THEN Huge
             ELSE Byte(p, 5) * 2 ^ 24 + Byte(p, 6) * 2 ^ 16 + Byte(p, 7) * 256 + Byte(p, 8)
        q == [Taken(p, 8) EXCEPT !.len = IF bit31 \/ n <= Len16Max THEN @ ELSE n]
    IN  IF bit31 \/ n <= Len16Max THEN Invalid(q) ELSE Stage(q, "FRAME_MASK32")

Mask32(p) ==
    LET q == IF p.masked THEN [Taken(p, 4) EXCEPT !.mask = [i \in 1 .. 4 |-> Byte(p, i)]] ELSE p
    IN  Stage([q EXCEPT !.begin = q.read], "FRAME_PAYLOAD")

\* vtm_ws_frame_mask_payload, on the bytes of data from begin on.
MaskPayload(s, mask) == [i \in 1 .. Len(s) |-> s[i] ^^ mask[((i - 1) % 4) + 1]]

PayloadOf(p) == SubSeq(p.data, p.begin + 1, p.begin + p.len)

Payload(p) ==
    LET q == Taken(p, p.len)
        d == IF p.masked
             THEN SubSeq(p.data, 1, p.begin) \o MaskPayload(PayloadOf(p), p.mask)
                  \o SubSeq(p.data, p.begin + p.len + 1, Len(p.data))
             ELSE p.data
    IN  Stage([q EXCEPT !.data = d],
              IF ControlOpcode(p.opcode) THEN "FRAME_FINISH_CTRL" ELSE "FRAME_FINISH_DATA")

FinishCtrl(p) ==
    IF p.ctrl # NoMsg THEN Invalid(p)
    ELSE Stage([p EXCEPT !.ctrl = [type |-> p.opcode, data |-> PayloadOf(p)]], "FRAME_COMPLETE")

\* The message buffer is doubled once at most for one frame.
FinishData(p) ==
    LET short == p.size - Len(p.msg) < p.len
        q == IF short THEN [p EXCEPT !.size = @ * 2] ELSE p
    IN  IF short /\ p.size >= MsgBufMax THEN Ends(p, "ERROR")
        ELSE Stage([q EXCEPT !.msg = @ \o PayloadOf(p), !.count = @ + 1], "FRAME_COMPLETE")

FrameComplete(p) ==
    LET q == [p EXCEPT !.data = SubSeq(@, p.read + 1, Len(@)), !.read = 0]
    IN  IF p.ctrl # NoMsg THEN Ends(Stage(q, "FRAME_BEGIN"), "COMPLETE")
        ELSE Stage(q, IF p.fin THEN "MSG_COMPLETE" ELSE "FRAME_BEGIN")

\* The bytes a stage needs before it does anything.
Needs(p) ==
    CASE p.stage \in {"FRAME_FIN_OPCODE", "FRAME_MASK_LEN7"} -> 1
      [] p.stage = "FRAME_LEN16"   -> 2
      [] p.stage = "FRAME_LEN64"   -> 8
      [] p.stage = "FRAME_MASK32"  -> IF p.masked THEN 4 ELSE 0
      [] p.stage = "FRAME_PAYLOAD" -> p.len
      [] OTHER                     -> 0

\* Between two frames a missing byte is an error, everywhere else it is awaited.
Missing(p) == Ends(p, IF p.stage = "FRAME_FIN_OPCODE" THEN "INVALID" ELSE "AGAIN")

WsStep(p) ==
    IF ~Avail(p, Needs(p)) THEN Missing(p)
    ELSE CASE p.stage = "MSG_BEGIN" ->
                Stage([p EXCEPT !.msg = <<>>, !.count = 0, !.type = CLOSE], "FRAME_BEGIN")
           [] p.stage = "FRAME_BEGIN" ->
                Stage([p EXCEPT !.begin = 0, !.len = 0], "FRAME_FIN_OPCODE")
           [] p.stage = "FRAME_FIN_OPCODE"  -> FinOpcode(p)
           [] p.stage = "FRAME_MASK_LEN7"   -> MaskLen7(p)
           [] p.stage = "FRAME_LEN16"       -> Len16(p)
           [] p.stage = "FRAME_LEN64"       -> Len64(p)
           [] p.stage = "FRAME_MASK32"      -> Mask32(p)
           [] p.stage = "FRAME_PAYLOAD"     -> Payload(p)
           [] p.stage = "FRAME_FINISH_CTRL" -> FinishCtrl(p)
           [] p.stage = "FRAME_FINISH_DATA" -> FinishData(p)
           [] p.stage = "FRAME_COMPLETE"    -> FrameComplete(p)
           [] p.stage = "MSG_COMPLETE"      -> Ends(Stage(p, "MSG_BEGIN"), "COMPLETE")
           [] p.stage = "ERROR"             -> Ends(p, "ERROR")

\* The loop of vtm_ws_parser_run, nine stages at a time: a frame has two bytes
\* at least and passes nine stages at most.
WsFrame(p) ==
    LET stage[n \in 0 .. 9] ==
            IF n = 0 THEN p
            ELSE LET q == stage[n - 1] IN IF q.stat = "RUN" THEN WsStep(q) ELSE q
    IN  stage[9]
WsRun(p) ==
    LET fuel == Len(p.data) + 2
        after[n \in 0 .. fuel] ==
            IF n = 0 THEN [p EXCEPT !.stat = "RUN"]
            ELSE LET q == after[n - 1] IN IF q.stat = "RUN" THEN WsFrame(q) ELSE q
    IN  after[fuel]

\* vtm_ws_parser_get_msg: a control message first, else the assembled one.
GetMsg(p) == IF p.ctrl # NoMsg THEN p.ctrl ELSE [type |-> p.type, data |-> p.msg]
\* Mutant: a control message that was handed out is kept.
AfterGet_Keeps(p) == p

AfterGet(p) == [p EXCEPT !.ctrl = NoMsg]

-----------------------------------------------------------------------------
(* The peer.                                                               *)

\* vtm_ws_frame_write_header; the field class forces a length field for peers
\* other than this library.
WriteHeader(f, class) ==
    LET n == Len(f.payload)
        flag == IF f.masked THEN 128 ELSE 0
    IN  <<(IF f.fin THEN 128 ELSE 0) + f.rsv * 16 + f.opcode>>
        \o (CASE class = 7  -> <<flag + n>>
              [] class = 16 -> <<flag + LEN16_ID, n \div 256, n % 256>>
              [] class = 64 -> <<flag + LEN64_ID, 0, 0, 0, 0, 0, 0, n \div 256, n % 256>>)
        \o (IF f.masked THEN f.mask ELSE <<>>)

LenClass(n) == IF n > Len16Max THEN 64 ELSE IF n > Len7Max THEN 16 ELSE 7

FrameBytes(f) ==
    WriteHeader(f, IF f.class = 0 THEN LenClass(Len(f.payload)) ELSE f.class)
    \o (IF f.masked THEN MaskPayload(f.payload, f.mask) ELSE f.payload)

\* RFC 6455's rules for one frame; open says that a fragmented message is open.
LegalFrame(mode, open, f) ==
    /\ f.rsv = 0 /\ ValidOpcode(f.opcode)
    /\ f.masked <=> mode = "SERVER"
    /\ ControlOpcode(f.opcode) => f.fin
    /\ ~ControlOpcode(f.opcode) => (open <=> f.opcode = CONTINUE)
    /\ f.class \in {0, LenClass(Len(f.payload))}

\* The messages in a sequence of frames, up to the first frame that is illegal
\* or makes its message too large for the parser.
Assemble(mode, fs) ==
    LET step(a, f) ==
            LET joined == a.cur \o f.payload
            IN  CASE a.bad \/ ~LegalFrame(mode, a.open, f) -> [a EXCEPT !.bad = TRUE]
                  [] ~a.bad /\ LegalFrame(mode, a.open, f) /\ ControlOpcode(f.opcode) ->
                       [a EXCEPT !.msgs = Append(@, [type |-> f.opcode, data |-> f.payload])]
                  [] OTHER ->
                       LET type == IF a.open THEN a.type ELSE f.opcode
                       IN  IF f.fin
                           THEN [a EXCEPT !.open = FALSE, !.cur = <<>>,
                                          !.msgs = Append(@, [type |-> type, data |-> joined])]
                           ELSE [a EXCEPT !.open = TRUE, !.cur = joined, !.type = type]
    IN  FoldLeft(step, [msgs |-> <<>>, cur |-> <<>>, open |-> FALSE, type |-> 0, bad |-> FALSE], fs)

\* The longest data message the frames can make.
DataBytes(fs) ==
    FoldLeft(LAMBDA n, f : IF ControlOpcode(f.opcode) THEN n ELSE n + Len(f.payload), 0, fs)

WsInit ==
    /\ frames \in Frames
    /\ bytes = FlattenSeq([i \in 1 .. Len(frames) |-> FrameBytes(frames[i])])
    /\ ws = NewWs(IF frames[1].masked THEN "SERVER" ELSE "CLIENT")
    /\ looping = FALSE /\ up = TRUE /\ msgs = <<>> /\ starved = FALSE

\* One turn of the server's loop, or of the client's: the client parses what is
\* left over before it reads, and its read blocks.
WsRead(k) ==
    LET r == WsRun([ws EXCEPT !.data = @ \o SubSeq(bytes, 1, k)])
    IN  /\ up /\ k <= Len(bytes)
        /\ IF ws.mode = "SERVER" THEN k = 0 => looping ELSE k = 0 <=> looping /\ ws.data # <<>>
        /\ bytes' = SubSeq(bytes, k + 1, Len(bytes))
        /\ starved' = (starved \/ (r.stat = "INVALID" /\ r.stage = "FRAME_FIN_OPCODE"))
        /\ up' = (r.stat \in {"AGAIN", "COMPLETE"})
        /\ looping' = (r.stat = "COMPLETE")
        /\ ws' = IF r.stat = "COMPLETE" THEN AfterGet(r) ELSE r
        /\ msgs' = IF r.stat = "COMPLETE" THEN Append(msgs, GetMsg(r)) ELSE msgs
        /\ UNCHANGED frames

WsNext == \E k \in 0 .. 4 : WsRead(k)

WsSpec == WsInit /\ [][WsNext]_wsVars

-----------------------------------------------------------------------------
\* However frames are cut into pieces, the messages handed out are those the
\* frames make, in order: fragments joined and unmasked, control messages between
\* the fragments at their place, nothing from an illegal frame on - and all of
\* them, unless the parser was starved between two frames (vtm_ws_parser_run).  A
\* message put together from frames no larger than the first size of its buffer
\* stays inside it, although it is doubled only once per frame (ws_parser.c:282).
MessagesAsFramed ==
    LET want == Assemble(ws.mode, frames)
    IN  /\ IsPrefix(msgs, want.msgs)
        /\ up /\ bytes = <<>> /\ ws.read = Len(ws.data) /\ ~looping
              => ~want.bad /\ msgs = want.msgs
        /\ up \/ starved \/ want.bad \/ DataBytes(frames) > MsgBufMax
        /\ (\A i \in 1 .. Len(frames) : Len(frames[i].payload) <= MsgBufInit) => Len(ws.msg) <= ws.size
=============================================================================
