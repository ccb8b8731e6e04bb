----------------------------- MODULE NmProtocol -----------------------------
(***************************************************************************)
(* The binary encoding of a network message (NM) and its resumable parser. *)
(*                                                                         *)
(* A message is a vtm_dataset: a function from field names to variants     *)
(* [type, value].  A name is the sequence of its bytes; a value is the     *)
(* sequence of the bytes it has in the host's memory (for FLOAT and DOUBLE *)
(* those of the word vtm_pack_float and vtm_pack_double make of it).       *)
(*                                                                         *)
(* A vtm_buf is modelled by the bytes between its `read` and `used` marks. *)
(***************************************************************************)
EXTENDS Integers, Sequences, SequencesExt, TLC

CONSTANT HostOrder    \* vtm_sys_get_byteorder(): "LE" or "BE"

ASSUME HostOrderAssumption == HostOrder \in {"LE", "BE"}

MAGIC == 86           \* 'V'
VER_1 == 1

\* VTM_NM_TNUM_*: the wire number of an element type is its index.
TypeOfNum ==
    << "INT8", "UINT8", "INT16", "UINT16", "INT32", "UINT32", "INT64", "UINT64",
       "BOOL", "CHAR", "SCHAR", "UCHAR", "FLOAT", "DOUBLE", "STRING", "BLOB" >>

NumOfType(t) == CHOOSE n \in DOMAIN TypeOfNum : TypeOfNum[n] = t

Supported(t) == \E n \in DOMAIN TypeOfNum : TypeOfNum[n] = t

HasLength(t) == t \in {"STRING", "BLOB"}

\* vtm_elem_size, for the types that are sent without a length.
ElemSize(t) ==
    CASE t \in {"INT16", "UINT16"}           -> 2
      [] t \in {"INT32", "UINT32", "FLOAT"}  -> 4
      [] t \in {"INT64", "UINT64", "DOUBLE"} -> 8
      [] OTHER                               -> 1

\* An unsigned number as two or four bytes in network order, and back.
NetBytes2(n) == <<(n \div 256) % 256, n % 256>>
NetBytes4(n) == NetBytes2((n \div 256) \div 256) \o NetBytes2(n)

NetNumber2(b) == 256 * b[1] + b[2]
NetNumber4(b) == 256 * (256 * (256 * b[1] + b[2]) + b[3]) + b[4]

\* vtm_buf_puto and vtm_buf_geto between a buffer in network order and host
\* memory: a little endian host reverses the bytes.
HostNet(b) == IF HostOrder = "BE" THEN b ELSE Reverse(b)

-----------------------------------------------------------------------------
(* vtm_nm_msg_to_buf *)

\* The content of one variant.
ValueBytes(v) ==
    IF HasLength(v.type) THEN NetBytes4(Len(v.value)) \o v.value
                         ELSE HostNet(v.value)

\* One field.  A name of more than UCHAR_MAX bytes stops the encoding before
\* the field, an element type without a wire number after its name.
FieldBytes(name, v) ==
    IF Len(name) > 255 THEN <<>>
    ELSE <<Len(name)>> \o name
            \o (IF Supported(v.type) THEN <<NumOfType(v.type)>> \o ValueBytes(v)
                                     ELSE <<>>)

FieldFails(name, v) == Len(name) > 255 \/ ~Supported(v.type)

\* The order in which vtm_dataset_entryset lists the fields: some fixed one.
EntrySet(m) == SetToSeq(DOMAIN m)

\* The bytes appended to the buffer, the ones of a failed encoding included:
\* the fields are written until one fails.
MsgBytes(m) ==
    LET names  == EntrySet(m)
        failed == {i \in DOMAIN names : FieldFails(names[i], m[names[i]])}
        upto   == IF failed = {} THEN Len(names)
                  ELSE CHOOSE i \in failed : \A j \in failed : i <= j
    IN  <<MAGIC, VER_1>> \o NetBytes2(Len(names))
            \o FlattenSeq([i \in 1..upto |-> FieldBytes(names[i], m[names[i]])])

\* What the call may return.  The loop over the fields is the only thing that
\* assigns rc on the way to OK, so for a message without fields the value is
\* whatever the variable held.
EncodeResults(m) ==
    IF DOMAIN m = {} THEN {"OK", "ERROR"}
    ELSE IF \E n \in DOMAIN m : FieldFails(n, m[n]) THEN {"ERROR"}
    ELSE {"OK"}

-----------------------------------------------------------------------------
(* vtm_nm_parser *)

\* `msg` is {} for NULL and {d} for the dataset d.
NewParser(msg) ==
    [state |-> "MSG_BEGIN", msg |-> msg, field_count |-> 0, fields_parsed |-> 0,
     name_len |-> 0, name |-> <<>>, type |-> "INT8", value_len |-> 0, value |-> <<>>]

\* A run in progress: the parser, the unread bytes and RUN, or the
\* vtm_net_recv_stat that vtm_nm_parser_run returns.
Stop(s, stat) == [s EXCEPT !.stat = stat]
Goto(s, state) == [s EXCEPT !.par.state = state]

\* VTM_BUF_GET_AVAIL and the get that follows it: the state waits for n bytes
\* and leaves them in the buffer until then.
Take(s, n, Then(_, _)) ==
    IF Len(s.buf) < n THEN Stop(s, "AGAIN")
    ELSE Then([s EXCEPT !.buf = SubSeq(@, n + 1, Len(@))], SubSeq(s.buf, 1, n))

Expect(s, byte, state) ==
    Take(s, 1, LAMBDA t, b : IF b[1] = byte THEN Goto(t, state)
                                            ELSE Stop(t, "INVALID"))

FieldCount(s) ==
    Take(s, 2, LAMBDA t, b :
        [t EXCEPT !.par.field_count = NetNumber2(b), !.par.fields_parsed = 0,
                  !.par.state = "FIELD_BEGIN"])

NameLen(s) ==
    Take(s, 1, LAMBDA t, b :
        IF b[1] = 0 THEN Stop([t EXCEPT !.par.name_len = 0], "INVALID")
        ELSE [t EXCEPT !.par.name_len = b[1], !.par.state = "NAME"])

Name(s) ==
    Take(s, s.par.name_len, LAMBDA t, b :
        [t EXCEPT !.par.name = b, !.par.state = "VALUE_TYPE"])

ValueType(s) ==
    Take(s, 1, LAMBDA t, b :
        IF b[1] \notin DOMAIN TypeOfNum THEN Stop(t, "INVALID")
        ELSE LET e == TypeOfNum[b[1]]
             IN  IF HasLength(e)
                 THEN [t EXCEPT !.par.type = e, !.par.state = "VALUE_LEN"]
                 ELSE [t EXCEPT !.par.type = e, !.par.value_len = ElemSize(e),
                                !.par.state = "VALUE"])

ValueLen(s) ==
    Take(s, 4, LAMBDA t, b :
        [t EXCEPT !.par.value_len = NetNumber4(b), !.par.state = "VALUE"])

\* Mutant: a number is copied without looking at the byte order.
Value_NoOrder(s) ==
    Take(s, s.par.value_len, LAMBDA t, b :
        [t EXCEPT !.par.value = b, !.par.state = "FIELD_COMPLETE"])

Value(s) ==
    Take(s, s.par.value_len, LAMBDA t, b :
        [t EXCEPT !.par.value = IF HasLength(s.par.type) THEN b ELSE HostNet(b),
                  !.par.state = "FIELD_COMPLETE"])

\* The dataset is made when its first field is complete; a second field of
\* the same name replaces the first.
FieldComplete(s) ==
    LET old == IF s.par.msg = {} THEN <<>> ELSE CHOOSE d \in s.par.msg : TRUE
        fld == [type |-> s.par.type, value |-> s.par.value]
        new == [n \in DOMAIN old \cup {s.par.name} |-> IF n = s.par.name THEN fld ELSE old[n]]
    IN  [s EXCEPT !.par.msg = {new}, !.par.name = <<>>,
                  !.par.fields_parsed = @ + 1, !.par.state = "FIELD_BEGIN"]

\* One turn of the loop in vtm_nm_parser_run.
ParserStep(s) ==
    CASE s.par.state = "MSG_BEGIN"      -> Goto(s, "MAGIC")
      [] s.par.state = "MAGIC"          -> Expect(s, MAGIC, "VERSION")
      [] s.par.state = "VERSION"        -> Expect(s, VER_1, "FIELD_COUNT")
      [] s.par.state = "FIELD_COUNT"    -> FieldCount(s)
      [] s.par.state = "FIELD_BEGIN"    ->
            Goto(s, IF s.par.fields_parsed = s.par.field_count
                    THEN "MSG_COMPLETE" ELSE "NAME_LEN")
      [] s.par.state = "NAME_LEN"       -> NameLen(s)
      [] s.par.state = "NAME"           -> Name(s)
      [] s.par.state = "VALUE_TYPE"     -> ValueType(s)
      [] s.par.state = "VALUE_LEN"      -> ValueLen(s)
      [] s.par.state = "VALUE"          -> Value(s)
      [] s.par.state = "FIELD_COMPLETE" -> FieldComplete(s)
      [] s.par.state = "MSG_COMPLETE"   -> Stop(s, "COMPLETE")

\* vtm_nm_parser_run.  A field takes at most seven turns and at least one
\* byte, the head of a message at most five turns.
ParserRun(par, buf) ==
    LET turns == 7 * Len(buf) + 12
        run[n \in 0 .. turns] ==
            IF n = 0 THEN [par |-> par, buf |-> buf, stat |-> "RUN"]
            ELSE LET s == run[n - 1] IN IF s.stat = "RUN" THEN ParserStep(s) ELSE s
    IN  run[turns]

=============================================================================
