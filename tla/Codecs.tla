------------------------------- MODULE Codecs -------------------------------
(***************************************************************************)
(* The codecs: numerals (format.c), URLs and their encoding (url.c) and    *)
(* base64 (base64.c).  A result of FALSE is an error code.                 *)
(***************************************************************************)
EXTENDS StringOps

-----------------------------------------------------------------------------
(* Numerals.  The digits are counted first and then written from the last  *)
(* to the first.                                                           *)

HexChar(d, upper) == IF d < 10 THEN 48 + d ELSE (IF upper THEN 55 ELSE 87) + d
DigitCount(n, base) ==
    LET count[r \in 0 .. n] == IF r > base - 1 THEN 1 + count[r \div base] ELSE 1 IN count[n]
Fmt(n, base) ==
    LET len == DigitCount(n, base)
    IN  [i \in 1 .. len |-> HexChar((n \div base ^ (len - i)) % base, TRUE)]
FmtUint(n) == Fmt(n, 10)
FmtInt(n)  == IF n < 0 THEN <<45>> \o FmtUint(-n) ELSE FmtUint(n)
FmtHexSize(n) == Fmt(n, 16)
FmtHexMem(s, upper) ==
    FlattenSeq([i \in DOMAIN s |-> <<HexChar(s[i] \div 16, upper), HexChar(s[i] % 16, upper)>>])

-----------------------------------------------------------------------------
(* URLs.                                                                   *)

Schemes == << [name |-> <<104, 116, 116, 112, 115>>, port |-> 443],
              [name |-> <<104, 116, 116, 112>>,      port |-> 80] >>

\* vtm_url_parse_port: the digits after the colon; the number wraps at limit
\* and is refused when a digit made it smaller.
UrlPort(s, colon, default, limit) ==
    LET end == SkipIn(s, colon + 1, 48 .. 57)
        num[i \in colon .. end] ==
            IF i = colon \/ i = end THEN 0 ELSE (num[i - 1] * 10 + s[i] - 48) % limit
    IN  IF colon = 0 THEN default
        ELSE IF \E i \in colon + 1 .. end - 1 : num[i] < num[i - 1] THEN -1
        ELSE IF end = colon + 1 THEN 0 ELSE num[end - 1]

UrlParse(s, limit) ==
    LET fits   == {i \in DOMAIN Schemes : StartsWith(s, Schemes[i].name)}
        sch    == Schemes[Min(fits)]
        from   == Len(sch.name) + 4
        slashs == {i \in from .. Len(s) : s[i] = 47}
        slash  == IF slashs = {} THEN 0 ELSE Min(slashs)
        colons == {i \in from .. Len(s) : s[i] = 58 /\ (slash = 0 \/ i < slash)}
        colon  == IF colons = {} THEN 0 ELSE Min(colons)
        port   == UrlPort(s, colon, sch.port, limit)
        end    == CASE colon # 0 -> colon - 1
                    [] colon = 0 /\ slash # 0 -> slash - 1
                    [] colon = 0 /\ slash = 0 -> Len(s)
    IN  IF fits = {} \/ SubSeq(s, Len(sch.name) + 1, from - 1) # <<58, 47, 47>> \/ port = -1
        THEN [ok |-> FALSE]
        ELSE [ok |-> TRUE, scheme |-> sch.name, host |-> SubSeq(s, from, end), port |-> port,
              path |-> IF slash = 0 THEN <<>> ELSE SubSeq(s, slash, Len(s))]

Plain(c) == c \in 65 .. 90 \cup 97 .. 122 \cup 48 .. 57 \cup {46, 45, 95, 126}

\* vtm_url_encode into len bytes: before every character, and before the zero
\* at the end, the place that is left is checked.
Encoded(s) == FlattenSeq([i \in DOMAIN s |->
                  IF Plain(s[i]) THEN <<s[i]>>
                  ELSE <<37, HexChar(s[i] \div 16, TRUE), HexChar(s[i] % 16, TRUE)>>])
UrlEncode(s, len) ==
    LET full == \/ \E i \in DOMAIN s : Len(Encoded(SubSeq(s, 1, i))) > len
                \/ Len(Encoded(s)) >= len
    IN  IF full THEN [ok |-> FALSE] ELSE [ok |-> TRUE, text |-> Encoded(s)]

HexValue(c) == CASE c \in 48 .. 57 -> c - 48
                 [] c \in 65 .. 70 -> c - 55
                 [] c \in 97 .. 102 -> c - 87
                 [] OTHER -> -1
\* Mutant: the place for the zero is not counted.
UrlDecode_NoZero(s, len) ==
    LET bad == [ok |-> FALSE]
        dec[i \in 1 .. Len(s) + 1, idx \in 0 .. Len(s)] ==
            IF i = Len(s) + 1 THEN [ok |-> TRUE, text |-> <<>>]
            ELSE IF idx >= len THEN bad
            ELSE LET c    == IF s[i] # 37 THEN s[i] ELSE HexValue(s[i + 1]) * 16 + HexValue(s[i + 2])
                     rest == dec[IF s[i] # 37 THEN i + 1 ELSE i + 3, idx + 1]
                 IN  IF rest.ok THEN [ok |-> TRUE, text |-> <<c>> \o rest.text] ELSE bad
    IN  dec[1, 0]
UrlDecode(s, len) ==
    LET bad == [ok |-> FALSE]
        dec[i \in 1 .. Len(s) + 1, idx \in 0 .. Len(s)] ==
            IF idx >= len THEN bad
            ELSE IF i = Len(s) + 1 THEN [ok |-> TRUE, text |-> <<>>]
            ELSE IF s[i] = 37 /\ (i + 2 > Len(s) \/ HexValue(s[i + 1]) = -1 \/ HexValue(s[i + 2]) = -1)
            THEN bad
            ELSE LET c    == IF s[i] # 37 THEN s[i] ELSE HexValue(s[i + 1]) * 16 + HexValue(s[i + 2])
                     rest == dec[IF s[i] # 37 THEN i + 1 ELSE i + 3, idx + 1]
                 IN  IF rest.ok THEN [ok |-> TRUE, text |-> <<c>> \o rest.text] ELSE bad
    IN  dec[1, 0]

-----------------------------------------------------------------------------
(* Base64.                                                                 *)

Pad == 61
B64Char(v) == CASE v \in 0 .. 25  -> 65 + v
                [] v \in 26 .. 51 -> 71 + v
                [] v \in 52 .. 61 -> v - 4
                [] v = 62 -> 43
                [] v = 63 -> 47
B64Value(c) == CASE c \in 65 .. 90  -> c - 65
                 [] c \in 97 .. 122 -> c - 71
                 [] c \in 48 .. 57  -> c + 4
                 [] c = 43 -> 62
                 [] c = 47 -> 63
                 [] OTHER -> 0
EncBufLen(len) == 4 * ((len + 2) \div 3) + 1
DecBufLen(len) == (len \div 4) * 3

\* Three bytes become four characters; a rest of one or two is padded.
Base64Encode(s) ==
    LET at(i) == IF i <= Len(s) THEN s[i] ELSE 0
        four(i) == LET c == at(i) * 65536 + at(i + 1) * 256 + at(i + 2)
                   IN  << B64Char(c \div 262144), B64Char((c \div 4096) % 64),
                          IF i + 1 <= Len(s) THEN B64Char((c \div 64) % 64) ELSE Pad,
                          IF i + 2 <= Len(s) THEN B64Char(c % 64) ELSE Pad >>
    IN  FlattenSeq([k \in 1 .. (Len(s) + 2) \div 3 |-> four(3 * k - 2)])

\* The length is a multiple of four: of another one the loop would run past
\* the input.
Base64Decode(s) ==
    LET pad == (IF s[Len(s)] = Pad THEN 1 ELSE 0) + (IF s[Len(s) - 1] = Pad THEN 1 ELSE 0)
        three(i) == LET c == B64Value(s[i]) * 262144 + B64Value(s[i + 1]) * 4096
                             + B64Value(s[i + 2]) * 64 + B64Value(s[i + 3])
                    IN  <<c \div 65536, (c \div 256) % 256, c % 256>>
        all == FlattenSeq([k \in 1 .. Len(s) \div 4 |-> three(4 * k - 3)])
    IN  IF Len(s) < 4 THEN [ok |-> FALSE]
        ELSE [ok |-> TRUE, mem |-> SubSeq(all, 1, DecBufLen(Len(s)) - pad)]
=============================================================================
