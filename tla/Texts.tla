------------------------------- MODULE Texts --------------------------------
(***************************************************************************)
(* The string functions and the codecs beside what they should compute: a  *)
(* state is one input, a step goes to a longer input.                      *)
(***************************************************************************)
EXTENDS Codecs

CONSTANTS
    TextChars,  \* the characters of the texts
    Bytes,      \* the bytes of the binary inputs
    TextLen,    \* bound: the longest input
    PortWidth   \* the values of an unsigned int

ASSUME TextsAssumption == TextLen \in Nat /\ PortWidth \in Nat \ {0}

VARIABLE txt    \* the kind of the input and the input

textVars == <<txt>>

Comma == 44
Equal == 61

Grow ==
    \/ /\ txt.kind = "text" /\ Len(txt.s) < TextLen
       /\ \E c \in TextChars : txt' = [txt EXCEPT !.s = Append(@, c)]
    \/ /\ txt.kind = "bytes" /\ Len(txt.s) < TextLen
       /\ \E c \in Bytes : txt' = [txt EXCEPT !.s = Append(@, c)]

TextInit == txt \in {[kind |-> k, s |-> <<>>] : k \in {"text", "bytes"}}

-----------------------------------------------------------------------------
(* The references.                                                         *)

Blank(s) == \A i \in DOMAIN s : IsSpace(s[i])

\* The places where s can be cut at a delimiter, with both ends.
Cuts(s, d) == {0, Len(s) + 1} \cup {i \in DOMAIN s : s[i] = d}
Pieces(s, d) == {SubSeq(s, i + 1, j - 1) : <<i, j>> \in
                    {<<a, b>> \in Cuts(s, d) \X Cuts(s, d) : a < b /\ \A k \in Cuts(s, d) : k <= a \/ k >= b}}
OccursAt(s, p, i) == SubSeq(s, i + 1, i + Len(p)) = p

TrimRight(s) ==
    LET t == StrTrim(s)
    IN  ~Blank(s) => /\ ~IsSpace(t[1]) /\ ~IsSpace(Last(t))
                     /\ \E i \in 0 .. Len(s) : OccursAt(s, t, i) /\ Blank(SubSeq(s, 1, i))
                                               /\ Blank(SubSeq(s, i + Len(t) + 1, Len(s)))
SplitRight(s) ==
    /\ ToSet(StrSplit(s, {Comma}, 0)) = Pieces(s, Comma) \ {<<>>}
    /\ FlattenSeq(StrSplit(s, {Comma}, 0)) = SelectSeq(s, LAMBDA c : c # Comma)
    /\ s # <<>> /\ s[1] # Equal /\ Equal \in ToSet(s)
         => LET p == IndexOf(s, Equal, Len(s))
            IN  StrSplit(s, {Equal}, 1) = SelectSeq(<<SubSeq(s, 1, p), SubSeq(s, p + 2, Len(s))>>,
                                                    LAMBDA t : t # <<>>)
SearchRight(s) ==
    \A p \in {<<97>>, <<97, 97>>, <<97, Comma, 97>>} :
        LET found == {i \in 0 .. Len(s) - Len(p) : OccursAt(s, p, i)}
        IN  IndexPattern(s, p, Len(s)) = IF found = {} THEN -1 ELSE Min(found)

\* What string.c computes is what string.h says: trimming removes the blanks at
\* both ends and no other character, splitting finds every piece between two
\* delimiters and keeps the rest behind the last counted one as it is, a search
\* finds the first place, a list contains what one of its pieces is without
\* blanks, and no result is written behind the memory that was allocated for it.
StringsAsSpecified ==
    txt.kind = "text" =>
        LET s == txt.s
        IN  /\ TrimRight(s) /\ SplitRight(s) /\ SearchRight(s)
            /\ Len(SplitEx(s, <<Comma>>).tokens) <= SplitEx(s, <<Comma>>).room
            /\ \A nocase \in BOOLEAN :
                 ListContains(s, {Comma}, <<97>>, nocase)
                   <=> \E p \in Pieces(s, Comma) : p # <<>> /\
                         (Stripped(p) = <<97>> \/ (nocase /\ Stripped(p) = <<65>>))
            /\ \A n \in 0 .. 9 : Len(s) > 0 => PrintfSize(Len(s), n) > n

\* The entry a line stands for, found by its first equals sign; a line that
\* begins with one, or has nothing on a side of it, stands for none.
LineMeans(line) ==
    LET t == StrTrim(SelectSeq(line, LAMBDA c : c # 13))
        p == IndexOf(t, Equal, Len(t))
    IN  IF p > 0 /\ p < Len(t) - 1 THEN <<[key |-> StrTrim(SubSeq(t, 1, p)),
                                           val |-> StrTrim(SubSeq(t, p + 2, Len(t)))]>>
        ELSE <<>>

\* A configuration file is read line by line: the entries are those of the lines,
\* in order, whatever the line ends, the blank lines and the comments are, unless
\* a line begins with an equals sign, which strtok_r skips (config.c:66); and a
\* line never overruns the memory it is read into, which starts with one byte here.
ConfigAsWritten ==
    txt.kind = "text" =>
        LET s     == txt.s
            entry == <<32, 97, 32, 61, 97, 61>> \o s
            file  == s \o <<13, 10>> \o entry \o <<10, 10, 35>> \o entry \o <<10>> \o entry
            lead  == LET i == SkipIn(s, 1, {13, 32}) IN i <= Len(s) /\ s[i] = Equal
        IN  /\ ~lead => ConfigRead(file, 1)
                          = LineMeans(s) \o LineMeans(entry) \o LineMeans(entry)
            /\ \A i \in DOMAIN FileLines(file, 1) :
                 LET l == FileLines(file, 1)[i] IN Len(l.line) < l.room

UrlOf(sch, host, port, path) == sch \o <<58, 47, 47>> \o host \o port \o path

\* The codecs invert each other: what vtm_url_encode and vtm_base64_encode write
\* is decoded to the input, into the smallest memory that holds it and no smaller
\* one; a URL is taken apart into the parts it was made of, with a port that fits;
\* a numeral has the value that was printed, without a leading zero.
CodecsInvert ==
    txt.kind = "bytes" =>
        LET s == txt.s
            e == Encoded(s)
        IN  /\ 0 \notin ToSet(s) =>
                 /\ \A len \in 0 .. Len(e) + 1 : UrlEncode(s, len).ok <=> len > Len(e)
                 /\ \A len \in 0 .. Len(s) + 1 : UrlDecode(e, len).ok <=> len > Len(s)
                 /\ UrlDecode(e, Len(s) + 1).text = s
            /\ s # <<>> => /\ Base64Decode(Base64Encode(s)) = [ok |-> TRUE, mem |-> s]
                           /\ Len(Base64Encode(s)) < EncBufLen(Len(s))
            /\ \A i \in DOMAIN Schemes, n \in 0 .. 12, path \in {<<>>, <<47>>, <<47, 58, 49>>} :
                 {0, 47, 58} \cap ToSet(s) = {} =>
                   /\ UrlParse(UrlOf(Schemes[i].name, s, <<58>> \o FmtUint(n), path), PortWidth)
                        = [ok |-> TRUE, scheme |-> Schemes[i].name, host |-> s, port |-> n, path |-> path]
                   /\ UrlParse(UrlOf(Schemes[i].name, s, <<>>, path), PortWidth).port = Schemes[i].port
            /\ FmtHexMem(s, TRUE) = FlattenSeq([i \in DOMAIN s |->
                    IF s[i] < 16 THEN <<48>> \o FmtHexSize(s[i]) ELSE FmtHexSize(s[i])])
            /\ \A i \in DOMAIN s : LET d == FmtInt(-s[i] - 1)
                                   IN  /\ d[1] = 45 /\ d[2] # 48
                                       /\ UrlPort(<<58>> \o Tail(d), 1, 0, 1000) = s[i] + 1
=============================================================================
