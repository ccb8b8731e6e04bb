----------------------------- MODULE StringOps ------------------------------
(***************************************************************************)
(* The string functions (string.c) and their users that read text: lines   *)
(* of a file (file.c) and lines of a configuration (config.c).  A string   *)
(* is the sequence of its character codes, without the zero at its end; an *)
(* index is counted from 0 as in C.                                        *)
(***************************************************************************)
EXTENDS Integers, Sequences, SequencesExt, FiniteSetsExt

ToLower(c) == IF c \in 65 .. 90 THEN c + 32 ELSE c
Lowered(s) == [i \in DOMAIN s |-> ToLower(s[i])]
IsSpace(c) == c \in 9 .. 13 \cup {32}
IsDigit(c) == c \in 48 .. 57

CaseCmp(s, t) == Lowered(s) = Lowered(t)
StartsWith(s, t) == IsPrefix(t, s)

\* The first place from i on where strspn or strcspn stops.
SkipIn(s, i, D) == Min({j \in i .. Len(s) + 1 : j = Len(s) + 1 \/ s[j] \notin D} \cup {Len(s) + 1})
SkipTo(s, i, D) == Min({j \in i .. Len(s) + 1 : j = Len(s) + 1 \/ s[j] \in D} \cup {Len(s) + 1})

\* The tokens of strtok_r; after count of them the delimiters are empty.
Tokens(s, D, count) ==
    LET toks[i \in 1 .. Len(s) + 2, n \in 0 .. Len(s) + 1] ==
            LET d == IF count > 0 /\ n >= count THEN {} ELSE D
                b == SkipIn(s, i, d)
                e == SkipTo(s, b, d)
            IN  IF b > Len(s) THEN <<>> ELSE <<SubSeq(s, b, e - 1)>> \o toks[e + 1, n + 1]
    IN  toks[1, 0]
StrSplit(s, D, count) == Tokens(s, D, count)

\* The leading blanks are skipped and the token ends at the next blank.
Stripped(tok) ==
    LET b == SkipIn(tok, 1, {c \in ToSet(tok) : IsSpace(c)})
    IN  SubSeq(tok, b, SkipTo(tok, b, {c \in ToSet(tok) : IsSpace(c)}) - 1)

\* vtm_str_pattern_count: a mismatch consumes the characters it compared.
PatternCount(s, p) ==
    LET cnt[i \in 1 .. Len(s) + 1] ==
            IF i > Len(s) THEN 0
            ELSE LET m == Max({k \in 0 .. Len(p) : i + k - 1 <= Len(s)
                                                   /\ SubSeq(s, i, i + k - 1) = SubSeq(p, 1, k)})
                 IN  IF m = Len(p) THEN 1 + cnt[i + m]
                     ELSE IF i + m > Len(s) THEN 0 ELSE cnt[i + m + 1]
    IN  cnt[1]

\* vtm_str_split_ex: a place is allocated for every delimiter, and one more.
SplitEx(s, p) ==
    [tokens |-> SelectSeq([i \in DOMAIN Tokens(s, ToSet(p), 0) |-> Stripped(Tokens(s, ToSet(p), 0)[i])],
                          LAMBDA t : t # <<>>),
     room   |-> PatternCount(s, p) + 1]

\* Mutant: the blanks at the end stay.
StrTrim_Front(s) ==
    LET solid == {i \in DOMAIN s : ~IsSpace(s[i])}
    IN  IF solid = {} THEN s ELSE SubSeq(s, Min(solid), Len(s))
StrTrim(s) ==
    LET solid == {i \in DOMAIN s : ~IsSpace(s[i])}
    IN  IF solid = {} THEN s ELSE SubSeq(s, Min(solid), Max(solid))

IndexOf(s, c, len) ==
    LET at == {i \in 1 .. Len(s) : i <= len /\ s[i] = c} IN IF at = {} THEN -1 ELSE Min(at) - 1
IndexChars(s, C) ==
    LET at == {i \in DOMAIN s : s[i] \in C} IN IF at = {} THEN -1 ELSE Min(at) - 1
\* The end of the pattern is moved over the input.
IndexPattern(s, p, len) ==
    LET at == {i \in Len(p) .. Len(s) : i <= len
                  /\ \A c \in 1 .. Len(p) : s[i - (Len(p) - c)] = p[c]}
    IN  IF at = {} THEN -1 ELSE Min(at) - Len(p)

ListContains(s, D, search, nocase) ==
    \E i \in DOMAIN Tokens(s, D, 0) :
        LET t == Stripped(Tokens(s, D, 0)[i]) IN IF nocase THEN CaseCmp(search, t) ELSE search = t

\* vtm_str_vprintf: the size of the memory when the text has n characters; the
\* format is not empty.
PrintfSize(fmt, n) == fmt * 2 ^ Min({k \in 1 .. n + 1 : fmt * 2 ^ k > n})

-----------------------------------------------------------------------------
(* Lines.                                                                  *)

\* vtm_file_getline from place i: the line, the place after it and the length
\* of the memory, which doubles when it is full; line is <<>> at the end too.
GetLine(f, i, bufLen) ==
    LET e    == SkipTo(f, i, {10})
        line == SelectSeq(SubSeq(f, i, e - 1), LAMBDA c : c # 13)
    IN  [ok |-> e <= Len(f) \/ line # <<>>, line |-> line, next |-> e + 1,
         room |-> bufLen * 2 ^ Min({k \in 0 .. Len(line) : bufLen * 2 ^ k > Len(line)})]
FileLines(f, bufLen) ==
    LET lines[i \in 1 .. Len(f) + 2, b \in 1 .. 2 * (bufLen + Len(f))] ==
            LET r == GetLine(f, i, b)
            IN  IF i > Len(f) + 1 \/ ~r.ok THEN <<>> ELSE <<r>> \o lines[r.next, r.room]
    IN  lines[1, bufLen]

\* Mutant: the line is cut at every equals sign.
ConfigLine_CutAll(line) ==
    LET text  == StrTrim(SubSeq(line, 1, SkipTo(line, 1, {35, 59}) - 1))
        split == StrSplit(text, {61}, 0)
    IN  IF text = <<>> \/ Len(split) # 2 THEN <<>>
        ELSE <<[key |-> StrTrim(split[1]), val |-> StrTrim(split[2])]>>
\* vtm_config_file_parse_line: at most one entry.
ConfigLine(line) ==
    LET text  == StrTrim(SubSeq(line, 1, SkipTo(line, 1, {35, 59}) - 1))
        split == StrSplit(text, {61}, 1)
    IN  IF text = <<>> \/ Len(split) # 2 THEN <<>>
        ELSE <<[key |-> StrTrim(split[1]), val |-> StrTrim(split[2])]>>
ConfigRead(f, bufLen) ==
    LET ls == FileLines(f, bufLen) IN FlattenSeq([i \in DOMAIN ls |-> ConfigLine(ls[i].line)])

\* vtm_file_get_ext: no extension is -1; a dot at the first place is none.
FileExt(s) ==
    LET dots == {i \in DOMAIN s : s[i] = 46 /\ i > 1}
    IN  IF dots = {} THEN -1 ELSE Max(dots)
=============================================================================
