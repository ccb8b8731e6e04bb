------------------------------ MODULE Elements ------------------------------
(***************************************************************************)
(* Typed elements (elem.c), and the conversions between them (convert.c).  *)
(*                                                                         *)
(* A number is an integer, whatever its C type; the width of a type is     *)
(* Bits[w] for w in {"8", "16", "32", "64"}, so that a small instance      *)
(* meets every overflow.  Floating point values are integral.  A string is *)
(* the numeral of an integer or a word that no number starts.  An operator *)
(* that reads an element gives the set of results the build may produce:   *)
(* one, unless the C conversion is undefined.                              *)
(***************************************************************************)
EXTENDS Integers

CONSTANTS
    Bits,       \* the width of the integer types
    GDigits     \* the digits "%g" prints (six)

ASSUME ElementsAssumption ==
    /\ Bits \in [{"8", "16", "32", "64"} -> Nat \ {0}]
    /\ GDigits \in Nat \ {0}

Signed   == [INT8 |-> "8", INT16 |-> "16", INT32 |-> "32", INT64 |-> "64", CHAR |-> "8",
             SCHAR |-> "8", SHORT |-> "16", INT |-> "32", LONG |-> "64"]
Unsigned == [UINT8 |-> "8", UINT16 |-> "16", UINT32 |-> "32", UINT64 |-> "64", UCHAR |-> "8",
             USHORT |-> "16", UINT |-> "32", ULONG |-> "64"]
Integral == DOMAIN Signed \cup DOMAIN Unsigned
Real     == {"FLOAT", "DOUBLE"}
Types    == Integral \cup Real \cup {"NULL", "BOOL", "STRING", "BLOB", "POINTER"}

ABORT    == "ABORT"                       \* VTM_ABORT_NOT_SUPPORTED
Numeral(n) == [num |-> TRUE, n |-> n, w |-> ""]
Word(w)    == [num |-> FALSE, n |-> 0, w |-> w]
TrueStr  == Word("TRUE")
FalseStr == Word("FALSE")

-----------------------------------------------------------------------------
Low(t)  == IF t \in DOMAIN Signed THEN -(2 ^ (Bits[Signed[t]] - 1)) ELSE 0
High(t) == IF t \in DOMAIN Signed THEN 2 ^ (Bits[Signed[t]] - 1) - 1
           ELSE 2 ^ Bits[Unsigned[t]] - 1
Holds(t, n) == t \in Integral /\ n \in Low(t) .. High(t)

\* A C cast between integer types keeps the low bits.
Cast(t, n) == ((n - Low(t)) % (High(t) - Low(t) + 1)) + Low(t)

\* A cast of a floating point value that does not fit is undefined.
CastReal(t, n) == IF Holds(t, n) THEN {n} ELSE Low(t) .. High(t)

\* strtoll and strtoull stop at the ends of their type; strtoull negates.
StrInt64(s)  == IF ~s.num THEN 0
                ELSE CASE s.n > High("INT64") -> High("INT64")
                       [] s.n < Low("INT64")  -> Low("INT64")
                       [] OTHER               -> s.n
\* Mutant: a number is read with the signed function.
StrUint64_Signed(s) == Cast("UINT64", StrInt64(s))
StrUint64(s) == IF ~s.num THEN 0
                ELSE IF s.n > High("UINT64") \/ -s.n > High("UINT64") THEN High("UINT64")
                ELSE Cast("UINT64", s.n)
StrDouble(s) == IF s.num THEN s.n ELSE 0

\* "%g": the GDigits most significant digits.
PrintReal(n) ==
    LET abs  == IF n < 0 THEN -n ELSE n
        k    == CHOOSE i \in 0 .. 10 : abs < 10 ^ (GDigits + i)
                                     /\ (i = 0 \/ abs >= 10 ^ (GDigits + i - 1))
        near == ((abs + (10 ^ k) \div 2) \div 10 ^ k) * 10 ^ k
    IN  Numeral(IF n < 0 THEN -near ELSE near)

\* vtm_elem_parse: the argument after the promotions of a variadic call.
ElemParse(t, n) ==
    CASE t \in Integral                -> Cast(t, n)
      [] t = "BOOL"                    -> n # 0
      [] t \in Real \cup {"POINTER"}   -> n
      [] t = "STRING"                  -> Numeral(n)
      [] t = "BLOB"                    -> "blob"
      [] t = "NULL"                    -> ABORT

\* VTM_ELEM_CONV_NUMERIC and VTM_ELEM_CONV_UNUMERIC: they differ in how a
\* string and a pointer are read.
ConvNumeric(r, t, v) ==
    CASE t \in Integral   -> {Cast(r, v)}
      [] t = "BOOL"       -> {IF v THEN 1 ELSE 0}
      [] t \in Real       -> CastReal(r, v)
      [] t = "STRING"     -> {Cast(r, StrInt64(v))}
      [] t = "BLOB"       -> {0}
      [] t = "POINTER"    -> {Cast(r, Cast("INT64", v))}
      [] t = "NULL"       -> {ABORT}
ConvUnumeric(r, t, v) ==
    CASE t = "STRING"                -> {Cast(r, StrUint64(v))}
      [] t = "POINTER"               -> {Cast(r, Cast("UINT64", v))}
      [] t \notin {"STRING", "POINTER"} -> ConvNumeric(r, t, v)
ElemAs(r, t, v) == IF r \in DOMAIN Signed THEN ConvNumeric(r, t, v) ELSE ConvUnumeric(r, t, v)

\* vtm_elem_as_bool has no case for a signed char.
ElemAsBool(t, v) ==
    CASE t \in (Integral \ {"SCHAR"}) \cup Real -> {v # 0}
      [] t = "BOOL"                 -> {v}
      [] t = "STRING"               -> {v = TrueStr}
      [] t \in {"BLOB", "POINTER"}  -> {FALSE}
      [] t \in {"NULL", "SCHAR"}    -> {ABORT}

ElemAsDouble(t, v) ==
    CASE t \in Integral \cup Real   -> {v}
      [] t = "BOOL"                 -> {IF v THEN 1 ELSE 0}
      [] t = "STRING"               -> {StrDouble(v)}
      [] t \in {"BLOB", "POINTER"}  -> {0}
      [] t = "NULL"                 -> {ABORT}

ElemAsStr(t, v) ==
    CASE t \in Integral             -> Numeral(v)
      [] t = "BOOL"                 -> IF v THEN TrueStr ELSE FalseStr
      [] t \in Real                 -> PrintReal(v)
      [] t = "STRING"               -> v
      [] t = "BLOB"                 -> Word("hex")
      [] t = "POINTER"              -> Numeral(Cast("UINT64", v))

\* vtm_elem_as_blob and vtm_elem_as_ptr.
ElemAsPtr(r, t, v) == IF t = r THEN {v} ELSE {"NULL"}
=============================================================================
