------------------------------ MODULE Variants ------------------------------
(***************************************************************************)
(* A variant (variant.c): an element with its type, and the string it is   *)
(* converted to at the first vtm_variant_as_str.                           *)
(***************************************************************************)
EXTENDS Elements

CONSTANT Args   \* the integers a caller passes

ASSUME VariantsAssumption == Args \subseteq Int

VARIABLES
    vr,         \* the variant: its type, its data and the cached string
    kept,       \* history: the integer that was stored
    strs        \* the strings the variant has on the heap

variantVars == <<vr, kept, strs>>

\* str is the cached string, or None; the string of a STRING variant is the
\* data itself and is not freed.

None == Word("")

VariantFrom(t, n) == [type |-> t, data |-> IF t = "NULL" THEN 0 ELSE ElemParse(t, n), str |-> None]

FromArg(t, n) ==
    /\ vr.type = "NULL" /\ strs = 0
    /\ vr' = VariantFrom(t, n) /\ kept' = n /\ UNCHANGED strs
FromWord(w) ==
    /\ vr.type = "NULL" /\ strs = 0
    /\ vr' = [type |-> "STRING", data |-> w, str |-> None]
    /\ kept' = 0 /\ UNCHANGED strs

\* vtm_variant_as_int8 to vtm_variant_as_double: what a reader of type r gets.
VariantAs(r) == CASE r \in Integral -> ElemAs(r, vr.type, vr.data)
                  [] r \in Real     -> ElemAsDouble(vr.type, vr.data)
                  [] r = "BOOL"     -> ElemAsBool(vr.type, vr.data)

\* vtm_variant_as_str converts once.
AsStr ==
    /\ vr.type # "NULL"
    /\ IF vr.str # None THEN UNCHANGED <<vr, strs>>
       ELSE /\ vr' = [vr EXCEPT !.str = ElemAsStr(vr.type, vr.data)]
            /\ strs' = IF vr.type = "STRING" THEN strs ELSE strs + 1
    /\ UNCHANGED kept

\* vtm_variant_release, and a new life of the struct.
Release ==
    /\ strs' = IF vr.str # None /\ vr.type # "STRING" THEN strs - 1 ELSE strs
    /\ vr' = VariantFrom("NULL", 0) /\ kept' = 0

VariantInit == vr = VariantFrom("NULL", 0) /\ kept = 0 /\ strs = 0

VariantNext ==
    \/ \E t \in Types \ {"NULL"}, n \in Args : FromArg(t, n)
    \/ \E w \in {TrueStr, FalseStr, Word("x")} : FromWord(w)
    \/ AsStr
    \/ Release

VariantSpec == VariantInit /\ [][VariantNext]_variantVars

-----------------------------------------------------------------------------
\* The integer the variant stands for, if it stands for one.
IsNumber == vr.type \in Integral \cup Real
            \/ (vr.type = "STRING" /\ vr.data.num)
Number   == IF vr.type = "STRING" THEN vr.data.n ELSE vr.data

\* Every reader whose type can represent the stored value gets that value:
\* an integer that was stored survives every conversion to a type that holds
\* it, also through a string and through a double; a boolean is TRUE exactly
\* for the non-zero values.  Two known gaps are left out: as_bool of a signed
\* char, and "%g" (elem.c:210-395).
ConversionsExact ==
    /\ \A t \in Integral : IsNumber /\ Holds(t, Number) => VariantAs(t) = {Number}
    /\ vr.type \in Integral /\ Holds(vr.type, kept) => vr.data = kept
    /\ IsNumber => VariantAs("DOUBLE") = {Number}
    /\ vr.type \in Integral \ {"SCHAR"} => VariantAs("BOOL") = {Number # 0}
    /\ vr.type = "BOOL"
         => ElemAsBool("STRING", ElemAsStr("BOOL", vr.data)) = {vr.data}
    /\ vr.type \in Integral
         => ElemAs(vr.type, "STRING", ElemAsStr(vr.type, vr.data)) = {vr.data}
    /\ strs \in {0, 1} /\ (strs = 1 <=> vr.str # None /\ vr.type # "STRING")
=============================================================================
