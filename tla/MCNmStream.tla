----------------------------- MODULE MCNmStream -----------------------------
(* Values for model checking NmStream with TLC. *)
EXTENDS NmStream

A == <<97>>

Field(t, v) == A :> [type |-> t, value |-> v]

\* A number of two bytes; a string whose only byte is the magic of the next
\* message; a message without fields; one that cannot be encoded.
Number == Field("UINT16", <<1, 2>>)
Text   == Field("STRING", <<86>>)
Empty  == <<>>
Native == Field("LONG", <<1, 0, 0, 0, 0, 0, 0, 0>>)

MCReqMsgs == {Number, Empty}
MCRepMsgs == {Text, Native}

=============================================================================
