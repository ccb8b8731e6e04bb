------------------------------- MODULE MCCore -------------------------------
(* One of the core data structures at a time: part says which; the others  *)
(* stay in a fixed initial state.                                          *)
EXTENDS Variants, HashMaps, Containers, Texts

VARIABLE part

MCBits == [w \in {"8", "16", "32", "64"} |->
              CASE w = "8" -> 2 [] w = "16" -> 3 [] w = "32" -> 4 [] w = "64" -> 7]
MCArgs == {-65, -64, -9, -8, -3, -2, -1, 0, 1, 2, 3, 7, 8, 15, 16, 63, 64, 99, 100, 127, 128, 130}
MCNames == {<<97>>, <<65>>, <<105>>}
MCNumbers == {-1, 0, 2}

Is(p, init, idle) == IF part = p THEN init ELSE idle

MCInit ==
    /\ part \in {"variant", "map", "list", "queue", "buffer", "text"}
    /\ VariantInit
    /\ Is("map", MapInit, hm = NewMap("map", "INT", "INT", FALSE, FALSE, FALSE)
                          /\ heap = <<>> /\ ill = FALSE /\ ref = <<>>)
    /\ Is("list", ListInit, li = NewList("POINTER", FALSE, 1) /\ liRef = <<>>
                            /\ objs = [live |-> {}, doubly |-> FALSE])
    /\ SqInit
    /\ Is("buffer", BufInit, bf = NewBuf("BE") /\ bfRef = <<>> /\ bfGot = [got |-> <<>>, want |-> <<>>])
    /\ Is("text", TextInit, txt = [kind |-> "text", s |-> <<>>])

coreVars == <<part, variantVars, mapVars, listVars, queueVars, bufVars, textVars>>

MCNext ==
    \/ part = "variant" /\ VariantNext /\ UNCHANGED <<part, mapVars, listVars, queueVars, bufVars, textVars>>
    \/ part = "map" /\ MapNext /\ UNCHANGED <<part, variantVars, listVars, queueVars, bufVars, textVars>>
    \/ part = "list" /\ ListNext /\ UNCHANGED <<part, variantVars, mapVars, queueVars, bufVars, textVars>>
    \/ part = "queue" /\ SqNext /\ UNCHANGED <<part, variantVars, mapVars, listVars, bufVars, textVars>>
    \/ part = "buffer" /\ BufNext /\ UNCHANGED <<part, variantVars, mapVars, listVars, queueVars, textVars>>
    \/ part = "text" /\ Grow /\ UNCHANGED <<part, variantVars, mapVars, listVars, queueVars, bufVars>>

MCSpec == MCInit /\ [][MCNext]_coreVars
=============================================================================
