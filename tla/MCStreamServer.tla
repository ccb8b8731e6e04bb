--------------------------- MODULE MCStreamServer ---------------------------
(* Values for model checking StreamServer with TLC. *)
EXTENDS StreamServer, TLC

\* What the NM and HTTP servers choose in their connected callback.
AutoFlags == {{"NBL_AUTO", "NBL_READ"}}

\* Safety runs only: workers, sockets and threads are interchangeable.
Symmetry == Permutations(Workers) \cup Permutations(Socks) \cup Permutations(Apps)

=============================================================================
