---------------------------- MODULE MCDgramServer ----------------------------
(* Values for model checking DgramServer with TLC. *)
EXTENDS DgramServer, TLC

\* A run without workers, then one with workers on the same server object.
DirectThenThreaded == <<"direct", "threaded">>

OneThreaded == <<"threaded">>

=============================================================================
