---------------------------- MODULE SocketState ----------------------------
(***************************************************************************)
(* The state word of a vtm_socket and the way each socket call changes it. *)
(*                                                                         *)
(* A socket's `state` (socket.h) is modelled as the set of the flags that  *)
(* are set.  Every call below runs under the socket's own mutex, so each   *)
(* operator is the effect of one atomic call.  The bytes moved by a read   *)
(* or a write are not represented: what a call returns is a member of a    *)
(* small set of results.                                                   *)
(***************************************************************************)
EXTENDS Naturals, Sequences

\* VTM_SOCK_STAT_*; NONBLOCKING is never tested by the servers.
SockFlags ==
    { "ERR", "CLOSED", "HUP",
      "READ_AGAIN", "READ_AGAIN_WHEN_WRITEABLE",
      "WRITE_AGAIN", "WRITE_AGAIN_WHEN_READABLE",
      "READ_LOCKED", "WRITE_LOCKED", "FREE_ON_UNREF",
      "NBL_READ", "NBL_WRITE", "NBL_AUTO" }

ReadAgain  == {"READ_AGAIN", "READ_AGAIN_WHEN_WRITEABLE"}
WriteAgain == {"WRITE_AGAIN", "WRITE_AGAIN_WHEN_READABLE"}

\* The NBL_AUTO hint: from now on wait for this one direction only.
NblWriteOnly(f) == (f \ {"NBL_READ"}) \cup {"NBL_WRITE"}
NblReadOnly(f)  == (f \ {"NBL_WRITE"}) \cup {"NBL_READ"}

\* What the system call of a read or a write leaves in the state word.
\* "wants_read" and "wants_write" are the TLS cases, where a write needs the
\* peer's data first or a read needs to send first.
ReadResult(r) ==
    CASE r = "data"        -> {}
      [] r = "again"       -> {"READ_AGAIN"}
      [] r = "wants_write" -> {"READ_AGAIN_WHEN_WRITEABLE"}
      [] r = "eof"         -> {"HUP"}
      [] r = "error"       -> {"ERR"}

WriteResult(r) ==
    CASE r = "ok"         -> {}
      [] r = "again"      -> {"WRITE_AGAIN"}
      [] r = "wants_read" -> {"WRITE_AGAIN_WHEN_READABLE"}
      [] r = "error"      -> {"ERR"}

\* vtm_socket_close: a second close changes nothing.
CloseState(f) == f \cup {"CLOSED"}

\* vtm_socket_read: refused on a closed socket; otherwise the old again
\* flags go, the result's flags come, and NBL_AUTO follows a TLS read that
\* has to write first.
ReadState(f, r) ==
    LET g == (f \ ReadAgain) \cup ReadResult(r)
    IN  IF "CLOSED" \in f THEN f
        ELSE IF {"NBL_AUTO", "READ_AGAIN_WHEN_WRITEABLE"} \subseteq g
             THEN NblWriteOnly(g)
             ELSE g

\* vtm_socket_write: under NBL_AUTO every write chooses the direction anew.
WriteState(f, r) ==
    LET g == (f \ WriteAgain) \cup WriteResult(r)
    IN  IF "CLOSED" \in f THEN f
        ELSE IF "NBL_AUTO" \notin g THEN g
        ELSE IF g \cap {"WRITE_AGAIN", "READ_AGAIN_WHEN_WRITEABLE"} # {}
             THEN NblWriteOnly(g)
             ELSE NblReadOnly(g)

-----------------------------------------------------------------------------
(* The epoll listener. *)

\* Mutant: the hints are ignored and both directions are watched.
Interest_Both(f) == {"IN", "OUT"}

\* vtm_socket_listener_epoll_fill: the interest set a socket is armed with.
Interest(f) ==
    (IF "NBL_READ" \in f THEN {"IN"} ELSE {})
        \cup (IF "NBL_WRITE" \in f THEN {"OUT"} ELSE {})

\* vtm_socket_listener_run: the VTM_SOCK_EVT_* bits made of the epoll bits.
EventTypes(bits) ==
    LET t == (IF "HUP" \in bits THEN {"CLOSED"} ELSE {})
                \cup (IF "IN" \in bits THEN {"READ"} ELSE {})
                \cup (IF "OUT" \in bits THEN {"WRITE"} ELSE {})
    IN  IF t = {} THEN {"ERROR"} ELSE t

=============================================================================
