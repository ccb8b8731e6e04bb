---------------------------- MODULE DirectServer ----------------------------
(***************************************************************************)
(* The stream server without worker threads (socket_stream_server.c with   *)
(* thread_count 0): main_run polls the listener, handle_direct works off   *)
(* the relay events and then the batch it has got, drain_direct ends the   *)
(* connections.  One thread does everything, so each relay event, each     *)
(* event of the batch and each accepted connection is one step; what can   *)
(* go wrong is the order: sockets are freed at once, in the middle of a    *)
(* batch, while relay events and the rest of the batch keep their address, *)
(* and the next connection may be allocated there.                         *)
(*                                                                         *)
(* A step of the server is written as a function of the record S of its    *)
(* state, so that the calls of the code compose.                           *)
(***************************************************************************)
EXTENDS Naturals, Sequences, FiniteSets

CONSTANTS
    Places,       \* the addresses malloc gives to client sockets
    MaxSessions,  \* bound: connections that are accepted
    MaxOthers     \* bound: callbacks that use another connection's socket

ASSUME DirectAssumption == MaxSessions \in Nat

VARIABLES
    S,          \* heap: who lives at a place (0: nobody), flags of its socket
                \* cons, armed (what the listener watches for), relay,
                \* sess: the callbacks of each session, freed: how it was freed
                \* undefined: a freed socket was used
    stage,      \* listen, relay, batch, accept, drain, done
    batch,      \* the rest of the events: place, the session meant, what
    running,
    seen        \* history: other: how often a callback used another's socket;
                \* both: an event reported both directions at once

directVars == <<S, stage, batch, running, seen>>

Ids == 1 .. MaxSessions
NoCallbacks == [connected |-> FALSE, ended |-> FALSE, late |-> FALSE]
Lives(st, p) == st.heap[p].id # 0
FlagsOf(st, p) == st.heap[p].flags
WithFlags(st, p, f) == [st EXCEPT !.heap[p].flags = @ \cup f]
\* A callback of the session at p; late: one that came after disconnected.
Called(st, p, cb) ==
    LET i == st.heap[p].id
        c == st.sess[i]
    IN  [st EXCEPT !.sess[i] = [connected |-> c.connected \/ cb = "connected",
                                ended |-> c.ended \/ cb = "disconnected",
                                late |-> c.late \/ c.ended]]
\* Using what is no longer there: from here on nothing is defined.
Undefined(st) == [st EXCEPT !.undefined = TRUE]

\* vtm_socket_stream_srv_sock_free in direct mode: vtm_socket_free at once.
SockFree(st, p) ==
    [st EXCEPT !.freed[st.heap[p].id] = IF "CLOSED" \in FlagsOf(st, p) THEN "closed" ELSE "open",
               !.heap[p] = [id |-> 0, flags |-> {}]]

\* vtm_socket_stream_srv_sock_closed: only a socket that is in cons is reported
\* and freed.  The address is all that is compared.
SockClosed(st, p) ==
    IF p \notin st.cons THEN st
    ELSE LET removed == [st EXCEPT !.cons = @ \ {p}, !.armed[p] = {}]
         IN  SockFree(Called(removed, p, "disconnected"), p)
SockError(st, p) ==
    IF ~Lives(st, p) THEN Undefined(st)
    ELSE SockClosed(WithFlags(Called(st, p, "error"), p, {"CLOSED"}), p)

\* vtm_socket_stream_srv_sock_check; want is what rearm makes the listener
\* watch, {} when rearm fails.
SockCheck(st, p, rearm, want) ==
    LET f == FlagsOf(st, p)
        close == SockClosed(WithFlags(st, p, {"CLOSED"}), p)
    IN  IF "ERR" \in f THEN SockError(st, p)
        ELSE IF "CLOSED" \in f THEN SockClosed(st, p)
        ELSE IF "HUP" \in f THEN close
        ELSE IF ~rearm THEN st
        ELSE IF want = {} THEN close ELSE [st EXCEPT !.armed[p] = want]

\* What a callback does: it leaves its own socket with the flags own, and may do
\* the same to another connection's socket and report it, which makes a relay
\* event (vtm_socket_stream_srv_sock_cb_update, create_relay_event).
Report(st, q) ==
    LET f == FlagsOf(st, q)
        event(t) == Append(st.relay, [type |-> t, place |-> q, id |-> st.heap[q].id])
    IN  IF "ERR" \in f THEN [st EXCEPT !.relay = event("error")]
        ELSE IF "CLOSED" \in f THEN [st EXCEPT !.relay = event("closed")]
        ELSE IF "HUP" \in f THEN [WithFlags(st, q, {"CLOSED"}) EXCEPT !.relay = event("closed")]
        ELSE st
NoOther == [place |-> "none", flags |-> {}]
Callback(st, p, own, other) ==
    LET mine == WithFlags(st, p, own)
    IN  IF other = NoOther THEN mine
        ELSE Report(WithFlags(mine, other.place, other.flags), other.place)
Results == {{}, {"CLOSED"}, {"ERR"}, {"HUP"}}
\* The sockets an application knows: reported and not yet ended.
Others(st, p) ==
    {NoOther} \cup IF seen.other = MaxOthers THEN {}
                   ELSE [place : {q \in Places \ {p} : Lives(st, q) /\ q \in st.cons}, flags : Results \ {{}}]
Seen(other) == IF other = NoOther THEN seen ELSE [seen EXCEPT !.other = @ + 1]

\* sock_can_read and sock_can_write
Served(st, p, own, other, want) ==
    SockCheck(Callback(Called(st, p, "data"), p, own, other), p, TRUE, want)

-----------------------------------------------------------------------------
(* The loop of main_run.                                                   *)

Defined == ~S.undefined
Watched == {p \in Places : S.armed[p] # {} /\ "CLOSED" \notin FlagsOf(S, p)}
EventsAt(p) ==
    [place : {p}, id : {S.heap[p].id}, what : ((SUBSET S.armed[p]) \ {{}}) \cup {{"HANGUP"}, {"ERROR"}}]
ServerEvent == [place |-> "server", id |-> 0, what |-> {"READ"}]
\* A one-shot listener: what it reports is watched no more.
Poll(b) ==
    /\ Defined /\ stage = "listen" /\ running
    /\ batch' = b /\ stage' = "relay"
    /\ S' = [S EXCEPT !.armed = [p \in Places |-> IF \E i \in DOMAIN b : b[i].place = p THEN {} ELSE @[p]]]
    /\ UNCHANGED <<running, seen>>
Batches ==
    LET events == UNION {EventsAt(p) : p \in Watched}
    IN  {<<>>, <<ServerEvent>>} \cup {<<e>> : e \in events} \cup {<<e, ServerEvent>> : e \in events}
        \cup {<<x[1], x[2]>> : x \in {y \in events \X events : y[1].place # y[2].place}}
Interrupt == /\ Defined /\ running /\ running' = FALSE /\ UNCHANGED <<S, stage, batch, seen>>

\* One relay event; its socket may be gone, or another one may have its place.
HandleRelay ==
    LET e == Head(S.relay)
        rest == [S EXCEPT !.relay = Tail(@)]
    IN  /\ Defined /\ stage = "relay" /\ S.relay # <<>>
        /\ S' = IF e.type = "closed" THEN SockClosed(rest, e.place) ELSE SockError(rest, e.place)
        /\ UNCHANGED <<stage, batch, running, seen>>
RelayDone == /\ Defined /\ stage = "relay" /\ S.relay = <<>> /\ stage' = "batch"
             /\ UNCHANGED <<S, batch, running, seen>>

\* One event of the batch (handle_direct).  The socket is used as it stands in the
\* event, after the first direction too.
HandleEvent(own, other, want) ==
    LET e == Head(batch)
        p == e.place
        first == IF "READ" \in e.what THEN Served(S, p, own, other, want) ELSE S
        again == IF Lives(first, p) THEN Served(first, p, {}, NoOther, want) ELSE Undefined(first)
    IN  /\ Defined /\ stage = "batch" /\ batch # <<>> /\ p # "server"
        /\ Lives(S, p) => other \in Others(S, p)
        /\ S' = IF ~Lives(S, p) THEN Undefined(S)
                ELSE IF e.what = {"HANGUP"} THEN SockClosed(WithFlags(S, p, {"CLOSED"}), p)
                ELSE IF e.what = {"ERROR"} THEN SockError(S, p)
                ELSE IF e.what = {"WRITE"} THEN Served(S, p, own, other, want)
                ELSE IF "WRITE" \in e.what THEN again ELSE first
        /\ seen' = IF e.what = {"READ", "WRITE"} THEN [Seen(other) EXCEPT !.both = TRUE] ELSE Seen(other)
        /\ batch' = Tail(batch) /\ UNCHANGED <<stage, running>>
AcceptEvent == /\ Defined /\ stage = "batch" /\ batch # <<>> /\ Head(batch).place = "server"
               /\ batch' = Tail(batch) /\ stage' = "accept" /\ UNCHANGED <<S, running, seen>>
BatchDone == /\ Defined /\ stage = "batch" /\ batch = <<>> /\ stage' = "listen"
             /\ UNCHANGED <<S, batch, running, seen>>

\* vtm_socket_stream_srv_accept and sock_accepted: the connected callback comes
\* before the socket is in cons; step is where it fails, or ok.  The socket that is
\* served then is the server's, so the callback's own results are relayed too.
Accepted == Cardinality({i \in Ids : S.sess[i].connected \/ S.freed[i] # "no"})
AcceptOne(p, own, report, step) ==
    LET id    == Accepted + 1
        fresh == [S EXCEPT !.heap[p] = [id |-> id, flags |-> {}]]
        conn  == WithFlags(Called(fresh, p, "connected"), p, own)
        told  == IF report THEN Report(conn, p) ELSE conn
    IN  /\ Defined /\ stage = "accept" /\ id <= MaxSessions /\ ~Lives(S, p)
        /\ S' = CASE step = "nonblocking" -> SockFree(WithFlags(fresh, p, {"CLOSED"}), p)
                  [] step = "listener" -> SockFree(Called(WithFlags(conn, p, {"CLOSED"}), p, "disconnected"), p)
                  [] step = "ok" -> IF own # {} THEN SockCheck(told, p, FALSE, {})
                                    ELSE [told EXCEPT !.cons = @ \cup {p}, !.armed[p] = {"READ"}]
        /\ step # "ok" => own = {} /\ ~report
        /\ UNCHANGED <<stage, batch, running, seen>>
\* No more connections; an error of rearm ends main_run, and the batch with it.
AcceptDone == /\ Defined /\ stage = "accept" /\ stage' = "batch"
              /\ UNCHANGED <<S, batch, running, seen>>
RearmFails == /\ Defined /\ stage = "accept" /\ stage' = "drain"
              /\ batch' = <<>> /\ running' = FALSE /\ UNCHANGED <<S, seen>>

\* A failing listener, or running cleared: drain_direct closes what is in cons.
LeaveLoop(failed) ==
    /\ Defined /\ stage = "listen" /\ (failed \/ ~running)
    /\ running' = FALSE /\ stage' = "drain" /\ UNCHANGED <<S, batch, seen>>
\* Mutant: the drain frees the connections without closing them.
DrainOne_Open(p) == /\ Defined /\ stage = "drain" /\ p \in S.cons
                    /\ S' = SockClosed(S, p)
                    /\ UNCHANGED <<stage, batch, running, seen>>

DrainOne(p) == /\ Defined /\ stage = "drain" /\ p \in S.cons
               /\ S' = SockClosed(WithFlags(S, p, {"CLOSED"}), p)
               /\ UNCHANGED <<stage, batch, running, seen>>
DrainDone == /\ Defined /\ stage = "drain" /\ S.cons = {} /\ stage' = "done"
             /\ UNCHANGED <<S, batch, running, seen>>

-----------------------------------------------------------------------------
DirectInit ==
    /\ S = [heap |-> [p \in Places |-> [id |-> 0, flags |-> {}]], cons |-> {},
            armed |-> [p \in Places |-> {}], relay |-> <<>>,
            sess |-> [i \in Ids |-> NoCallbacks], freed |-> [i \in Ids |-> "no"], undefined |-> FALSE]
    /\ stage = "listen" /\ batch = <<>> /\ running = TRUE
    /\ seen = [other |-> 0, both |-> FALSE]

DirectNext ==
    \/ \E b \in Batches : Poll(b)
    \/ Interrupt \/ HandleRelay \/ RelayDone \/ AcceptEvent \/ BatchDone \/ AcceptDone \/ RearmFails
    \/ DrainDone
    \/ \E own \in Results, other \in [place : Places \cup {"none"}, flags : Results],
          want \in SUBSET {"READ", "WRITE"} : HandleEvent(own, other, want)
    \/ \E p \in Places, own \in Results, report \in BOOLEAN, step \in {"nonblocking", "listener", "ok"} :
          AcceptOne(p, own, report, step)
    \/ \E failed \in BOOLEAN : LeaveLoop(failed)
    \/ \E p \in Places : DrainOne(p)

DirectSpec == DirectInit /\ [][DirectNext]_directVars

-----------------------------------------------------------------------------
\* The connected callback closed the socket, or left it with an error: it never
\* came into cons, and nobody ends it.
Orphan(i) == S.sess[i].connected /\ ~S.sess[i].ended /\ S.freed[i] = "no"
             /\ \A p \in Places : S.heap[p].id = i => p \notin S.cons /\ "CLOSED" \in FlagsOf(S, p)

\* While callbacks keep to their own socket and events report one direction, the
\* direct mode ends every session once: no event names a freed socket, a socket is
\* closed before it is freed, its disconnected callback comes once and last and
\* exactly when it is freed, and when run has drained nothing is left but sockets
\* that were closed in their connected callback.
DirectSessions ==
    seen.other = 0 /\ ~seen.both =>
      /\ ~S.undefined
      /\ \A i \in Ids :
           /\ S.freed[i] # "open" /\ ~S.sess[i].late
           /\ S.sess[i].connected => (S.sess[i].ended <=> S.freed[i] = "closed")
           /\ stage = "done" /\ S.sess[i].connected => Orphan(i) \/ S.freed[i] = "closed"
=============================================================================
