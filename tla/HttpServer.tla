----------------------------- MODULE HttpServer -----------------------------
(***************************************************************************)
(* The HTTP server (http_server.c) on the callbacks of the stream server,  *)
(* with its connections (http_connection.c, ws_connection.c), the upgrade  *)
(* (http_upgrade.c) and the response object every worker keeps.            *)
(*                                                                         *)
(* What the stream server promises is used as it is: the callbacks of one  *)
(* socket never overlap, whatever worker makes them, and sock_disconnected *)
(* is the last one.  A step of a worker is one turn of the loop in         *)
(* sock_can_read.  What is parsed and how a response is built is in        *)
(* HttpParser, WsParser and HttpResponse: here a request is a number, and  *)
(* a response is its number and how much of it the client has got.         *)
(***************************************************************************)
EXTENDS Integers, Sequences, SequencesExt, FiniteSets

CONSTANTS
    HConns,     \* the connections
    HWorkers,   \* the workers
    MaxReqs     \* bound: requests and messages a client sends

NoCon == "none"

ASSUME HttpServerAssumption == MaxReqs \in Nat /\ NoCon \notin HConns

VARIABLES
    hc,         \* the connections
    hres,       \* the response object of each worker: its connection and request
    at          \* the connection whose sock_can_read a worker runs, or NoCon

srvVars == <<hc, hres, at>>

NoEmt == [w |-> NoCon, c |-> NoCon, req |-> 0]

\* kind is the object at the socket's user data.  The client's messages are in
\* inbox until they are read and in rbuf until they are handled; asked counts
\* the requests.  emt is the emitter that is still to be sent: it points into
\* the response object of worker w, which held the answer to req of c then.
\* got is what the client has received; log the callbacks the application saw.
NewCon == [kind |-> "new", open |-> TRUE, sent |-> 0, inbox |-> 0, rbuf |-> 0, asked |-> 0,
           emt |-> NoEmt, got |-> <<>>, log |-> <<>>, piped |-> FALSE, hasty |-> FALSE]

HttpInit ==
    /\ hc = [c \in HConns |-> NewCon]
    /\ hres = [w \in HWorkers |-> [c |-> NoCon, req |-> 0]]
    /\ at = [w \in HWorkers |-> NoCon]

Quiet(c) == \A w \in HWorkers : at[w] # c
Con(c, r) == hc' = [hc EXCEPT ![c] = r]
Closed(r) == [r EXCEPT !.open = FALSE]
Logged(r, e) == [r EXCEPT !.log = Append(@, e)]

\* The client, on the network.
ClientSend(c) ==
    /\ hc[c].sent < MaxReqs
    /\ Con(c, [hc[c] EXCEPT !.sent = @ + 1, !.inbox = @ + 1])
    /\ UNCHANGED <<hres, at>>

\* vtm_http_srv_sock_connected.
SockConnected(c) ==
    /\ hc[c].kind = "new" /\ hc[c].open
    /\ Con(c, [hc[c] EXCEPT !.kind = "H1"])
    /\ UNCHANGED <<hres, at>>

\* The stream server calls sock_can_read.
CanReadBegin(w, c) ==
    /\ at[w] = NoCon /\ Quiet(c)
    /\ hc[c].open /\ hc[c].kind # "new" /\ hc[c].inbox > 0
    /\ at' = [at EXCEPT ![w] = c]
    /\ UNCHANGED <<hc, hres>>

\* con_can_read: what has arrived is read and parsed.
Read(r) == [r EXCEPT !.rbuf = @ + r.inbox, !.inbox = 0]
Leave(w) == at' = [at EXCEPT ![w] = NoCon]

\* The parser wants more, and the loop ends; a request that is no HTTP closes
\* the connection.
ReadOn(w) ==
    LET c == at[w]
    IN  /\ c # NoCon /\ hc[c].kind = "H1"
        /\ \/ Read(hc[c]).rbuf = 0 /\ Con(c, Read(hc[c]))
           \/ Read(hc[c]).rbuf > 0 /\ Con(c, Closed(Read(hc[c])))
        /\ Leave(w) /\ UNCHANGED hres

\* vtm_http_srv_http_handle_request up to the callback: the worker's response
\* object is prepared for the new request.
TakenReq(r) == [Read(r) EXCEPT !.rbuf = @ - 1, !.asked = @ + 1, !.piped = @ \/ r.emt # NoEmt]
Prepare(w, c) == hres' = [hres EXCEPT ![w] = [c |-> c, req |-> hc[c].asked + 1]]
Ready(w) == at[w] # NoCon /\ hc[at[w]].kind = "H1" /\ Read(hc[at[w]]).rbuf > 0

\* vtm_http_res_send: the whole answer, or a first part of it and an emitter.
Answered(r)    == [Logged(TakenReq(r), "request") EXCEPT !.got = Append(@, <<"whole", r.asked + 1>>)]
Waiting(r, w, c) == [Logged(TakenReq(r), "request") EXCEPT
                        !.got = Append(@, <<"begin", r.asked + 1>>),
                        !.emt = [w |-> w, c |-> c, req |-> r.asked + 1]]
Outcomes(w, c) == {Answered(hc[c]), Waiting(hc[c], w, c)}

\* The application keeps the connection: the loop goes on.
RequestKeep(w) ==
    /\ Ready(w)
    /\ \E r \in Outcomes(w, at[w]) : Con(at[w], r)
    /\ Prepare(w, at[w]) /\ UNCHANGED at

\* The answer says close, or the application sends none: the socket is closed,
\* also when a part of the answer still waits.
RequestClose(w) ==
    /\ Ready(w)
    /\ \E r \in Outcomes(w, at[w]) \cup {Logged(TakenReq(hc[at[w]]), "request")} :
          Con(at[w], [Closed(r) EXCEPT !.hasty = @ \/ r.emt # NoEmt])
    /\ Prepare(w, at[w]) /\ Leave(w)

\* vtm_http_srv_http_con_upgrade_ws: the HTTP connection is freed with what it
\* has read and its emitter; the new one may not be created.
RequestUpgrade(w) ==
    /\ Ready(w)
    /\ \E r \in Outcomes(w, at[w]) :
          LET freed == [r EXCEPT !.rbuf = 0, !.emt = NoEmt, !.hasty = @ \/ r.emt # NoEmt]
          IN  \/ Con(at[w], Logged([freed EXCEPT !.kind = "WS"], "ws_connect"))
              \/ Con(at[w], Closed([freed EXCEPT !.kind = "null"]))
    /\ Prepare(w, at[w]) /\ Leave(w)

\* vtm_http_srv_ws_handle_request, in the same loop.  The parser finds an empty
\* buffer invalid, so the connection ends when the messages are handled.
WsTurn(w) ==
    LET c == at[w]
        r == Read(hc[c])
    IN  /\ c # NoCon /\ hc[c].kind = "WS"
        /\ \/ r.rbuf > 0 /\ Con(c, Logged([r EXCEPT !.rbuf = @ - 1], "ws_message")) /\ UNCHANGED at
           \/ Con(c, Closed(r)) /\ Leave(w)
        /\ UNCHANGED hres

\* vtm_http_srv_sock_can_write and vtm_http_con_write: the rest, or a part of
\* it, is taken from the response object; an error closes.
Rest(c) == LET e == hc[c].emt
           IN  IF hres[e.w] = [c |-> e.c, req |-> e.req] THEN <<"end", e.req>> ELSE <<"other", 0>>
\* Mutant: an emitter that is completed stays with the connection.
SockCanWrite_Keeps(c) ==
    /\ Quiet(c) /\ hc[c].open /\ hc[c].kind = "H1" /\ hc[c].emt # NoEmt
    /\ Con(c, [hc[c] EXCEPT !.got = Append(@, Rest(c))])
    /\ UNCHANGED <<hres, at>>

SockCanWrite(c) ==
    /\ Quiet(c) /\ hc[c].open /\ hc[c].kind = "H1" /\ hc[c].emt # NoEmt
    /\ \/ Con(c, [hc[c] EXCEPT !.got = Append(@, Rest(c)), !.emt = NoEmt])
       \/ Con(c, Closed([hc[c] EXCEPT !.emt = NoEmt, !.hasty = TRUE]))
    /\ UNCHANGED <<hres, at>>

\* The peer, the network or the stop of the server closes the socket.
SockClose(c) ==
    /\ hc[c].open /\ hc[c].kind # "new"
    /\ Con(c, Closed([hc[c] EXCEPT !.hasty = @ \/ hc[c].emt # NoEmt]))
    /\ UNCHANGED <<hres, at>>

\* A worker finds its socket closed in the middle of the loop: reading fails.
ReadClosed(w) ==
    /\ at[w] # NoCon /\ ~hc[at[w]].open
    /\ Leave(w) /\ UNCHANGED <<hc, hres>>

\* Mutant: the application is not told that a WebSocket connection ended.
HttpSockClosed_Silent(c) ==
    /\ ~hc[c].open /\ Quiet(c) /\ hc[c].kind \in {"H1", "WS", "null"}
    /\ Con(c, [hc[c] EXCEPT !.kind = "freed", !.emt = NoEmt])
    /\ UNCHANGED <<hres, at>>

\* vtm_http_srv_sock_unregister.
HttpSockClosed(c) ==
    /\ ~hc[c].open /\ Quiet(c) /\ hc[c].kind \in {"H1", "WS", "null"}
    /\ Con(c, LET r == [hc[c] EXCEPT !.kind = "freed", !.emt = NoEmt]
              IN  IF hc[c].kind = "WS" THEN Logged(r, "ws_close") ELSE r)
    /\ UNCHANGED <<hres, at>>

HttpNext ==
    \/ \E c \in HConns : \/ ClientSend(c) \/ SockConnected(c) \/ SockCanWrite(c)
                         \/ SockClose(c) \/ HttpSockClosed(c)
    \/ \E w \in HWorkers, c \in HConns : CanReadBegin(w, c)
    \/ \E w \in HWorkers : \/ ReadOn(w) \/ RequestKeep(w) \/ RequestClose(w)
                           \/ RequestUpgrade(w) \/ WsTurn(w) \/ ReadClosed(w)

HttpSpec == HttpInit /\ [][HttpNext]_srvVars

-----------------------------------------------------------------------------
\* The callbacks an application may see of one connection: requests, then, after
\* an upgrade, messages between ws_connect and ws_close, which is the last.
WsPart(log) == LET i == SelectInSeq(log, LAMBDA e : e = "ws_connect")
               IN  IF i = 0 THEN <<>> ELSE SubSeq(log, i, Len(log))

\* The application sees every WebSocket connection begin and end: what a
\* connection calls are requests until the one upgrade, then ws_connect once,
\* messages and ws_close once, which comes exactly when a connection that was
\* upgraded is unregistered; no handler runs on an object that was freed.
WsCallbacks ==
    \A c \in HConns :
        LET log == hc[c].log
            ws  == WsPart(log)
        IN  /\ \A i \in 1 .. Len(log) - Len(ws) : log[i] = "request"
            /\ \A i \in DOMAIN ws : /\ ws[i] # "request"
                                    /\ ws[i] = "ws_connect" => i = 1
                                    /\ ws[i] = "ws_close" => i = Len(ws)
            /\ ws # <<>> /\ hc[c].kind = "freed" => Last(ws) = "ws_close"
            /\ ~Quiet(c) => hc[c].kind # "freed"
            /\ ws # <<>> => hc[c].kind \in {"WS", "freed"}

\* An answer that has begun is ended before the next one.
Whole(got) ==
    \A i \in DOMAIN got :
        /\ got[i][1] # "other"
        /\ got[i][1] = "begin" => i = Len(got) \/ got[i + 1] = <<"end", got[i][2]>>
        /\ got[i][1] = "end" => i > 1 /\ got[i - 1] = <<"begin", got[i][2]>>
\* The answers are counted as they begin.
Numbered(got) ==
    \A i \in DOMAIN got :
        got[i][2] = (IF i = 1 THEN 0 ELSE got[i - 1][2]) + (IF got[i][1] = "end" THEN 0 ELSE 1)
\* A part of another answer was sent in between.
Mixed(c) == \E i \in DOMAIN hc[c].got : hc[c].got[i][1] = "other"

\* The client gets one answer for every request, in order and each of them whole
\* before the next begins, as long as it waits for an answer before it asks again
\* and the answer is not cut off by a close, or mixed with the answer of another
\* connection on the same worker.
AnswersInOrder ==
    \A c \in HConns :
        ~hc[c].piped /\ ~hc[c].hasty /\ ~Mixed(c) =>
            /\ Whole(hc[c].got) /\ Numbered(hc[c].got)
            /\ hc[c].emt # NoEmt <=> hc[c].got # <<>> /\ Last(hc[c].got)[1] = "begin" /\ hc[c].kind # "freed"
=============================================================================
