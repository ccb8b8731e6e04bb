----------------------------- MODULE HttpClient -----------------------------
(***************************************************************************)
(* The HTTP client (http_client.c), which keeps its connection and its     *)
(* receive buffer from one request to the next, and the WebSocket client's *)
(* way to take that connection over (ws_client.c), with a server that      *)
(* answers late, in pieces or not at all.                                  *)
(*                                                                         *)
(* An answer is two pieces, so that it may arrive or be lost in part.      *)
(***************************************************************************)
EXTENDS Integers, Sequences, SequencesExt

CONSTANTS
    Addrs,          \* host and port of the servers
    MaxRequests     \* bound: requests of the client

NoAddr == "no_addr"

ASSUME HttpClientAssumption == MaxRequests \in Nat /\ NoAddr \notin Addrs

VARIABLES
    cl,         \* the client: sock, con_host, recvbuf and the request under way
    net,        \* per connection what the server has sent and was asked
    answer      \* what the last request returned

clientVars == <<cl, net, answer>>

Piece(half, r) == <<half, r>>
NoSock == 0

\* The connections are numbered in the order they are opened.
NoNet == [in |-> <<>>, asked |-> <<>>, addr |-> NoAddr]

ClientInit ==
    /\ cl = [sock |-> NoSock, host |-> NoAddr, recvbuf |-> <<>>, half |-> 0, step |-> "idle",
             req |-> 0, to |-> NoAddr]
    /\ net = <<>>
    /\ answer = [ok |-> FALSE, for |-> 0, to |-> NoAddr]

\* Mutant: the address of a connection stays when it is closed.
ConClosed_KeepsHost(c) == [c EXCEPT !.sock = NoSock]

\* vtm_http_client_con_close: the receive buffer stays.
ConClosed(c) == [c EXCEPT !.sock = NoSock, !.host = NoAddr]
ReturnError == /\ cl' = [ConClosed(cl) EXCEPT !.step = "idle"]
               /\ answer' = [ok |-> FALSE, for |-> cl.req, to |-> cl.to]
               /\ UNCHANGED net

Request(a) ==
    /\ cl.step = "idle" /\ cl.req < MaxRequests
    /\ cl' = [cl EXCEPT !.step = "open", !.req = @ + 1, !.to = a]
    /\ UNCHANGED <<net, answer>>

\* vtm_http_client_con_open: the connection is used again for the same address.
Same(c) == c.sock # NoSock /\ c.host = c.to
ConReuse ==
    /\ cl.step = "open" /\ Same(cl)
    /\ cl' = [cl EXCEPT !.step = "send"] /\ UNCHANGED <<net, answer>>
ConOpen ==
    /\ cl.step = "open" /\ ~Same(cl)
    /\ cl' = [ConClosed(cl) EXCEPT !.step = "send", !.sock = Len(net) + 1]
    /\ net' = Append(net, [NoNet EXCEPT !.addr = cl.to])
    /\ UNCHANGED answer
\* The address is not valid, or the connection cannot be opened or set up.
ConFail == cl.step = "open" /\ ReturnError

\* vtm_http_client_send with the socket writer: all of it or an error.
Send ==
    /\ cl.step = "send"
    /\ net' = [net EXCEPT ![cl.sock].asked = Append(@, cl.req)]
    /\ cl' = [cl EXCEPT !.step = "recv", !.half = 0]
    /\ UNCHANGED answer
SendFail == cl.step = "send" /\ ReturnError

\* The server answers the requests of a connection in order, at any time.
ServerAnswer(n) ==
    /\ net[n].asked # <<>>
    /\ net' = [net EXCEPT ![n].in = @ \o <<Piece(1, Head(net[n].asked)), Piece(2, Head(net[n].asked))>>,
                          ![n].asked = Tail(@)]
    /\ UNCHANGED <<cl, answer>>

\* vtm_http_client_recv: what is left in the buffer is parsed before anything
\* is read; a piece or two are read at once.
RecvRead(k) ==
    /\ cl.step = "recv" /\ cl.recvbuf = <<>> /\ k <= Len(net[cl.sock].in)
    /\ cl' = [cl EXCEPT !.recvbuf = SubSeq(net[cl.sock].in, 1, k)]
    /\ net' = [net EXCEPT ![cl.sock].in = SubSeq(@, k + 1, Len(@))]
    /\ UNCHANGED answer
\* The time is out, or the connection is lost.
RecvFail == cl.step = "recv" /\ cl.recvbuf = <<>> /\ ReturnError

Parse ==
    /\ cl.step = "recv" /\ cl.recvbuf # <<>>
    /\ LET p    == Head(cl.recvbuf)
           rest == [cl EXCEPT !.recvbuf = Tail(@)]
       IN  CASE p[1] = 1 /\ cl.half = 0 ->
                  cl' = [rest EXCEPT !.half = p[2]] /\ UNCHANGED <<net, answer>>
             [] p[1] = 2 /\ cl.half # 0 ->
                  /\ cl' = [rest EXCEPT !.step = "done", !.half = 0]
                  /\ answer' = [ok |-> TRUE, for |-> p[2], to |-> cl.to]
                  /\ UNCHANGED net
             [] OTHER -> /\ cl' = [ConClosed(rest) EXCEPT !.step = "idle"]
                         /\ answer' = [ok |-> FALSE, for |-> cl.req, to |-> cl.to]
                         /\ UNCHANGED net

\* vtm_http_client_con_must_close, and the end of vtm_http_client_request: the
\* address of a connection that is kept is saved.
Keep  == /\ cl.step = "done"
         /\ cl' = [cl EXCEPT !.step = "idle", !.host = IF @ = NoAddr THEN cl.to ELSE @]
         /\ UNCHANGED <<net, answer>>
Close == /\ cl.step = "done"
         /\ cl' = [ConClosed(cl) EXCEPT !.step = "idle"] /\ UNCHANGED <<net, answer>>

\* vtm_http_client_take_socket.
TakeSocket ==
    /\ cl.step = "idle" /\ cl.sock # NoSock
    /\ cl' = ConClosed(cl) /\ UNCHANGED <<net, answer>>

ClientNext ==
    \/ \E a \in Addrs : Request(a)
    \/ ConReuse \/ ConOpen \/ ConFail \/ Send \/ SendFail
    \/ \E n \in DOMAIN net : ServerAnswer(n)
    \/ \E k \in 1 .. 2 : RecvRead(k)
    \/ RecvFail \/ Parse \/ Keep \/ Close \/ TakeSocket

ClientSpec == ClientInit /\ [][ClientNext]_clientVars

-----------------------------------------------------------------------------
\* An answer that is returned belongs to the request it is returned for and came
\* from the server it was sent to, also after requests that timed out, answers
\* that came in part and connections that were kept, closed or taken over; and
\* between two requests a connection that is kept is to the address it is kept for.
AnswerBelongs ==
    /\ answer.ok /\ cl.step \in {"done", "idle"} => answer.for = cl.req
    /\ cl.step = "idle" => (cl.sock # NoSock <=> cl.host # NoAddr)
    /\ cl.step \in {"send", "recv", "done"} => cl.sock # NoSock /\ net[cl.sock].addr = cl.to
=============================================================================
