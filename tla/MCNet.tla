-------------------------------- MODULE MCNet --------------------------------
(* One part of the network library at a time: part says which; the others   *)
(* stay in a fixed initial state.                                           *)
EXTENDS HttpParser, WsParser, HttpResponse, HttpServer, HttpClient, HttpRoutes, SocketIo, ServerWrapper,
        DirectServer, Listeners

VARIABLE part

\* The messages that are parsed.
Req(p, params, heads, kind, parts) ==
    [mode |-> "REQUEST", method |-> "G", path |-> p, params |-> params, code |-> <<>>,
     msg |-> <<>>, heads |-> heads, kind |-> kind, parts |-> parts]
Res(msg, heads, kind, parts) ==
    [mode |-> "RESPONSE", method |-> "", path |-> <<>>, params |-> <<>>,
     code |-> <<"2", "0", "4">>, msg |-> msg, heads |-> heads, kind |-> kind, parts |-> parts]

P1 == <<<<"a">>, <<"1">>>>
P2 == <<<<"b">>, <<>>>>
X1 == <<"X", <<"v">>>>

Plain   == Req(<<"/">>, <<>>, <<>>, "none", <<>>)
Asked   == Req(<<"/", "p">>, <<P1, P2>>, <<X1, X1>>, "none", <<>>)
Chunks  == Req(<<"/">>, <<>>, <<X1>>, "chunked", <<<<"x", "y">>, <<"z">>>>)
Zero    == Req(<<"/">>, <<>>, <<>>, "fixed", <<>>)
Fixed   == Req(<<"/">>, <<>>, <<>>, "fixed", <<<<"x", "y">>>>)
Long    == Req(<<"/", "p", "q">>, <<P1, P2>>, <<X1, X1>>, "none", <<>>)
Big     == Req(<<"/">>, <<>>, <<X1>>, "chunked", <<<<"x", "y">>, <<"z", "z">>>>)
NoBody  == Res(<<"o">>, <<X1>>, "rest", <<<<"x">>>>)
ChRes   == Res(<<"o", "k">>, <<>>, "chunked", <<<<"x">>, <<"y", "z">>>>)
ZeroRes == Res(<<"o">>, <<>>, "fixed", <<>>)

\* Asked and Chunks are as long as the limits allow, Long and Big one byte longer.
ASSUME AtTheLimits ==
    /\ Fits(Asked) /\ Len(Bytes(Long)) = Len(Bytes(Asked)) + 1 /\ ~Fits(Long)
    /\ Fits(Chunks) /\ Len(Bytes(Big)) = Len(Bytes(Chunks)) + 1 /\ ~Fits(Big)

MCScripts == {<<Plain, Chunks>>, <<Asked, Plain>>, <<Zero, Plain>>, <<Fixed>>, <<Long>>, <<Big>>,
              <<ChRes, ZeroRes>>, <<NoBody>>}

-----------------------------------------------------------------------------
\* The frames that are parsed.
Mask == <<1, 2, 3, 129>>
F(fin, op, payload) ==
    [fin |-> fin, rsv |-> 0, opcode |-> op, masked |-> TRUE, mask |-> Mask, class |-> 0,
     payload |-> payload]
U(f) == [f EXCEPT !.masked = FALSE]

\* A fragmented message with a control message inside; one frame of each length
\* class; what a peer must not send.
MCFrames ==
    LET whole == F(TRUE, TEXT, <<1, 2>>)
        frag  == <<F(FALSE, BINARY, <<1>>), F(TRUE, PING, <<7>>), F(FALSE, CONTINUE, <<2, 3>>),
                   F(TRUE, CONTINUE, <<4>>)>>
        long  == F(TRUE, TEXT, <<1, 2, 3>>)
        huge  == F(TRUE, BINARY, <<1, 2, 3, 4, 5>>)
    IN  {frag, [i \in 1 .. 4 |-> U(frag[i])], <<whole, long>>, <<huge, whole>>,
         <<U(whole), U(long)>>, <<whole, U(whole)>>, <<U(whole), whole>>,
         <<whole, [long EXCEPT !.class = 64]>>, <<[whole EXCEPT !.class = 16]>>,
         <<whole, [whole EXCEPT !.rsv = 4]>>, <<F(TRUE, 3, <<>>)>>, <<F(FALSE, PING, <<>>)>>,
         <<F(TRUE, CONTINUE, <<>>)>>, <<F(FALSE, TEXT, <<1>>), whole>>,
         <<F(TRUE, CLOSE, <<>>), whole>>,
         <<F(FALSE, TEXT, <<1, 2>>), F(FALSE, CONTINUE, <<1, 2>>), F(TRUE, CONTINUE, <<1, 2>>)>>}

-----------------------------------------------------------------------------
Is(p, init, idle) == IF part = p THEN init ELSE idle

MCInit ==
    /\ part \in {"parser", "ws", "response", "server", "client", "routes", "socket", "wrapper", "direct",
                "listener"}
    /\ Is("parser", ParserInit, /\ script = <<>> /\ wire = <<>> /\ par = NewParser("REQUEST")
                                /\ clear = FALSE /\ open = TRUE /\ out = <<>> /\ clean = TRUE)
    /\ Is("ws", WsInit, /\ frames = <<>> /\ bytes = <<>> /\ ws = NewWs("SERVER")
                        /\ looping = FALSE /\ up = TRUE /\ msgs = <<>> /\ starved = FALSE)
    /\ Is("response", ResInit, /\ rs = Prepared("KEEP") /\ chain = <<>> /\ taken = <<>>
                               /\ phase = "build" /\ empty = FALSE /\ cut = FALSE)
    /\ HttpInit /\ ClientInit /\ RouteInit /\ SocketIoInit /\ DirectInit
    /\ Is("wrapper", WrapInit, product = "nm" /\ WrapIdle)
    /\ Is("listener", ListenerInit,
          /\ backend = "epoll" /\ limit = 1 /\ li = NewListener /\ added = {} /\ shut = {}
          /\ asked = NoDirs /\ pick = AtRest /\ told = <<>>)

\* The variables of every part but p stay.
Resting(p) ==
    /\ UNCHANGED part
    /\ p # "parser" => UNCHANGED parserVars
    /\ p # "ws" => UNCHANGED wsVars
    /\ p # "response" => UNCHANGED resVars
    /\ p # "server" => UNCHANGED srvVars
    /\ p # "client" => UNCHANGED clientVars
    /\ p # "routes" => UNCHANGED routeVars
    /\ p # "socket" => UNCHANGED ioVars
    /\ p # "wrapper" => UNCHANGED wrapVars
    /\ p # "direct" => UNCHANGED directVars
    /\ p # "listener" => UNCHANGED liVars

MCNext ==
    \/ part = "parser" /\ ParserNext /\ Resting("parser")
    \/ part = "ws" /\ WsNext /\ Resting("ws")
    \/ part = "response" /\ ResNext /\ Resting("response")
    \/ part = "server" /\ HttpNext /\ Resting("server")
    \/ part = "client" /\ ClientNext /\ Resting("client")
    \/ part = "routes" /\ RouteNext /\ Resting("routes")
    \/ part = "socket" /\ SocketIoNext /\ Resting("socket")
    \/ part = "wrapper" /\ WrapNext /\ Resting("wrapper")
    \/ part = "direct" /\ DirectNext /\ Resting("direct")
    \/ part = "listener" /\ ListenerNext /\ Resting("listener")

MCSpec ==
    MCInit /\ [][MCNext]_<<part, parserVars, wsVars, resVars, srvVars, clientVars, routeVars, ioVars,
                            wrapVars, directVars, liVars>>
=============================================================================
