---------------------------- MODULE StreamServer ----------------------------
(***************************************************************************)
(* The stream socket server of ventanium in its threaded mode              *)
(* (vtm_socket_stream_srv_run with opts->threads > 0, epoll listener).     *)
(*                                                                         *)
(* The main thread waits on the listener, turns ready sockets into events  *)
(* of a shared queue and frees released sockets.  Worker threads poll the  *)
(* queue and run the connection callbacks.  Other threads of the program   *)
(* (or workers inside the callback of another connection) may close or     *)
(* write to a connection; they reach the server through update_srv.        *)
(*                                                                         *)
(* The grain of the model: a step is the code between two points where     *)
(* another thread can see or change what it works on.  events_mtx and the  *)
(* socket mutexes are variables because they are held across such points;  *)
(* cons_mtx is held only inside single steps.  The callbacks and the       *)
(* kernel's sockets are external and nondeterministic.                     *)
(***************************************************************************)
EXTENDS SocketState, Integers, FiniteSets

CONSTANTS
    Workers,        \* the worker threads (opts->threads of them)
    Socks,          \* the client sockets of one run, each accepted at most once
    Apps,           \* threads that use a connection outside its own callbacks
    MaxEvents,      \* opts->events, the size of one epoll batch
    MaxSend,        \* bound: chunks a client sends
    MaxAppOps,      \* bound: calls each thread of Apps makes
    ConnectFlags,   \* the NBL_* flags the connected callback may choose
    ConnectResults, \* what the connected callback does: "none", "write", "close"
    Reactions,      \* what a can_read callback does: "none", "write", "close"
    WriteResults,   \* "ok", "again", "wants_read"
    ReadWants,      \* {} or {"wants_write"}: TLS reads that must send first
    AppOps,         \* "close", "write"
    PeerEnds,       \* how a peer may leave: "fin", "rst", "err"
    Faults,         \* "nonblock", "add", "rearm", "accept", "eintr", "epoll"
    StopAllowed     \* whether vtm_socket_stream_srv_stop is called

ASSUME ThreadsAssumption ==
    /\ Workers # {} /\ IsFiniteSet(Workers) /\ IsFiniteSet(Socks) /\ IsFiniteSet(Apps)
    /\ MaxEvents \in Nat \ {0} /\ MaxSend \in Nat /\ MaxAppOps \in Nat
    /\ StopAllowed \in BOOLEAN

\* NULL, the two other descriptors of the listener and "nobody" are none of
\* the sockets and threads.
ASSUME NamesAssumption ==
    /\ {"none", "cfd", "srv"} \cap Socks = {}
    /\ {"free", "main"} \cap (Workers \cup Apps) = {}

ASSUME CallbackAssumption ==
    /\ ConnectFlags \subseteq SUBSET {"NBL_READ", "NBL_WRITE", "NBL_AUTO"}
    /\ ConnectResults \subseteq {"none", "write", "close"}
    /\ Reactions \subseteq {"none", "write", "close"}
    /\ WriteResults \subseteq {"ok", "again", "wants_read"}
    /\ ReadWants \subseteq {"wants_write"}
    /\ AppOps \subseteq {"close", "write"}

ASSUME EnvironmentAssumption ==
    /\ PeerEnds \subseteq {"fin", "rst", "err"}
    /\ Faults \subseteq {"nonblock", "add", "rearm", "accept", "eintr", "epoll"}

VARIABLES
    \* per client socket
    life,       \* "none", "pending" (in the backlog), "live" or "freed"
    flags,      \* vtm_socket.state
    ref,        \* vtm_socket.refcount
    armed,      \* its epoll interest; {} when disarmed, absent or closed
    sess,       \* ghost: "none", "open" after connected, "ended" after disconnected
    \* the peer and the kernel's buffers
    inb, sent, peer, full,
    \* the main thread: program point, epoll batch, "accept after it", run's rc
    main, batch, acc, rc,
    \* srv->events, relay_events, release_socks and cons
    events, relay, release, cons,
    \* srv->running, the listener's eventfd, the server socket's epoll state
    running, intr, srvArmed,
    \* the workers that counted drain_prepare_latch; drain_run_latch is open
    prepared, drainRun,
    \* holders of events_mtx and of each socket's mutex
    emtx, smtx,
    \* workers: program point and polled event
    wpc, wev,
    \* other threads: program point, socket, calls left
    apc, asock, aleft

sockVars == <<life, flags, ref, armed, sess>>
netVars  == <<inb, sent, peer, full>>
mainVars == <<main, batch, acc, rc>>
listVars == <<events, relay, release, cons>>
ctlVars  == <<running, intr, srvArmed, prepared, drainRun>>
lockVars == <<emtx, smtx>>
workVars == <<wpc, wev>>
appVars  == <<apc, asock, aleft>>

vars == <<sockVars, netVars, mainVars, listVars, ctlVars, lockVars, workVars, appVars>>

-----------------------------------------------------------------------------
(* Events, locks and program points *)

EventType == {"ACCEPTED", "READ", "WRITE", "CLOSED", "ERROR"}

Event == [sock : Socks, type : EventType]

Ev(s, t) == [sock |-> s, type |-> t]

NoEvent == [sock |-> "none", type |-> "none"]

\* The flags sock_event sets with sock_trylock for each type of event.
Locks(t) ==
    CASE t \in {"ACCEPTED", "READ"} -> {"READ_LOCKED"}
      [] t = "WRITE"                -> {"WRITE_LOCKED"}
      [] t \in {"CLOSED", "ERROR"}  -> {"READ_LOCKED", "WRITE_LOCKED"}
      [] OTHER                      -> {}

\* Points between a successful sock_trylock and its sock_unlock.
SectionPcs ==
    { "accept", "connected", "acheck", "add", "canread", "canwrite",
      "check", "rearm", "error", "closed", "disc", "free", "unlock" }

\* Points inside worker_event, where the worker owns a polled event.
EventPcs == SectionPcs \cup {"state", "trylock", "requeue", "unref", "abort"}

WorkerPcs ==
    EventPcs \cup {"top", "lock", "prewait", "wait", "count", "await", "drain", "end"}

MainPcs ==
    { "loop", "listen", "queued", "release", "dispatch", "accept",
      "dsignal", "dawait", "dclose", "join", "clean", "done" }

\* The two other descriptors the listener waits on.
CFD == "cfd"
SRV == "srv"

S(w) == wev[w].sock

Unlocked(s) == smtx[s] = "free"

Waiting == {w \in Workers : wpc[w] = "wait"}

\* vtm_cond_signal_all and vtm_cond_signal on events_cond.  A signalled
\* worker has to lock events_mtx again before it goes on.
SignalAll(pc) == [w \in Workers |-> IF pc[w] = "wait" THEN "lock" ELSE pc[w]]

SignalOne(pc) ==
    IF Waiting = {} THEN {pc} ELSE {[pc EXCEPT ![w] = "lock"] : w \in Waiting}

\* How often a socket occurs in a list of events.
Count(q, s) == Cardinality({i \in DOMAIN q : q[i].sock = s})

-----------------------------------------------------------------------------
(* The kernel: what epoll would report for a socket, and what calls return *)

Bits(s) ==
    (IF inb[s] > 0 \/ peer[s] \in {"fin", "rst"} THEN {"IN"} ELSE {})
        \cup (IF ~full[s] \/ peer[s] = "rst" THEN {"OUT"} ELSE {})
        \cup (IF peer[s] = "rst" THEN {"HUP"} ELSE {})
        \cup (IF peer[s] \in {"rst", "err"} THEN {"ERR"} ELSE {})

Reported(s) ==
    IF armed[s] = {} THEN {} ELSE Bits(s) \cap (armed[s] \cup {"HUP", "ERR"})

ReadEnd(s) ==
    CASE peer[s] \in {"rst", "err"} -> "error"
      [] peer[s] = "fin"            -> "eof"
      [] OTHER                      -> "again"

WriteEnds(s) ==
    IF peer[s] = "rst" THEN {"error"}
    ELSE IF full[s] THEN {"again"}
    ELSE WriteResults

-----------------------------------------------------------------------------
Init ==
    /\ life = [s \in Socks |-> "none"]
    /\ flags = [s \in Socks |-> {}]
    /\ ref = [s \in Socks |-> 0]
    /\ armed = [s \in Socks |-> {}]
    /\ sess = [s \in Socks |-> "none"]
    /\ inb = [s \in Socks |-> 0]
    /\ sent = [s \in Socks |-> 0]
    /\ peer = [s \in Socks |-> "open"]
    /\ full = [s \in Socks |-> FALSE]
    /\ main = "loop" /\ batch = {} /\ acc = FALSE /\ rc = "undef"
    /\ events = <<>> /\ relay = <<>> /\ release = <<>> /\ cons = {}
    /\ running = TRUE /\ intr = FALSE /\ srvArmed = TRUE
    /\ prepared = {} /\ drainRun = FALSE
    /\ emtx = "free" /\ smtx = [s \in Socks |-> "free"]
    /\ wpc = [w \in Workers |-> "top"]
    /\ wev = [w \in Workers |-> NoEvent]
    /\ apc = [a \in Apps |-> "idle"]
    /\ asock = [a \in Apps |-> "none"]
    /\ aleft = [a \in Apps |-> MaxAppOps]

-----------------------------------------------------------------------------
(* The main thread: vtm_socket_stream_srv_main_run and handle_queued *)

\* while (running)
MainLoop ==
    /\ main = "loop"
    /\ main' = IF running THEN "listen" ELSE "dsignal"
    /\ UNCHANGED <<sockVars, netVars, batch, acc, rc, listVars, ctlVars,
                   lockVars, workVars, appVars>>

\* vtm_socket_listener_run: epoll_wait returns as many of the ready
\* descriptors as fit, disarms the one-shot ones and consumes the eventfd.
MainListen ==
    /\ main = "listen"
    /\ LET avail == {s \in Socks : Reported(s) # {}}
                        \cup (IF intr THEN {CFD} ELSE {})
                        \cup (IF srvArmed /\ \E s \in Socks : life[s] = "pending"
                              THEN {SRV} ELSE {})
       IN \E rep \in SUBSET avail :
            /\ rep # {}
            /\ Cardinality(rep) = MaxEvents \/ (rep = avail /\ Cardinality(rep) < MaxEvents)
            /\ batch' = {[sock |-> s, types |-> EventTypes(Reported(s))] :
                            s \in rep \cap Socks}
            /\ armed' = [s \in Socks |-> IF s \in rep THEN {} ELSE armed[s]]
            /\ acc' = (SRV \in rep)
            /\ srvArmed' = (srvArmed /\ SRV \notin rep)
            /\ intr' = (intr /\ CFD \notin rep)
    /\ rc' = "ok"
    /\ main' = "queued"
    /\ UNCHANGED <<life, flags, ref, sess, netVars, listVars, running, prepared,
                   drainRun, lockVars, workVars, appVars>>

\* epoll_wait interrupted by a signal: an empty batch.
MainInterrupted ==
    /\ main = "listen" /\ "eintr" \in Faults
    /\ rc' = "ok" /\ main' = "queued"
    /\ UNCHANGED <<sockVars, netVars, batch, acc, listVars, ctlVars, lockVars,
                   workVars, appVars>>

\* Any other failure of epoll_wait ends the server.
MainListenFails ==
    /\ main = "listen" /\ "epoll" \in Faults
    /\ rc' = "error" /\ running' = FALSE /\ main' = "dsignal"
    /\ UNCHANGED <<sockVars, netVars, batch, acc, listVars, intr, srvArmed,
                   prepared, drainRun, lockVars, workVars, appVars>>

MainLockEvents ==
    /\ main = "queued" /\ emtx = "free"
    /\ emtx' = "main" /\ main' = "release"
    /\ UNCHANGED <<sockVars, netVars, batch, acc, rc, listVars, ctlVars, smtx,
                   workVars, appVars>>

\* Mutant: a released socket is freed at once, whoever still refers to it.
MainRelease_FreeNow ==
    /\ main = "release" /\ release # <<>>
    /\ flags' = [flags EXCEPT ![Head(release)] = @ \cup {"FREE_ON_UNREF"}]
    /\ ref' = [ref EXCEPT ![Head(release)] = @ - 1]
    /\ life' = [life EXCEPT ![Head(release)] = "freed"]
    /\ release' = Tail(release)
    /\ UNCHANGED <<armed, sess, netVars, mainVars, events, relay, cons, ctlVars,
                   lockVars, workVars, appVars>>

\* One released socket: enable_free_on_unref, then unref.
MainRelease ==
    /\ main = "release" /\ release # <<>>
    /\ LET s == Head(release) IN
        /\ Unlocked(s)
        /\ flags' = [flags EXCEPT ![s] = @ \cup {"FREE_ON_UNREF"}]
        /\ ref' = [ref EXCEPT ![s] = @ - 1]
        /\ life' = [life EXCEPT ![s] = IF ref[s] <= 1 THEN "freed" ELSE @]
    /\ release' = Tail(release)
    /\ UNCHANGED <<armed, sess, netVars, mainVars, events, relay, cons, ctlVars,
                   lockVars, workVars, appVars>>

\* The relay events keep the reference their creator took.
MainRelay ==
    /\ main = "release" /\ release = <<>>
    /\ events' = events \o relay
    /\ relay' = <<>>
    /\ main' = "dispatch"
    /\ UNCHANGED <<sockVars, netVars, batch, acc, rc, release, cons, ctlVars,
                   lockVars, workVars, appVars>>

\* The queue entries made of one listener event.
EntriesOf(b, f) ==
    IF "CLOSED" \in b.types THEN <<Ev(b.sock, "CLOSED")>>
    ELSE IF "ERROR" \in b.types THEN <<Ev(b.sock, "ERROR")>>
    ELSE (IF "READ" \notin b.types THEN <<>>
          ELSE <<Ev(b.sock, IF "WRITE_AGAIN_WHEN_READABLE" \in f
                            THEN "WRITE" ELSE "READ")>>)
      \o (IF "WRITE" \notin b.types THEN <<>>
          ELSE <<Ev(b.sock, IF "READ_AGAIN_WHEN_WRITEABLE" \in f
                            THEN "READ" ELSE "WRITE")>>)

\* One event of the batch: close the socket on CLOSED, then create_event.
MainDispatch ==
    /\ main = "dispatch"
    /\ \E b \in batch :
        LET s == b.sock
            new == EntriesOf(b, flags[s])
        IN  /\ Unlocked(s)
            /\ flags' = [flags EXCEPT ![s] = IF "CLOSED" \in b.types
                                             THEN CloseState(@) ELSE @]
            /\ armed' = [armed EXCEPT ![s] = IF "CLOSED" \in b.types THEN {} ELSE @]
            /\ ref' = [ref EXCEPT ![s] = @ + Len(new)]
            /\ events' = events \o new
            /\ batch' = batch \ {b}
    /\ UNCHANGED <<life, sess, netVars, main, acc, rc, relay, release, cons,
                   ctlVars, lockVars, workVars, appVars>>

\* signal_all and unlock; accept comes after the lock is released.
MainUnlockEvents ==
    /\ main = "dispatch" /\ batch = {}
    /\ wpc' = SignalAll(wpc)
    /\ emtx' = "free"
    /\ main' = IF acc THEN "accept" ELSE "loop"
    /\ UNCHANGED <<sockVars, netVars, batch, acc, rc, listVars, ctlVars, smtx,
                   wev, appVars>>

\* One client accepted: make_threadsafe and add_event(ACCEPTED).
MainAccept ==
    /\ main = "accept" /\ emtx = "free"
    /\ \E s \in Socks :
        /\ life[s] = "pending"
        /\ life' = [life EXCEPT ![s] = "live"]
        /\ ref' = [ref EXCEPT ![s] = @ + 1]
        /\ events' = Append(events, Ev(s, "ACCEPTED"))
    /\ wpc' \in SignalOne(wpc)
    /\ UNCHANGED <<flags, armed, sess, netVars, mainVars, relay, release, cons,
                   ctlVars, lockVars, wev, appVars>>

\* Nobody left to accept (or accept kept failing): rearm the server socket.
MainAcceptAgain ==
    /\ main = "accept"
    /\ "accept" \in Faults \/ \A s \in Socks : life[s] # "pending"
    /\ acc' = FALSE /\ srvArmed' = TRUE /\ main' = "loop"
    /\ UNCHANGED <<sockVars, netVars, batch, rc, listVars, running, intr,
                   prepared, drainRun, lockVars, workVars, appVars>>

-----------------------------------------------------------------------------
(* Shutdown: drain_queued, workers_join and the clean-up of run *)

\* The wake-up of the waiting workers; events_mtx is not held here.
DrainSignal ==
    /\ main = "dsignal"
    /\ wpc' = SignalAll(wpc)
    /\ main' = "dawait"
    /\ UNCHANGED <<sockVars, netVars, batch, acc, rc, listVars, ctlVars,
                   lockVars, wev, appVars>>

\* vtm_latch_await on drain_prepare_latch, then lock events_mtx.
LatchOpen == prepared = Workers

DrainAwait ==
    /\ main = "dawait" /\ LatchOpen /\ emtx = "free"
    /\ emtx' = "main" /\ main' = "dclose"
    /\ UNCHANGED <<sockVars, netVars, batch, acc, rc, listVars, ctlVars, smtx,
                   workVars, appVars>>

\* A sequence holding one CLOSED entry per open connection, in map order.
CloseEntries(C) ==
    {q \in [1 .. Cardinality(C) -> {Ev(s, "CLOSED") : s \in C}] :
        \A s \in C : \E i \in DOMAIN q : q[i].sock = s}

\* Mutant: drain_run_latch is never counted.
DrainClose_NoCount ==
    /\ main = "dclose"
    /\ \A s \in Socks : Unlocked(s)
    /\ flags' = [s \in Socks |-> IF s \in cons THEN CloseState(flags[s]) ELSE flags[s]]
    /\ events' \in CloseEntries(cons)
    /\ emtx' = "free" /\ main' = "join"
    /\ UNCHANGED <<life, ref, armed, sess, netVars, batch, acc, rc, relay, release,
                   cons, ctlVars, smtx, workVars, appVars>>

\* Drop the queued events, close every connection, queue its CLOSED event
\* and open drain_run_latch.
DrainClose ==
    /\ main = "dclose"
    /\ \A s \in Socks : Unlocked(s)
    /\ flags' = [s \in Socks |-> IF s \in cons THEN CloseState(flags[s]) ELSE flags[s]]
    /\ armed' = [s \in Socks |-> IF s \in cons THEN {} ELSE armed[s]]
    /\ ref' = [s \in Socks |-> (ref[s] - Count(events, s)) + (IF s \in cons THEN 1 ELSE 0)]
    /\ life' = [s \in Socks |->
                  IF Count(events, s) > 0 /\ Count(events, s) >= ref[s]
                        /\ "FREE_ON_UNREF" \in flags[s]
                  THEN "freed" ELSE life[s]]
    /\ events' \in CloseEntries(cons)
    /\ drainRun' = TRUE
    /\ emtx' = "free" /\ main' = "join"
    /\ UNCHANGED <<sess, netVars, batch, acc, rc, relay, release, cons, running,
                   intr, srvArmed, prepared, smtx, workVars, appVars>>

Join ==
    /\ main = "join"
    /\ \A w \in Workers : wpc[w] = "end"
    /\ main' = "clean"
    /\ UNCHANGED <<sockVars, netVars, batch, acc, rc, listVars, ctlVars,
                   lockVars, workVars, appVars>>

\* free_sockets frees every released socket whatever its count; the lists
\* and the listener go with it.
Clean ==
    /\ main = "clean"
    /\ life' = [s \in Socks |->
                  IF \E i \in DOMAIN release : release[i] = s
                  THEN "freed" ELSE life[s]]
    /\ release' = <<>> /\ relay' = <<>> /\ events' = <<>> /\ cons' = {}
    /\ srvArmed' = FALSE /\ main' = "done"
    /\ UNCHANGED <<flags, ref, armed, sess, netVars, batch, acc, rc, running,
                   intr, prepared, drainRun, lockVars, workVars, appVars>>

\* vtm_socket_stream_srv_stop; stop_lock is free while main_run runs.
Stop ==
    /\ StopAllowed /\ running /\ main # "done"
    /\ running' = FALSE /\ intr' = TRUE
    /\ UNCHANGED <<sockVars, netVars, mainVars, listVars, srvArmed, prepared,
                   drainRun, lockVars, workVars, appVars>>

-----------------------------------------------------------------------------
(* Worker threads: vtm_socket_stream_srv_worker_run *)

Goto(w, l) == wpc' = [wpc EXCEPT ![w] = l]

WorkerTop(w) ==
    /\ wpc[w] = "top"
    /\ Goto(w, IF running THEN "lock" ELSE "count")
    /\ UNCHANGED <<sockVars, netVars, mainVars, listVars, ctlVars, lockVars,
                   wev, appVars>>

\* VTM_SQUEUE_POLL under events_mtx, in normal operation and while draining.
WorkerPoll(w) ==
    /\ wpc[w] \in {"lock", "drain"} /\ emtx = "free" /\ events # <<>>
    /\ wev' = [wev EXCEPT ![w] = Head(events)]
    /\ events' = Tail(events)
    /\ Goto(w, IF Head(events).type \in {"READ", "WRITE"} THEN "state" ELSE "trylock")
    /\ UNCHANGED <<sockVars, netVars, mainVars, relay, release, cons, ctlVars,
                   lockVars, appVars>>

\* Queue empty: leave when the server stops, else go on to wait, holding
\* events_mtx until cond_wait gives it back.
WorkerEmpty(w) ==
    /\ wpc[w] = "lock" /\ emtx = "free" /\ events = <<>>
    /\ Goto(w, IF running THEN "prewait" ELSE "count")
    /\ emtx' = IF running THEN w ELSE emtx
    /\ UNCHANGED <<sockVars, netVars, mainVars, listVars, ctlVars, smtx, wev, appVars>>

WorkerWait(w) ==
    /\ wpc[w] = "prewait"
    /\ Goto(w, "wait") /\ emtx' = "free"
    /\ UNCHANGED <<sockVars, netVars, mainVars, listVars, ctlVars, smtx, wev, appVars>>

\* Mutant: cond_wait guarded by "if": a woken worker takes an event unchecked.
SpuriousWake_NoLoop(w) ==
    /\ wpc[w] = "wait"
    /\ Goto(w, "trylock")
    /\ UNCHANGED <<sockVars, netVars, mainVars, listVars, ctlVars, lockVars,
                   wev, appVars>>

\* A condition variable may wake a thread without a signal.
SpuriousWake(w) ==
    /\ wpc[w] = "wait"
    /\ Goto(w, "lock")
    /\ UNCHANGED <<sockVars, netVars, mainVars, listVars, ctlVars, lockVars,
                   wev, appVars>>

\* Mutant: a worker leaves without waiting for drain_run_latch, so that nobody
\* handles the CLOSED events.
WorkerAwait_NoWait(w) ==
    /\ wpc[w] = "await"
    /\ Goto(w, "end")
    /\ UNCHANGED <<sockVars, netVars, mainVars, listVars, ctlVars, lockVars,
                   wev, appVars>>

\* vtm_latch_count on drain_prepare_latch.
WorkerCount(w) ==
    /\ wpc[w] = "count"
    /\ prepared' = prepared \cup {w} /\ Goto(w, "await")
    /\ UNCHANGED <<sockVars, netVars, mainVars, listVars, running, intr,
                   srvArmed, drainRun, lockVars, wev, appVars>>

WorkerAwait(w) ==
    /\ wpc[w] = "await" /\ drainRun
    /\ Goto(w, "drain")
    /\ UNCHANGED <<sockVars, netVars, mainVars, listVars, ctlVars, lockVars,
                   wev, appVars>>

\* Nothing left to drain: worker_end and return.
WorkerEnd(w) ==
    /\ wpc[w] = "drain" /\ emtx = "free" /\ events = <<>>
    /\ Goto(w, "end")
    /\ UNCHANGED <<sockVars, netVars, mainVars, listVars, ctlVars, lockVars,
                   wev, appVars>>

-----------------------------------------------------------------------------
(* Worker threads: worker_event and sock_event *)

\* READ and WRITE events of a closed socket are dropped.
SockEventState(w) ==
    /\ wpc[w] = "state" /\ Unlocked(S(w))
    /\ Goto(w, IF "CLOSED" \in flags[S(w)] THEN "unref" ELSE "trylock")
    /\ UNCHANGED <<sockVars, netVars, mainVars, listVars, ctlVars, lockVars,
                   wev, appVars>>

\* Mutant: a CLOSED or ERROR event that finds the socket locked is dropped
\* like a READ event.
AfterTrylock_Drop(t, ok) ==
    CASE t = "ACCEPTED" -> IF ok THEN "accept"   ELSE "abort"
      [] t = "CLOSED"   -> IF ok THEN "closed"   ELSE "unref"
      [] t = "ERROR"    -> IF ok THEN "error"    ELSE "unref"
      [] t = "READ"     -> IF ok THEN "canread"  ELSE "unref"
      [] t = "WRITE"    -> IF ok THEN "canwrite" ELSE "unref"

\* Where a worker goes after sock_trylock on an event of each type.
AfterTrylock(t, ok) ==
    CASE t = "ACCEPTED" -> IF ok THEN "accept"   ELSE "abort"    \* VTM_ASSERT
      [] t = "CLOSED"   -> IF ok THEN "closed"   ELSE "requeue"
      [] t = "ERROR"    -> IF ok THEN "error"    ELSE "requeue"
      [] t = "READ"     -> IF ok THEN "canread"  ELSE "unref"
      [] t = "WRITE"    -> IF ok THEN "canwrite" ELSE "unref"

\* Mutant: the lock flags are set without a look at them.
SockTrylock_Blind(w) ==
    /\ wpc[w] = "trylock" /\ Unlocked(S(w))
    /\ flags' = [flags EXCEPT ![S(w)] = @ \cup Locks(wev[w].type)]
    /\ Goto(w, AfterTrylock(wev[w].type, TRUE))
    /\ UNCHANGED <<life, ref, armed, sess, netVars, mainVars, listVars, ctlVars,
                   lockVars, wev, appVars>>

SockTrylock(w) ==
    /\ wpc[w] = "trylock" /\ Unlocked(S(w))
    /\ LET t == wev[w].type
           ok == flags[S(w)] \cap Locks(t) = {}
       IN  /\ flags' = [flags EXCEPT ![S(w)] = IF ok THEN @ \cup Locks(t) ELSE @]
           /\ Goto(w, AfterTrylock(t, ok))
    /\ UNCHANGED <<life, ref, armed, sess, netVars, mainVars, listVars, ctlVars,
                   lockVars, wev, appVars>>

\* An event that could not be processed goes back to the queue (add_event).
AddEvent(w) ==
    /\ wpc[w] = "requeue" /\ Unlocked(S(w)) /\ emtx = "free"
    /\ ref' = [ref EXCEPT ![S(w)] = @ + 1]
    /\ events' = Append(events, wev[w])
    /\ \E pc \in SignalOne(wpc) : wpc' = [pc EXCEPT ![w] = "unref"]
    /\ UNCHANGED <<life, flags, armed, sess, netVars, mainVars, relay, release,
                   cons, ctlVars, lockVars, wev, appVars>>

SockUnlock(w) ==
    /\ wpc[w] = "unlock" /\ Unlocked(S(w))
    /\ flags' = [flags EXCEPT ![S(w)] = @ \ Locks(wev[w].type)]
    /\ Goto(w, "unref")
    /\ UNCHANGED <<life, ref, armed, sess, netVars, mainVars, listVars, ctlVars,
                   lockVars, wev, appVars>>

\* The polled event's reference; the last one frees a released socket.
SockUnref(w) ==
    /\ wpc[w] = "unref" /\ Unlocked(S(w))
    /\ ref' = [ref EXCEPT ![S(w)] = @ - 1]
    /\ life' = [life EXCEPT ![S(w)] =
                  IF ref[S(w)] = 1 /\ "FREE_ON_UNREF" \in flags[S(w)]
                  THEN "freed" ELSE @]
    /\ wev' = [wev EXCEPT ![w] = NoEvent]
    /\ Goto(w, IF w \in prepared THEN "drain" ELSE "top")
    /\ UNCHANGED <<flags, armed, sess, netVars, mainVars, listVars, ctlVars,
                   lockVars, appVars>>

-----------------------------------------------------------------------------
(* Worker threads: the handlers *)

\* The state word f after a callback did x last; x is external.
AfterCallback(s, f, x) ==
    CASE x = "none"  -> {f}
      [] x = "close" -> {CloseState(f)}
      [] x = "write" -> {WriteState(f, o) : o \in WriteEnds(s)}

\* sock_accepted up to the connected callback.
SockAccepted(w) ==
    /\ wpc[w] = "accept" /\ Unlocked(S(w))
    /\ \/ /\ "nonblock" \in Faults
          /\ flags' = [flags EXCEPT ![S(w)] = CloseState(@)]
          /\ Goto(w, "free")
       \/ /\ UNCHANGED flags
          /\ Goto(w, "connected")
    /\ UNCHANGED <<life, ref, armed, sess, netVars, mainVars, listVars, ctlVars,
                   lockVars, wev, appVars>>

\* The connected callback chooses the NBL_* flags, then may greet or close.
SockConnected(w) ==
    /\ wpc[w] = "connected" /\ Unlocked(S(w))
    /\ LET s == S(w) IN
        \E n \in ConnectFlags, x \in ConnectResults :
            \E f \in AfterCallback(s, flags[s] \cup n, x) :
                /\ flags' = [flags EXCEPT ![s] = f]
                /\ full' = [full EXCEPT ![s] = @ \/ "WRITE_AGAIN" \in f]
    /\ sess' = [sess EXCEPT ![S(w)] = "open"]
    /\ Goto(w, "acheck")
    /\ UNCHANGED <<life, ref, armed, inb, sent, peer, mainVars, listVars, ctlVars,
                   lockVars, wev, appVars>>

\* sock_check: errors, closed sockets and hang-ups end the connection.
SockCheck(w) ==
    /\ wpc[w] \in {"check", "acheck"} /\ Unlocked(S(w))
    /\ LET f == flags[S(w)]
           hup == "HUP" \in f /\ "ERR" \notin f
       IN  /\ flags' = [flags EXCEPT ![S(w)] = IF hup THEN CloseState(@) ELSE @]
           /\ armed' = [armed EXCEPT ![S(w)] = IF hup THEN {} ELSE @]
           /\ Goto(w, IF "ERR" \in f THEN "error"
                      ELSE IF f \cap {"CLOSED", "HUP"} # {} THEN "closed"
                      ELSE IF wpc[w] = "acheck" THEN "add" ELSE "rearm")
    /\ UNCHANGED <<life, ref, sess, netVars, mainVars, listVars, ctlVars,
                   lockVars, wev, appVars>>

\* sock_accepted: listener_add and the entry in cons, under cons_mtx.  Adding
\* a descriptor that was closed meanwhile fails; then the connection ends.
SockAdd(w) ==
    /\ wpc[w] = "add" /\ Unlocked(S(w))
    /\ LET f == flags[S(w)] \cup {"NBL_READ"} IN
        \/ /\ "CLOSED" \notin f
           /\ flags' = [flags EXCEPT ![S(w)] = f]
           /\ armed' = [armed EXCEPT ![S(w)] = Interest(f)]
           /\ cons' = cons \cup {S(w)}
           /\ Goto(w, "unlock")
        \/ /\ "CLOSED" \in f \/ "add" \in Faults
           /\ flags' = [flags EXCEPT ![S(w)] = CloseState(f)]
           /\ UNCHANGED <<armed, cons>>
           /\ Goto(w, "disc")
    /\ UNCHANGED <<life, ref, sess, netVars, mainVars, events, relay, release,
                   ctlVars, lockVars, wev, appVars>>

\* sock_can_read: the callback reads until the kernel has no more, then may
\* answer or close.
SockCanRead(w) ==
    /\ wpc[w] = "canread" /\ Unlocked(S(w))
    /\ LET s == S(w)
           open == "CLOSED" \notin flags[s]
       IN \E r \in {ReadEnd(s)} \cup ReadWants, x \in Reactions :
            \E f \in AfterCallback(s, ReadState(flags[s], r), x) :
                /\ flags' = [flags EXCEPT ![s] = f]
                /\ armed' = [armed EXCEPT ![s] = IF "CLOSED" \in f THEN {} ELSE @]
                /\ inb' = [inb EXCEPT ![s] = IF open /\ r \notin ReadWants THEN 0 ELSE @]
                /\ full' = [full EXCEPT ![s] = @ \/ (open /\ "WRITE_AGAIN" \in f)]
    /\ Goto(w, "check")
    /\ UNCHANGED <<life, ref, sess, sent, peer, mainVars, listVars, ctlVars,
                   lockVars, wev, appVars>>

\* sock_can_write: the callback sends what it still has, then may close.
SockCanWrite(w) ==
    /\ wpc[w] = "canwrite" /\ Unlocked(S(w))
    /\ LET s == S(w) IN
        \E f \in AfterCallback(s, flags[s], "write"), x \in Reactions \ {"write"} :
            LET g == IF x = "close" THEN CloseState(f) ELSE f IN
                /\ flags' = [flags EXCEPT ![s] = g]
                /\ armed' = [armed EXCEPT ![s] = IF "CLOSED" \in g THEN {} ELSE @]
                /\ full' = [full EXCEPT ![s] =
                              @ \/ ("CLOSED" \notin flags[s] /\ "WRITE_AGAIN" \in f)]
    /\ Goto(w, "check")
    /\ UNCHANGED <<life, ref, sess, inb, sent, peer, mainVars, listVars, ctlVars,
                   lockVars, wev, appVars>>

\* sock_check: listener_rearm; a failure closes the socket and checks again.
SockRearm(w) ==
    /\ wpc[w] = "rearm" /\ Unlocked(S(w))
    /\ LET f == flags[S(w)] IN
        \/ /\ "CLOSED" \notin f
           /\ armed' = [armed EXCEPT ![S(w)] = Interest(f)]
           /\ UNCHANGED flags
           /\ Goto(w, "unlock")
        \/ /\ "CLOSED" \in f \/ "rearm" \in Faults
           /\ flags' = [flags EXCEPT ![S(w)] = CloseState(@)]
           /\ armed' = [armed EXCEPT ![S(w)] = {}]
           /\ Goto(w, "check")
    /\ UNCHANGED <<life, ref, sess, netVars, mainVars, listVars, ctlVars,
                   lockVars, wev, appVars>>

\* sock_error: the error callback, then close.
SockError(w) ==
    /\ wpc[w] = "error" /\ Unlocked(S(w))
    /\ flags' = [flags EXCEPT ![S(w)] = CloseState(@)]
    /\ armed' = [armed EXCEPT ![S(w)] = {}]
    /\ Goto(w, "closed")
    /\ UNCHANGED <<life, ref, sess, netVars, mainVars, listVars, ctlVars,
                   lockVars, wev, appVars>>

\* sock_closed: whoever takes the socket out of cons ends the connection.
SockClosed(w) ==
    /\ wpc[w] = "closed" /\ Unlocked(S(w))
    /\ cons' = cons \ {S(w)}
    /\ Goto(w, IF S(w) \in cons THEN "disc" ELSE "unlock")
    /\ UNCHANGED <<sockVars, netVars, mainVars, events, relay, release, ctlVars,
                   lockVars, wev, appVars>>

\* The disconnected callback; the program's own lock keeps its other threads
\* from using the connection meanwhile.
SockDisconnected(w) ==
    /\ wpc[w] = "disc"
    /\ \A a \in Apps : asock[a] # S(w)
    /\ sess' = [sess EXCEPT ![S(w)] = "ended"]
    /\ Goto(w, "free")
    /\ UNCHANGED <<life, flags, ref, armed, netVars, mainVars, listVars, ctlVars,
                   lockVars, wev, appVars>>

\* Mutant: the release list does not count as a reference.
SockFree_NoRef(w) ==
    /\ wpc[w] = "free" /\ Unlocked(S(w)) /\ emtx = "free"
    /\ release' = Append(release, S(w))
    /\ intr' = TRUE
    /\ Goto(w, "unlock")
    /\ UNCHANGED <<sockVars, netVars, mainVars, events, relay, cons, running,
                   srvArmed, prepared, drainRun, lockVars, wev, appVars>>

\* Mutant: the main thread is not woken for a released socket.
SockFree_NoInterrupt(w) ==
    /\ wpc[w] = "free" /\ Unlocked(S(w)) /\ emtx = "free"
    /\ ref' = [ref EXCEPT ![S(w)] = @ + 1]
    /\ release' = Append(release, S(w))
    /\ Goto(w, "unlock")
    /\ UNCHANGED <<life, flags, armed, sess, netVars, mainVars, events, relay,
                   cons, ctlVars, lockVars, wev, appVars>>

\* sock_free: a reference for the release list and a wake-up for main.
SockFree(w) ==
    /\ wpc[w] = "free" /\ Unlocked(S(w)) /\ emtx = "free"
    /\ ref' = [ref EXCEPT ![S(w)] = @ + 1]
    /\ release' = Append(release, S(w))
    /\ intr' = TRUE
    /\ Goto(w, "unlock")
    /\ UNCHANGED <<life, flags, armed, sess, netVars, mainVars, events, relay,
                   cons, running, srvArmed, prepared, drainRun, lockVars, wev,
                   appVars>>

-----------------------------------------------------------------------------
(* Other threads: vtm_socket_con_close and vtm_socket_con_write_internal *)

\* The socket call.  The thread only uses connections whose disconnected
\* callback has not run; a write that went through ends the call.
AppCall(a) ==
    /\ apc[a] = "idle" /\ aleft[a] > 0
    /\ \E s \in Socks, op \in AppOps :
        /\ sess[s] = "open" /\ Unlocked(s)
        /\ \E f \in IF op = "close" THEN {CloseState(flags[s])}
                    ELSE {WriteState(flags[s], o) : o \in WriteEnds(s)} :
            /\ flags' = [flags EXCEPT ![s] = f]
            /\ armed' = [armed EXCEPT ![s] = IF "CLOSED" \in f THEN {} ELSE @]
            /\ full' = [full EXCEPT ![s] =
                          @ \/ (op = "write" /\ "CLOSED" \notin f /\ "WRITE_AGAIN" \in f)]
            /\ LET again == op = "close" \/ "CLOSED" \in f
                                \/ f \cap (WriteAgain \cup {"ERR"}) # {}
               IN  /\ apc' = [apc EXCEPT ![a] = IF again THEN "update" ELSE "idle"]
                   /\ asock' = [asock EXCEPT ![a] = IF again THEN s ELSE "none"]
    /\ aleft' = [aleft EXCEPT ![a] = @ - 1]
    /\ UNCHANGED <<life, ref, sess, inb, sent, peer, mainVars, listVars, ctlVars,
                   lockVars, workVars>>

Ending(f) == f \cap {"ERR", "CLOSED", "HUP"} # {}

\* sock_cb_update: a connection that ends gets a relay event, for which the
\* socket stays locked; one that must wait is rearmed in its new direction
\* (which has no effect before listener_add).
AppUpdate(a) ==
    /\ apc[a] = "update" /\ Unlocked(asock[a])
    /\ LET s == asock[a]
           f == flags[s]
       IN IF Ending(f)
          THEN /\ smtx' = [smtx EXCEPT ![s] = a]
               /\ ref' = [ref EXCEPT ![s] = @ + 1]
               /\ flags' = [flags EXCEPT ![s] =
                              IF "ERR" \notin f THEN CloseState(@) ELSE @]
               /\ armed' = [armed EXCEPT ![s] = IF "ERR" \notin f THEN {} ELSE @]
               /\ apc' = [apc EXCEPT ![a] = "relay"]
               /\ UNCHANGED asock
          ELSE /\ armed' = [armed EXCEPT ![s] =
                              IF s \in cons /\ f \cap (ReadAgain \cup WriteAgain) # {}
                              THEN Interest(f) ELSE @]
               /\ apc' = [apc EXCEPT ![a] = "idle"]
               /\ asock' = [asock EXCEPT ![a] = "none"]
               /\ UNCHANGED <<smtx, ref, flags>>
    /\ UNCHANGED <<life, sess, netVars, mainVars, listVars, ctlVars, emtx,
                   workVars, aleft>>

\* create_relay_event under events_mtx, listener_interrupt, unlock.
AppRelay(a) ==
    /\ apc[a] = "relay" /\ emtx = "free"
    /\ LET s == asock[a] IN
        /\ relay' = Append(relay, Ev(s, IF "ERR" \in flags[s] THEN "ERROR" ELSE "CLOSED"))
        /\ smtx' = [smtx EXCEPT ![s] = "free"]
    /\ intr' = TRUE
    /\ apc' = [apc EXCEPT ![a] = "idle"]
    /\ asock' = [asock EXCEPT ![a] = "none"]
    /\ UNCHANGED <<sockVars, netVars, mainVars, events, release, cons, running,
                   srvArmed, prepared, drainRun, emtx, workVars, aleft>>

-----------------------------------------------------------------------------
(* Clients *)

ClientConnect(s) ==
    /\ life[s] = "none" /\ main # "done"
    /\ life' = [life EXCEPT ![s] = "pending"]
    /\ UNCHANGED <<flags, ref, armed, sess, netVars, mainVars, listVars, ctlVars,
                   lockVars, workVars, appVars>>

ClientSend(s) ==
    /\ life[s] \in {"pending", "live"} /\ peer[s] = "open" /\ sent[s] < MaxSend
    /\ inb' = [inb EXCEPT ![s] = @ + 1]
    /\ sent' = [sent EXCEPT ![s] = @ + 1]
    /\ UNCHANGED <<sockVars, peer, full, mainVars, listVars, ctlVars, lockVars,
                   workVars, appVars>>

\* The peer takes what the server sent, so that it may send again.
ClientRecv(s) ==
    /\ full[s]
    /\ full' = [full EXCEPT ![s] = FALSE]
    /\ UNCHANGED <<sockVars, inb, sent, peer, mainVars, listVars, ctlVars,
                   lockVars, workVars, appVars>>

ClientLeave(s) ==
    /\ life[s] \in {"pending", "live"} /\ peer[s] = "open"
    /\ \E e \in PeerEnds : peer' = [peer EXCEPT ![s] = e]
    /\ UNCHANGED <<sockVars, inb, sent, full, mainVars, listVars, ctlVars,
                   lockVars, workVars, appVars>>

-----------------------------------------------------------------------------
MainNext ==
    \/ MainLoop \/ MainListen \/ MainInterrupted \/ MainListenFails
    \/ MainLockEvents \/ MainRelease \/ MainRelay \/ MainDispatch
    \/ MainUnlockEvents \/ MainAccept \/ MainAcceptAgain
    \/ DrainSignal \/ DrainAwait \/ DrainClose \/ Join \/ Clean

WorkerNext(w) ==
    \/ WorkerTop(w) \/ WorkerPoll(w) \/ WorkerEmpty(w) \/ WorkerWait(w)
    \/ WorkerCount(w) \/ WorkerAwait(w) \/ WorkerEnd(w)
    \/ SockEventState(w) \/ SockTrylock(w) \/ AddEvent(w)
    \/ SockUnlock(w) \/ SockUnref(w)
    \/ SockAccepted(w) \/ SockConnected(w) \/ SockCheck(w) \/ SockAdd(w)
    \/ SockCanRead(w) \/ SockCanWrite(w) \/ SockRearm(w)
    \/ SockError(w) \/ SockClosed(w) \/ SockDisconnected(w) \/ SockFree(w)

AppNext(a) == AppCall(a) \/ AppUpdate(a) \/ AppRelay(a)

ClientNext(s) ==
    ClientConnect(s) \/ ClientSend(s) \/ ClientRecv(s) \/ ClientLeave(s)

Done == main = "done" /\ UNCHANGED vars

Next ==
    \/ MainNext
    \/ \E w \in Workers : WorkerNext(w) \/ SpuriousWake(w)
    \/ \E a \in Apps : AppNext(a)
    \/ \E s \in Socks : ClientNext(s)
    \/ Stop
    \/ Done

Spec == Init /\ [][Next]_vars

\* No thread is starved: one that can take its next step again and again (it
\* may have to wait for a mutex in between) takes it.  Nothing forces a client
\* to act, a thread to begin a call, or a worker to wake without a signal.
Fairness ==
    /\ SF_vars(MainNext)
    /\ \A w \in Workers : SF_vars(WorkerNext(w))
    /\ \A a \in Apps : SF_vars(AppUpdate(a) \/ AppRelay(a))

FairSpec == Spec /\ Fairness

-----------------------------------------------------------------------------
(* Properties *)

SocketsOK ==
    /\ life \in [Socks -> {"none", "pending", "live", "freed"}]
    /\ flags \in [Socks -> SUBSET SockFlags]
    /\ ref \in [Socks -> Int]
    /\ armed \in [Socks -> SUBSET {"IN", "OUT"}]
    /\ sess \in [Socks -> {"none", "open", "ended"}]

PeersOK ==
    /\ inb \in [Socks -> Nat] /\ sent \in [Socks -> Nat]
    /\ peer \in [Socks -> {"open", "fin", "rst", "err"}]
    /\ full \in [Socks -> BOOLEAN]

MainOK ==
    /\ main \in MainPcs /\ acc \in BOOLEAN /\ rc \in {"undef", "ok", "error"}
    /\ batch \subseteq [sock : Socks, types : SUBSET EventType]
    /\ running \in BOOLEAN /\ intr \in BOOLEAN /\ srvArmed \in BOOLEAN
    /\ prepared \subseteq Workers /\ drainRun \in BOOLEAN

ListsOK ==
    /\ events \in Seq(Event) /\ relay \in Seq(Event) /\ release \in Seq(Socks)
    /\ cons \subseteq Socks

WorkersOK ==
    /\ emtx \in Workers \cup {"free", "main"}
    /\ wpc \in [Workers -> WorkerPcs]
    /\ wev \in [Workers -> Event \cup {NoEvent}]
    /\ \A w \in Workers : wpc[w] \in EventPcs => wev[w] \in Event

AppsOK ==
    /\ smtx \in [Socks -> Apps \cup {"free"}]
    /\ apc \in [Apps -> {"idle", "update", "relay"}]
    /\ asock \in [Apps -> Socks \cup {"none"}]
    /\ \A a \in Apps : apc[a] # "idle" => asock[a] \in Socks
    /\ aleft \in [Apps -> Nat]

\* Every variable keeps the shape the code gives it: in particular a worker
\* inside worker_event owns an event of a client socket, and a thread inside
\* update_srv a socket.
TypeOK ==
    SocketsOK /\ PeersOK /\ MainOK /\ ListsOK /\ WorkersOK /\ AppsOK

InSection(w) == wpc[w] \in SectionPcs

\* The READ_LOCKED and WRITE_LOCKED flags really are locks: a worker between
\* sock_trylock and sock_unlock has its flags set, and no other worker holds
\* one of them on the same socket.  So two can_read callbacks of one
\* connection never overlap, and CLOSED and ERROR events run alone.
CallbackExclusion ==
    \A w \in Workers : InSection(w) =>
        /\ Locks(wev[w].type) \subseteq flags[S(w)]
        /\ \A v \in Workers \ {w} : InSection(v) /\ S(v) = S(w) =>
                Locks(wev[v].type) \cap Locks(wev[w].type) = {}

\* A socket's refcount is exactly the number of places that hold it: queued
\* and relay events, the release list, events in the hands of a worker and a
\* thread about to relay.
RefAccounting ==
    main # "done" => \A s \in Socks :
        ref[s] = Count(events, s) + Count(relay, s)
                   + Cardinality({i \in DOMAIN release : release[i] = s})
                   + Cardinality({w \in Workers : S(w) = s})
                   + Cardinality({a \in Apps : apc[a] = "relay" /\ asock[a] = s})

\* Nothing that will be dereferenced points to a freed socket: no list, no
\* worker, no other thread and no event of the batch main still has to handle.
NoDangling ==
    \A s \in Socks : life[s] = "freed" =>
        /\ Count(events, s) = 0 /\ Count(relay, s) = 0
        /\ \A i \in DOMAIN release : release[i] # s
        /\ s \notin cons
        /\ \A w \in Workers : S(w) # s
        /\ \A a \in Apps : asock[a] # s
        /\ \A b \in batch : b.sock # s

CallbackPcs == {"canread", "canwrite", "error", "disc"}

\* The callbacks of a connection keep their order: can_read, can_write, error
\* and disconnected run only between connected and disconnected, disconnected
\* runs alone, and only an ended connection is freed.  The VTM_ASSERT that a
\* just accepted socket is not locked yet holds too.
SessionProtocol ==
    /\ \A w \in Workers : wpc[w] # "abort"
    /\ \A w \in Workers : wpc[w] \in CallbackPcs => sess[S(w)] = "open"
    /\ \A w \in Workers, v \in Workers :
        w # v /\ wpc[w] = "disc" /\ wpc[v] \in CallbackPcs => S(w) # S(v)
    /\ \A s \in Socks : life[s] = "freed" => sess[s] # "open"

\* When run returns, every connection that was reported as connected has been
\* reported as disconnected and its socket is freed.
SessionsEnd ==
    main = "done" => \A s \in Socks :
        /\ sess[s] # "open"
        /\ sess[s] = "ended" => life[s] = "freed"

\* Data that reached an open connection is read while the server runs,
\* unless the connection is closed or its peer takes nothing from the server.
ReadsServed ==
    \A s \in Socks :
        (inb[s] > 0 /\ sess[s] = "open")
            ~> (inb[s] = 0 \/ "CLOSED" \in flags[s] \/ full[s] \/ ~running)

\* Whoever closed it, a closed connection is reported by its disconnected
\* callback while the server runs.
CloseReported ==
    \A s \in Socks :
        ("CLOSED" \in flags[s] /\ sess[s] = "open") ~> (sess[s] = "ended" \/ ~running)

\* While the server runs, the socket of an ended connection is freed: the
\* release list never waits for unrelated traffic.
ReleasedFreed ==
    \A s \in Socks : (sess[s] = "ended") ~> (life[s] = "freed" \/ ~running)

\* A shutdown whose workers have all reached the latch comes to its end.
DrainCompletes == (main = "dclose") ~> (main = "done")

\* The header's word on stop: the shutdown comes to its end.
ShutdownCompletes == (~running) ~> (main = "done")

=============================================================================
