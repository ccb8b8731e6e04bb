--------------------------- MODULE ServerWrapper ---------------------------
(***************************************************************************)
(* Running and stopping an NM or an HTTP server.  The three run functions  *)
(* (nm_stream_server.c, http_server.c, nm_dgram_server.c) make a socket    *)
(* server, run it and free it; stop may be called by other threads at any  *)
(* time.  Two spinlocks order them: the wrapper's stop_lock and the socket *)
(* server's.  run holds both from the start and releases the wrapper's in  *)
(* the server_ready callback; afterwards it decides by the result whether  *)
(* it has to take it again.                                                *)
(***************************************************************************)
EXTENDS Naturals

CONSTANTS
    Stoppers,   \* threads that call stop
    MaxRuns     \* bound: calls of run, one after the other

ASSUME WrapperAssumption == MaxRuns \in Nat

VARIABLES
    product,    \* "nm", "http" (both over a stream server) or "dgram"
    outer,      \* the wrapper's stop_lock
    sockSrv,    \* srv->sock_srv: the socket server, 0 for NULL
    obj,        \* the socket servers: stop_lock, running, listener, live
    run,        \* the thread in run: where it is, its server, result, loop entered
    stop,       \* the threads in stop: where they are, their server, result
    misled      \* a run returned an error after it had called server_ready,
                \* or no error although it had not

wrapVars == <<product, outer, sockSrv, obj, run, stop, misled>>

At(p) == run.pc = p
Cur == obj[run.srv]
Go(p) == run' = [run EXCEPT !.pc = p]

-----------------------------------------------------------------------------
(* The thread in run.                                                      *)

RunLock == /\ At("idle") /\ ~outer /\ run.srv < MaxRuns
           /\ outer' = TRUE /\ Go("new")
           /\ UNCHANGED <<product, sockSrv, obj, stop, misled>>
\* vtm_socket_stream_srv_new may fail.
RunNew(ok) ==
    /\ At("new")
    /\ IF ok THEN /\ run' = [run EXCEPT !.pc = "locking", !.srv = @ + 1]
                  /\ sockSrv' = run.srv + 1
                  /\ obj' = [obj EXCEPT ![run.srv + 1].live = TRUE]
                  /\ UNCHANGED outer
       ELSE Go("idle") /\ outer' = FALSE /\ UNCHANGED <<sockSrv, obj>>
    /\ UNCHANGED <<product, stop, misled>>

\* vtm_socket_stream_srv_run and vtm_socket_dgram_srv_run up to server_ready, under
\* their own lock.  A mutex that the stream server cannot make is the one failure
\* that leaves rc at VTM_OK.
SrvLock == /\ At("locking") /\ ~Cur.lock
           /\ obj' = [obj EXCEPT ![run.srv].lock = TRUE] /\ Go("setup")
           /\ UNCHANGED <<product, outer, sockSrv, stop, misled>>
Unnoticed(step) == step = "cons_mtx" /\ product # "dgram"
SetupFails(step) ==
    /\ At("setup")
    /\ run' = [run EXCEPT !.pc = "returned", !.rc = IF Unnoticed(step) THEN "ok" ELSE "error"]
    /\ obj' = [obj EXCEPT ![run.srv].lock = FALSE, ![run.srv].running = step = "workers"]
    /\ misled' = (misled \/ Unnoticed(step))
    /\ UNCHANGED <<product, outer, sockSrv, stop>>
Setup == /\ At("setup") /\ Go("ready")
         /\ obj' = [obj EXCEPT ![run.srv].running = TRUE, ![run.srv].listener = TRUE]
         /\ UNCHANGED <<product, outer, sockSrv, stop, misled>>
\* The wrappers' server_ready: unlock, then the user's callback.
ServerReady == /\ At("ready") /\ Go("callback") /\ outer' = FALSE
               /\ UNCHANGED <<product, sockSrv, obj, stop, misled>>
SrvUnlock == /\ At("callback") /\ Go("loop")
             /\ obj' = [obj EXCEPT ![run.srv].lock = FALSE]
             /\ UNCHANGED <<product, outer, sockSrv, stop, misled>>

\* vtm_socket_stream_srv_main_run.  rc is what the last turn left, and anything
\* when a stop came before the first turn; the datagram server's loop has no result
\* and its run returns VTM_OK.
Result(rc) == IF product = "dgram" THEN "ok" ELSE rc
LoopTurn(rc) == /\ At("loop") /\ Cur.running
                /\ run' = [run EXCEPT !.entered = TRUE, !.rc = Result(rc),
                                      !.pc = IF rc = "ok" THEN "loop" ELSE "drain"]
                /\ UNCHANGED <<product, outer, sockSrv, obj, stop, misled>>
LoopEnds(rc) == /\ At("loop") /\ ~Cur.running /\ (run.entered => rc = run.rc)
                /\ run' = [run EXCEPT !.pc = "drain", !.rc = Result(rc)]
                /\ UNCHANGED <<product, outer, sockSrv, obj, stop, misled>>
Drain == /\ At("drain") /\ Go("relock")
         /\ obj' = [obj EXCEPT ![run.srv].running = FALSE]
         /\ UNCHANGED <<product, outer, sockSrv, stop, misled>>
\* The clean-up of vtm_socket_stream_srv_run.
SrvRelock == /\ At("relock") /\ ~Cur.lock /\ Go("clean")
             /\ obj' = [obj EXCEPT ![run.srv].lock = TRUE]
             /\ UNCHANGED <<product, outer, sockSrv, stop, misled>>
Clean == /\ At("clean") /\ Go("returned")
         /\ obj' = [obj EXCEPT ![run.srv].listener = FALSE, ![run.srv].lock = FALSE]
         /\ misled' = (misled \/ run.rc # "ok")
         /\ UNCHANGED <<product, outer, sockSrv, stop>>

\* Mutant: the server is freed without taking stop_lock again.
RunRelock_Without == /\ At("returned") /\ run.rc = "ok" /\ Go("free")
                     /\ UNCHANGED <<product, outer, sockSrv, obj, stop, misled>>

\* "if run was successful, stop_lock was unlocked in server_ready callback"
RunRelock == /\ At("returned") /\ run.rc = "ok" /\ ~outer
             /\ outer' = TRUE /\ Go("free")
             /\ UNCHANGED <<product, sockSrv, obj, stop, misled>>
NoRelock == /\ At("returned") /\ run.rc # "ok" /\ Go("free")
            /\ UNCHANGED <<product, outer, sockSrv, obj, stop, misled>>
RunFree == /\ At("free")
           /\ obj' = [obj EXCEPT ![run.srv].live = FALSE]
           /\ sockSrv' = 0 /\ outer' = FALSE
           /\ run' = [run EXCEPT !.pc = "idle", !.entered = FALSE, !.rc = "none"]
           /\ UNCHANGED <<product, stop, misled>>

-----------------------------------------------------------------------------
(* A thread in stop.                                                       *)

Step(s, p) == stop' = [stop EXCEPT ![s].pc = p]

StopLock(s) == /\ stop[s].pc = "idle" /\ ~outer
               /\ outer' = TRUE /\ Step(s, "locked")
               /\ UNCHANGED <<product, sockSrv, obj, run, misled>>
\* The NM servers answer INVALID_STATE without a socket server; the HTTP server
\* tests its own pointer instead and follows a NULL pointer.
StopNone(s) ==
    /\ stop[s].pc = "locked" /\ sockSrv = 0
    /\ IF product # "http" THEN outer' = FALSE /\ Step(s, "invalid") ELSE Step(s, "fault") /\ UNCHANGED outer
    /\ UNCHANGED <<product, sockSrv, obj, run, misled>>
StopSrvLock(s) ==
    /\ stop[s].pc = "locked" /\ sockSrv # 0 /\ ~obj[sockSrv].lock
    /\ obj' = [obj EXCEPT ![sockSrv].lock = TRUE]
    /\ stop' = [stop EXCEPT ![s].pc = "inside", ![s].srv = sockSrv]
    /\ UNCHANGED <<product, outer, sockSrv, run, misled>>
\* vtm_socket_stream_srv_stop
StopSrv(s) ==
    /\ stop[s].pc = "inside"
    /\ obj' = [obj EXCEPT ![stop[s].srv].running = FALSE, ![stop[s].srv].lock = FALSE]
    /\ stop' = [stop EXCEPT ![s].pc = "leaving",
                            ![s].rc = IF obj[stop[s].srv].listener THEN "ok" ELSE "invalid"]
    /\ UNCHANGED <<product, outer, sockSrv, run, misled>>
StopUnlock(s) == /\ stop[s].pc = "leaving" /\ outer' = FALSE /\ Step(s, "done")
                 /\ UNCHANGED <<product, sockSrv, obj, run, misled>>

-----------------------------------------------------------------------------
WrapIdle ==
    /\ outer = FALSE /\ sockSrv = 0 /\ misled = FALSE
    /\ obj = [i \in 1 .. MaxRuns |-> [lock |-> FALSE, running |-> FALSE, listener |-> FALSE, live |-> FALSE]]
    /\ run = [pc |-> "idle", srv |-> 0, rc |-> "none", entered |-> FALSE]
    /\ stop = [s \in Stoppers |-> [pc |-> "idle", srv |-> 0, rc |-> "none"]]
WrapInit == product \in {"nm", "http", "dgram"} /\ WrapIdle

SetupSteps == {"socket", "prepare", "listener", "cons_mtx", "workers"}
WrapNext ==
    \/ RunLock \/ SrvLock \/ Setup \/ ServerReady \/ SrvUnlock \/ Drain \/ SrvRelock \/ Clean
    \/ RunRelock \/ NoRelock \/ RunFree
    \/ \E ok \in BOOLEAN : RunNew(ok)
    \/ \E step \in SetupSteps : SetupFails(step)
    \/ \E rc \in {"ok", "error"} : LoopTurn(rc) \/ LoopEnds(rc)
    \/ \E s \in Stoppers : StopLock(s) \/ StopNone(s) \/ StopSrvLock(s) \/ StopSrv(s) \/ StopUnlock(s)

WrapSpec == WrapInit /\ [][WrapNext]_wrapVars

-----------------------------------------------------------------------------
\* The threads that may believe they hold the wrapper's stop_lock.
RunHolds == \/ run.pc \in {"new", "locking", "setup", "ready", "free"}
            \/ At("returned") /\ run.rc # "ok"
StopHolds == {s \in Stoppers : stop[s].pc \in {"locked", "inside", "leaving", "fault"}}

\* As long as no run has failed after server_ready, or come back without an error
\* before it: stop_lock is held by at most one of the threads in run and stop, and
\* is taken exactly when one of them holds it; a thread in stop works on a socket
\* server that run has not freed; and a stop that was answered with VTM_OK has
\* reached the server it found: its running flag is never set again, so that run
\* leaves its loop (vtm_nm_stream_srv_stop, vtm_http_srv_stop).
StopReaches ==
    ~misled =>
      /\ \A s, t \in StopHolds : s = t
      /\ ~(RunHolds /\ StopHolds # {})
      /\ outer <=> RunHolds \/ StopHolds # {}
      /\ \A s \in Stoppers :
           /\ stop[s].pc = "inside" => obj[stop[s].srv].live /\ stop[s].srv = sockSrv
           /\ stop[s].rc = "ok" => ~obj[stop[s].srv].running
=============================================================================
