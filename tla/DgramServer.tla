---------------------------- MODULE DgramServer ----------------------------
(***************************************************************************)
(* The datagram server (vtm_socket_dgram_srv), run several times in a row  *)
(* on the same object, in direct mode (threads = 0) or with workers.       *)
(*                                                                         *)
(* The main thread receives datagrams and puts them into a bounded queue   *)
(* under dgrams_mtx; workers take them out.  Two condition variables,      *)
(* not_empty and not_full, connect them.  A step is the code between two   *)
(* points where another thread can see or change what it works on: `running`*)
(* is read and written without the mutex, so a worker that decided to wait *)
(* still holds it in a state of its own.  Datagrams are numbered in the    *)
(* order in which the main thread receives them.                           *)
(***************************************************************************)
EXTENDS Integers, Sequences, FiniteSets

CONSTANTS
    Workers,    \* the worker threads of a threaded run
    Limit,      \* dgrams_limit: opts->queue_limit, or 2 * threads when that is 0
    MaxDgrams,  \* bound: datagrams that arrive
    RunModes,   \* the mode of each call of run, in order: "direct", "threaded"
    Faults      \* "eintr", "epoll", "recv"

ASSUME DgramAssumption ==
    /\ Limit \in Nat \ {0} /\ MaxDgrams \in Nat
    /\ RunModes \in Seq({"direct", "threaded"})
    /\ Faults \subseteq {"eintr", "epoll", "recv"}

VARIABLES
    runs,       \* calls of run that have begun
    main,       \* program point of the thread that calls run
    running,    \* srv->running
    intr,       \* the listener's eventfd
    armed,      \* the server socket is armed in epoll
    inb,        \* datagrams in the socket's receive buffer
    sent,       \* datagrams that have arrived so far
    recvd,      \* datagrams received so far; the last one's number
    entry,      \* the datagram in main's entry; 0 when there is none
    dgrams,     \* srv->dgrams, by number
    count,      \* srv->dgrams_count
    last,       \* ghost: the datagram a callback got last, in queue order
    synch,      \* the mutex and conditions: "null", "valid", "freed"
    mtx,        \* the holder of dgrams_mtx
    wpc, wentry \* each worker's program point and datagram

vars == <<runs, main, running, intr, armed, inb, sent, recvd, entry, dgrams,
          count, last, synch, mtx, wpc, wentry>>

netVars  == <<intr, armed, inb, sent>>
queue    == <<dgrams, count>>
workVars == <<wpc, wentry>>

MainPcs ==
    { "idle", "loop", "listen", "recv", "process", "enqueue", "notfull",
      "rearm", "finish", "interrupt", "join", "clean" }

WorkerPcs == {"off", "top", "lock", "prewait", "wait", "process", "end"}

Mode == RunModes[runs]

\* vtm_cond_signal_all on dgrams_cond_not_empty.
SignalNotEmpty(pc) == [w \in Workers |-> IF pc[w] = "wait" THEN "lock" ELSE pc[w]]

Init ==
    /\ runs = 0 /\ main = "idle" /\ running = FALSE
    /\ intr = FALSE /\ armed = FALSE /\ inb = 0 /\ sent = 0
    /\ recvd = 0 /\ entry = 0
    /\ dgrams = <<>> /\ count = 0 /\ last = 0
    /\ synch = "null" /\ mtx = "free"
    /\ wpc = [w \in Workers |-> "off"]
    /\ wentry = [w \in Workers |-> 0]

-----------------------------------------------------------------------------
(* vtm_socket_dgram_srv_run *)

\* Everything up to main_run, under stop_lock: a new socket and listener, the
\* queue and its mutex and conditions, running, the workers.
Run ==
    /\ main = "idle" /\ runs < Len(RunModes)
    /\ runs' = runs + 1
    /\ LET threaded == RunModes[runs + 1] = "threaded" IN
        /\ synch' = IF threaded THEN "valid" ELSE synch
        /\ dgrams' = IF threaded THEN <<>> ELSE dgrams
        /\ wpc' = [w \in Workers |-> IF threaded THEN "top" ELSE "off"]
    /\ running' = TRUE /\ intr' = FALSE /\ armed' = TRUE /\ inb' = 0
    /\ main' = "loop"
    /\ UNCHANGED <<sent, recvd, entry, count, last, mtx, wentry>>

\* while (running)
MainLoop ==
    /\ main = "loop"
    /\ main' = IF running THEN "listen" ELSE "finish"
    /\ UNCHANGED <<runs, running, netVars, recvd, entry, queue, last, synch, mtx, workVars>>

\* vtm_socket_listener_run with room for one event: the eventfd, which makes
\* an empty list, or the socket, which is disarmed.
MainListen ==
    /\ main = "listen"
    /\ \/ /\ intr
          /\ intr' = FALSE /\ main' = "loop" /\ UNCHANGED armed
       \/ /\ armed /\ inb > 0
          /\ armed' = FALSE /\ main' = "recv" /\ UNCHANGED intr
    /\ UNCHANGED <<runs, running, inb, sent, recvd, entry, queue, last, synch, mtx, workVars>>

\* epoll_wait interrupted by a signal: an empty list too.
MainInterrupted ==
    /\ main = "listen" /\ "eintr" \in Faults
    /\ main' = "loop"
    /\ UNCHANGED <<runs, running, netVars, recvd, entry, queue, last, synch, mtx, workVars>>

\* The listener fails, or reports something else than a readable socket.
MainListenFails ==
    /\ main = "listen" /\ "epoll" \in Faults
    /\ main' = "finish"
    /\ UNCHANGED <<runs, running, netVars, recvd, entry, queue, last, synch, mtx, workVars>>

MainRecv ==
    /\ main = "recv"
    /\ inb' = inb - 1
    /\ recvd' = recvd + 1 /\ entry' = recvd + 1
    /\ main' = IF Mode = "direct" THEN "process" ELSE "enqueue"
    /\ UNCHANGED <<runs, running, intr, armed, sent, queue, last, synch, mtx, workVars>>

\* A failing recv ends the server.
MainRecvFails ==
    /\ main = "recv" /\ "recv" \in Faults
    /\ main' = "finish"
    /\ UNCHANGED <<runs, running, netVars, recvd, entry, queue, last, synch, mtx, workVars>>

\* Direct mode: the callback runs in the main thread, on its only entry.
MainProcess ==
    /\ main = "process"
    /\ last' = entry /\ entry' = 0
    /\ main' = "rearm"
    /\ UNCHANGED <<runs, running, netVars, recvd, queue, synch, mtx, workVars>>

\* Mutant: the queue is full only when the limit is exceeded.
Enqueue_OffByOne ==
    /\ main = "enqueue" /\ mtx = "free"
    /\ count <= Limit
    /\ dgrams' = Append(dgrams, entry) /\ count' = count + 1
    /\ wpc' = SignalNotEmpty(wpc)
    /\ entry' = 0 /\ main' = "rearm"
    /\ UNCHANGED <<runs, running, netVars, recvd, last, synch, mtx, wentry>>

\* Mutant: the workers are not told about the new datagram.
Enqueue_NoSignal ==
    /\ main = "enqueue" /\ mtx = "free"
    /\ count < Limit
    /\ dgrams' = Append(dgrams, entry) /\ count' = count + 1
    /\ entry' = 0 /\ main' = "rearm"
    /\ UNCHANGED <<runs, running, netVars, recvd, last, synch, mtx, workVars>>

\* enqueue_dgram with room in the queue; main gets a new entry.
Enqueue ==
    /\ main = "enqueue" /\ mtx = "free"
    /\ count < Limit
    /\ dgrams' = Append(dgrams, entry) /\ count' = count + 1
    /\ wpc' = SignalNotEmpty(wpc)
    /\ entry' = 0 /\ main' = "rearm"
    /\ UNCHANGED <<runs, running, netVars, recvd, last, synch, mtx, wentry>>

\* enqueue_dgram with a full queue: drop the datagram when the server stops,
\* else wait for not_full.
EnqueueFull ==
    /\ main = "enqueue" /\ mtx = "free"
    /\ count >= Limit
    /\ main' = IF running THEN "notfull" ELSE "rearm"
    /\ entry' = IF running THEN entry ELSE 0
    /\ UNCHANGED <<runs, running, netVars, recvd, queue, last, synch, mtx, workVars>>

MainRearm ==
    /\ main = "rearm"
    /\ armed' = TRUE /\ main' = "loop"
    /\ UNCHANGED <<runs, running, intr, inb, sent, recvd, entry, queue, last,
                   synch, mtx, workVars>>

Finish ==
    /\ main = "finish"
    /\ running' = FALSE /\ main' = "interrupt"
    /\ UNCHANGED <<runs, netVars, recvd, entry, queue, last, synch, mtx, workVars>>

\* workers_interrupt: the mutex is not held.
WorkersInterrupt ==
    /\ main = "interrupt"
    /\ wpc' = IF synch = "null" THEN wpc ELSE SignalNotEmpty(wpc)
    /\ main' = "join"
    /\ UNCHANGED <<runs, running, netVars, recvd, entry, queue, last, synch, mtx, wentry>>

\* Mutant: run does not wait for its workers.
WorkersJoin_NoWait ==
    /\ main = "join"
    /\ main' = "clean"
    /\ UNCHANGED <<runs, running, netVars, recvd, entry, queue, last, synch, mtx, workVars>>

WorkersJoin ==
    /\ main = "join"
    /\ Mode = "direct" \/ \A w \in Workers : wpc[w] = "end"
    /\ main' = "clean"
    /\ UNCHANGED <<runs, running, netVars, recvd, entry, queue, last, synch, mtx, workVars>>

\* The clean-up of run, under stop_lock.  dgrams_count keeps its value.
Clean ==
    /\ main = "clean"
    /\ dgrams' = IF Mode = "threaded" THEN <<>> ELSE dgrams
    /\ synch' = IF synch = "null" THEN "null" ELSE "freed"
    /\ armed' = FALSE /\ intr' = FALSE /\ inb' = 0
    /\ main' = "idle"
    /\ UNCHANGED <<runs, running, sent, recvd, entry, count, last, mtx, workVars>>

\* vtm_socket_dgram_srv_stop; without a listener it only clears running.
Stop ==
    /\ running' = FALSE
    /\ intr' = (intr \/ main # "idle")
    /\ UNCHANGED <<runs, main, armed, inb, sent, recvd, entry, queue, last, synch, mtx,
                   workVars>>

-----------------------------------------------------------------------------
(* vtm_socket_dgram_srv_worker_run *)

WorkerTop(w) ==
    /\ wpc[w] = "top"
    /\ wpc' = [wpc EXCEPT ![w] = IF running THEN "lock" ELSE "end"]
    /\ UNCHANGED <<runs, main, running, netVars, recvd, entry, queue, last, synch,
                   mtx, wentry>>

\* Mutant: the newest datagram is taken first.
WorkerPoll_Newest(w) ==
    /\ wpc[w] = "lock" /\ mtx = "free" /\ dgrams # <<>>
    /\ wentry' = [wentry EXCEPT ![w] = dgrams[Len(dgrams)]]
    /\ last' = dgrams[Len(dgrams)]
    /\ dgrams' = SubSeq(dgrams, 1, Len(dgrams) - 1) /\ count' = count - 1
    /\ main' = IF main = "notfull" THEN "enqueue" ELSE main
    /\ wpc' = [wpc EXCEPT ![w] = "process"]
    /\ UNCHANGED <<runs, running, netVars, recvd, entry, synch, mtx>>

\* Mutant: not_full is not signalled.
WorkerPoll_NoSignal(w) ==
    /\ wpc[w] = "lock" /\ mtx = "free" /\ dgrams # <<>>
    /\ wentry' = [wentry EXCEPT ![w] = Head(dgrams)]
    /\ last' = Head(dgrams)
    /\ dgrams' = Tail(dgrams) /\ count' = count - 1
    /\ wpc' = [wpc EXCEPT ![w] = "process"]
    /\ UNCHANGED <<runs, main, running, netVars, recvd, entry, synch, mtx>>

\* Take the oldest datagram and signal not_full.
WorkerPoll(w) ==
    /\ wpc[w] = "lock" /\ mtx = "free" /\ dgrams # <<>>
    /\ wentry' = [wentry EXCEPT ![w] = Head(dgrams)]
    /\ last' = Head(dgrams)
    /\ dgrams' = Tail(dgrams) /\ count' = count - 1
    /\ main' = IF main = "notfull" THEN "enqueue" ELSE main
    /\ wpc' = [wpc EXCEPT ![w] = "process"]
    /\ UNCHANGED <<runs, running, netVars, recvd, entry, synch, mtx>>

\* Queue empty: leave when the server stops, else go on to wait.
WorkerEmpty(w) ==
    /\ wpc[w] = "lock" /\ mtx = "free" /\ dgrams = <<>>
    /\ wpc' = [wpc EXCEPT ![w] = IF running THEN "prewait" ELSE "end"]
    /\ mtx' = IF running THEN w ELSE mtx
    /\ UNCHANGED <<runs, main, running, netVars, recvd, entry, queue, last, synch, wentry>>

\* vtm_cond_wait on not_empty releases the mutex.
WorkerWait(w) ==
    /\ wpc[w] = "prewait"
    /\ wpc' = [wpc EXCEPT ![w] = "wait"] /\ mtx' = "free"
    /\ UNCHANGED <<runs, main, running, netVars, recvd, entry, queue, last, synch, wentry>>

\* process_dgram: the dgram_recv callback, then the entry is freed.
WorkerProcess(w) ==
    /\ wpc[w] = "process"
    /\ wpc' = [wpc EXCEPT ![w] = "top"]
    /\ wentry' = [wentry EXCEPT ![w] = 0]
    /\ UNCHANGED <<runs, main, running, netVars, recvd, entry, queue, last, synch, mtx>>

\* Mutant: "if" in place of "while" around cond_wait: a woken worker goes on
\* with an empty queue.
SpuriousWake_NoLoop ==
    /\ \/ /\ main = "notfull" /\ main' = "enqueue" /\ UNCHANGED wpc
       \/ /\ \E w \in Workers : wpc[w] = "wait" /\ wpc' = [wpc EXCEPT ![w] = "process"]
          /\ UNCHANGED main
    /\ UNCHANGED <<runs, running, netVars, recvd, entry, queue, last, synch, mtx, wentry>>

\* A condition variable may wake a thread without a signal.
SpuriousWake ==
    /\ \/ /\ main = "notfull" /\ main' = "enqueue" /\ UNCHANGED wpc
       \/ /\ \E w \in Workers : wpc[w] = "wait" /\ wpc' = [wpc EXCEPT ![w] = "lock"]
          /\ UNCHANGED main
    /\ UNCHANGED <<runs, running, netVars, recvd, entry, queue, last, synch, mtx, wentry>>

\* A datagram reaches the socket of the current run.
Arrive ==
    /\ main # "idle" /\ sent < MaxDgrams
    /\ inb' = inb + 1 /\ sent' = sent + 1
    /\ UNCHANGED <<runs, main, running, intr, armed, recvd, entry, queue, last, synch,
                   mtx, workVars>>

-----------------------------------------------------------------------------
MainNext ==
    \/ MainLoop \/ MainListen \/ MainInterrupted \/ MainListenFails
    \/ MainRecv \/ MainRecvFails \/ MainProcess \/ Enqueue \/ EnqueueFull
    \/ MainRearm \/ Finish \/ WorkersInterrupt \/ WorkersJoin \/ Clean

WorkerNext(w) ==
    WorkerTop(w) \/ WorkerPoll(w) \/ WorkerEmpty(w) \/ WorkerWait(w) \/ WorkerProcess(w)

Next ==
    \/ Run \/ MainNext
    \/ \E w \in Workers : WorkerNext(w)
    \/ Stop \/ SpuriousWake \/ Arrive

Spec == Init /\ [][Next]_vars

\* No thread is starved of the mutex or of the processor.
FairSpec ==
    /\ Spec /\ SF_vars(MainNext)
    /\ \A w \in Workers : SF_vars(WorkerNext(w))

-----------------------------------------------------------------------------
(* Properties *)

\* Every variable keeps its shape; above all a worker that processes has a
\* datagram, and main has one exactly while it passes it on.
TypeOK ==
    /\ runs \in 0 .. Len(RunModes) /\ main \in MainPcs /\ (main # "idle" => runs > 0)
    /\ running \in BOOLEAN /\ intr \in BOOLEAN /\ armed \in BOOLEAN
    /\ inb \in Nat /\ sent \in Nat /\ recvd \in Nat /\ last \in Nat
    /\ dgrams \in Seq(Nat \ {0}) /\ count \in Nat
    /\ entry \in Nat /\ (entry > 0 <=> main \in {"process", "enqueue", "notfull"})
    /\ main = "recv" => inb > 0
    /\ synch \in {"null", "valid", "freed"}
    /\ mtx \in Workers \cup {"free"}
    /\ wpc \in [Workers -> WorkerPcs] /\ wentry \in [Workers -> Nat]
    /\ \A w \in Workers : wpc[w] = "process" => wentry[w] > 0

\* The queue never holds more than dgrams_limit datagrams, over any number of
\* runs: dgrams_count, which enqueue_dgram compares with the limit, is never
\* less than the length of the queue nor more than the limit.
QueueBound == Len(dgrams) <= count /\ count <= Limit

\* Datagrams are handed out in the order of their arrival and each at most
\* once: the queue is sorted, everything in it is younger than what was taken
\* last and older than what main holds, and no two workers share an entry.
HandedOutInOrder ==
    /\ \A i, j \in DOMAIN dgrams : i < j => dgrams[i] < dgrams[j]
    /\ \A i \in DOMAIN dgrams : last < dgrams[i] /\ dgrams[i] <= recvd
    /\ entry > 0 => \A i \in DOMAIN dgrams : dgrams[i] < entry
    /\ \A w \in Workers : wentry[w] <= last
    /\ \A v, w \in Workers : v # w /\ wentry[v] > 0 => wentry[v] # wentry[w]

\* Nobody uses the mutex or the conditions after vtm_mutex_free and
\* vtm_cond_free, neither a worker nor the interrupt at the end of run.
SynchAlive ==
    /\ main \in {"interrupt", "join", "clean"} => synch # "freed"
    /\ \A w \in Workers : wpc[w] \notin {"off", "end"} => synch = "valid"

\* A queued datagram is taken while the server runs.
QueueServed ==
    \A d \in 1 .. MaxDgrams :
        (\E i \in DOMAIN dgrams : dgrams[i] = d)
            ~> (\A i \in DOMAIN dgrams : dgrams[i] # d) \/ ~running

\* A full queue only delays main while the server runs.
BackpressureEnds ==
    (main \in {"enqueue", "notfull"})
        ~> (main \notin {"enqueue", "notfull"} \/ ~running)

\* The header's word on stop, "This method blocks until the server is
\* gracefully shutdown", as far as the main thread's loop is concerned: after
\* a stop, main_run comes to its end.
StopLeavesLoop ==
    (~running) ~> (main \in {"idle", "interrupt", "join", "clean"} \/ running)

=============================================================================
