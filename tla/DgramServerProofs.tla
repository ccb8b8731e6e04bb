-------------------------- MODULE DgramServerProofs --------------------------
(***************************************************************************)
(* Theorems about the datagram server, for any number of workers, any      *)
(* queue limit, any number of datagrams and any sequence of runs on one    *)
(* server object.                                                          *)
(***************************************************************************)
EXTENDS DgramServer, TLAPS

USE DEF netVars, queue, workVars

\* What the type invariant says of main and its run, of the queue and of the
\* workers, as separate parts of TypeOK.
MainOK ==
    /\ runs \in 0 .. Len(RunModes) /\ main \in MainPcs /\ (main # "idle" => runs > 0)
    /\ running \in BOOLEAN /\ intr \in BOOLEAN /\ armed \in BOOLEAN
    /\ inb \in Nat /\ sent \in Nat /\ recvd \in Nat
    /\ entry \in Nat /\ (entry > 0 <=> main \in {"process", "enqueue", "notfull"})
    /\ main = "recv" => inb > 0
    /\ synch \in {"null", "valid", "freed"}

QueueOK ==
    /\ dgrams \in Seq(Nat \ {0}) /\ count \in Nat /\ last \in Nat
    /\ QueueBound

WorkersOK ==
    /\ mtx \in Workers \cup {"free"}
    /\ wpc \in [Workers -> WorkerPcs] /\ wentry \in [Workers -> Nat]
    /\ \A w \in Workers : wpc[w] = "process" => wentry[w] > 0

TypeInv == MainOK /\ QueueOK /\ WorkersOK

-----------------------------------------------------------------------------
(* Type correctness and the bound of the queue are inductive together: the *)
(* counter stays a natural number because it covers the queue's length.    *)

LEMMA SignalType ==
    ASSUME WorkersOK
    PROVE  /\ SignalNotEmpty(wpc) \in [Workers -> WorkerPcs]
           /\ \A w \in Workers : SignalNotEmpty(wpc)[w] = "process" => wpc[w] = "process"
BY DEF WorkersOK, SignalNotEmpty, WorkerPcs

LEMMA RunsType == Len(RunModes) \in Nat
BY DgramAssumption

LEMMA TypeInvInit == Init => TypeInv
<1> SUFFICES ASSUME Init PROVE TypeInv
  OBVIOUS
<1>1. MainOK
  <2>1. runs = 0 /\ main = "idle" /\ inb = 0 /\ sent = 0 /\ recvd = 0 /\ entry = 0
    BY DEF Init
  <2>2. running \in BOOLEAN /\ intr \in BOOLEAN /\ armed \in BOOLEAN /\ synch = "null"
    BY DEF Init
  <2>3. 0 \in 0 .. Len(RunModes)
    BY RunsType
  <2>4. QED
    BY <2>1, <2>2, <2>3 DEF MainOK, MainPcs
<1>2. QueueOK
  BY DgramAssumption DEF Init, QueueOK, QueueBound
<1>3. WorkersOK
  BY DEF Init, WorkersOK, WorkerPcs
<1>4. QED
  BY <1>1, <1>2, <1>3 DEF TypeInv

LEMMA MainTypes ==
    ASSUME TypeInv, Run \/ MainNext
    PROVE  TypeInv'
<1> USE DgramAssumption DEF TypeInv
<1>1. CASE Run
  <2>1. MainOK'
    <3>1. running' \in BOOLEAN /\ intr' \in BOOLEAN /\ armed' \in BOOLEAN
      BY <1>1 DEF Run
    <3>2. main' = "loop" /\ runs' \in 1 .. Len(RunModes) /\ inb' = 0
      BY <1>1, RunsType DEF Run, MainOK
    <3>3. synch' \in {"null", "valid", "freed"}
      BY <1>1 DEF Run, MainOK
    <3>4. entry = 0 /\ UNCHANGED <<sent, recvd, entry>>
      BY <1>1 DEF Run, MainOK
    <3>5. QED
      BY <3>1, <3>2, <3>3, <3>4, RunsType DEF MainOK, MainPcs
  <2>2. QueueOK'
    BY <1>1 DEF Run, QueueOK, QueueBound
  <2>3. WorkersOK'
    BY <1>1 DEF Run, WorkersOK, WorkerPcs
  <2>4. QED
    BY <2>1, <2>2, <2>3
<1>2. CASE MainLoop \/ MainListen \/ MainInterrupted \/ MainListenFails
  <2>1. MainOK'
    BY <1>2 DEF MainLoop, MainListen, MainInterrupted, MainListenFails, MainOK, MainPcs
  <2>2. QueueOK' /\ WorkersOK'
    BY <1>2 DEF MainLoop, MainListen, MainInterrupted, MainListenFails, QueueOK,
       QueueBound, WorkersOK
  <2>3. QED
    BY <2>1, <2>2
<1>3. CASE MainRecv \/ MainRecvFails \/ MainProcess
  <2>1. MainOK'
    BY <1>3 DEF MainRecv, MainRecvFails, MainProcess, MainOK, MainPcs
  <2>2. QueueOK'
    BY <1>3 DEF MainRecv, MainRecvFails, MainProcess, MainOK, QueueOK, QueueBound
  <2>3. WorkersOK'
    BY <1>3 DEF MainRecv, MainRecvFails, MainProcess, WorkersOK
  <2>4. QED
    BY <2>1, <2>2, <2>3
<1>4. CASE Enqueue
  <2>1. MainOK'
    BY <1>4 DEF Enqueue, MainOK, MainPcs
  <2>2. entry \in Nat \ {0}
    BY <1>4 DEF Enqueue, MainOK
  <2>3. QueueOK'
    BY <1>4, <2>2 DEF Enqueue, QueueOK, QueueBound
  <2>4. WorkersOK'
    BY <1>4, SignalType DEF Enqueue, WorkersOK
  <2>5. QED
    BY <2>1, <2>3, <2>4
<1>5. CASE EnqueueFull \/ MainRearm \/ Finish \/ WorkersJoin
  <2>1. CASE EnqueueFull
    BY <2>1 DEF EnqueueFull, MainOK, MainPcs, QueueOK, QueueBound, WorkersOK
  <2>2. CASE MainRearm
    BY <2>2 DEF MainRearm, MainOK, MainPcs, QueueOK, QueueBound, WorkersOK
  <2>3. CASE Finish
    BY <2>3 DEF Finish, MainOK, MainPcs, QueueOK, QueueBound, WorkersOK
  <2>4. CASE WorkersJoin
    BY <2>4 DEF WorkersJoin, MainOK, MainPcs, QueueOK, QueueBound, WorkersOK
  <2>5. QED
    BY <1>5, <2>1, <2>2, <2>3, <2>4
<1>6. CASE WorkersInterrupt
  <2>1. MainOK' /\ QueueOK'
    BY <1>6 DEF WorkersInterrupt, MainOK, MainPcs, QueueOK, QueueBound
  <2>2. WorkersOK'
    BY <1>6, SignalType DEF WorkersInterrupt, WorkersOK
  <2>3. QED
    BY <2>1, <2>2
<1>7. CASE Clean
  <2>1. MainOK' /\ WorkersOK'
    BY <1>7 DEF Clean, MainOK, MainPcs, WorkersOK
  <2>2. QueueOK'
    BY <1>7 DEF Clean, QueueOK, QueueBound
  <2>3. QED
    BY <2>1, <2>2
<1>8. QED
  BY <1>1, <1>2, <1>3, <1>4, <1>5, <1>6, <1>7 DEF MainNext

LEMMA WorkerTypes ==
    ASSUME TypeInv, NEW w \in Workers, WorkerNext(w)
    PROVE  TypeInv'
<1> USE DEF TypeInv
<1>1. CASE WorkerPoll(w)
  <2>1. MainOK'
    BY <1>1 DEF WorkerPoll, MainOK, MainPcs
  <2>2. /\ Head(dgrams) \in Nat \ {0} /\ Tail(dgrams) \in Seq(Nat \ {0})
        /\ Len(dgrams) > 0 /\ Len(Tail(dgrams)) = Len(dgrams) - 1
    BY <1>1 DEF WorkerPoll, QueueOK
  <2>3. QueueOK'
    BY <1>1, <2>2, DgramAssumption DEF WorkerPoll, QueueOK, QueueBound
  <2>4. WorkersOK'
    BY <1>1, <2>2 DEF WorkerPoll, WorkersOK, WorkerPcs
  <2>5. QED
    BY <2>1, <2>3, <2>4
<1>2. CASE WorkerTop(w) \/ WorkerEmpty(w) \/ WorkerWait(w) \/ WorkerProcess(w)
  <2>1. MainOK' /\ QueueOK'
    BY <1>2, SMTT(60) DEF WorkerTop, WorkerEmpty, WorkerWait, WorkerProcess, MainOK, QueueOK,
       QueueBound
  <2>2. WorkersOK'
    BY <1>2 DEF WorkerTop, WorkerEmpty, WorkerWait, WorkerProcess, WorkersOK, WorkerPcs
  <2>3. QED
    BY <2>1, <2>2
<1>3. QED
  BY <1>1, <1>2 DEF WorkerNext

LEMMA TypeInvStep == TypeInv /\ [Next]_vars => TypeInv'
<1> SUFFICES ASSUME TypeInv, [Next]_vars PROVE TypeInv'
  OBVIOUS
<1>1. CASE Run \/ MainNext
  BY <1>1, MainTypes
<1>2. ASSUME NEW w \in Workers, WorkerNext(w) PROVE TypeInv'
  BY <1>2, WorkerTypes
<1>3. CASE Stop \/ Arrive
  <2>1. CASE Stop
    <3>1. intr' \in BOOLEAN
      BY <2>1 DEF Stop
    <3>2. QED
      BY <2>1, <3>1 DEF Stop, TypeInv, MainOK, QueueOK, QueueBound, WorkersOK
  <2>2. CASE Arrive
    BY <2>2 DEF Arrive, TypeInv, MainOK, QueueOK, QueueBound, WorkersOK
  <2>3. QED
    BY <1>3, <2>1, <2>2
<1>4. CASE SpuriousWake
  <2>1. MainOK' /\ QueueOK'
    BY <1>4 DEF SpuriousWake, TypeInv, MainOK, MainPcs, QueueOK, QueueBound
  <2>2. WorkersOK'
    BY <1>4 DEF SpuriousWake, TypeInv, WorkersOK, WorkerPcs
  <2>3. QED
    BY <2>1, <2>2 DEF TypeInv
<1>5. CASE UNCHANGED vars
  BY <1>5 DEF vars, TypeInv, MainOK, QueueOK, QueueBound, WorkersOK
<1>6. QED
  BY <1>1, <1>2, <1>3, <1>4, <1>5 DEF Next

LEMMA TypeInvHolds == Spec => []TypeInv
<1>1. QED
  BY TypeInvInit, TypeInvStep, PTL DEF Spec

\* The shape of every variable of the datagram server, whatever the sequence
\* of direct and threaded runs: a worker in process_dgram has a datagram, and
\* main holds one exactly while it passes it on.
THEOREM DgramTypes == Spec => []TypeOK
<1>1. TypeInv => TypeOK
  BY DEF TypeInv, MainOK, QueueOK, WorkersOK, TypeOK
<1>2. QED
  BY <1>1, TypeInvHolds, PTL

\* enqueue_dgram keeps the queue within dgrams_limit, for every limit and
\* every number of workers and runs, although clean-up forgets to reset
\* dgrams_count.
THEOREM DgramQueueBound == Spec => []QueueBound
<1>1. TypeInv => QueueBound
  BY DEF TypeInv, QueueOK
<1>2. QED
  BY <1>1, TypeInvHolds, PTL

-----------------------------------------------------------------------------
(* The order in which datagrams are handed out.                            *)
(*                                                                         *)
(* HandedOutInOrder is inductive once it is known which datagram main may  *)
(* hold and that the queue is used by threaded runs only.                  *)

Sorted == \A i, j \in DOMAIN dgrams : i < j => dgrams[i] < dgrams[j]

Younger ==
    /\ \A i \in DOMAIN dgrams : last < dgrams[i] /\ dgrams[i] <= recvd
    /\ entry > 0 => \A i \in DOMAIN dgrams : dgrams[i] < entry
    /\ last <= recvd /\ entry <= recvd
    /\ entry > 0 => last < entry

Owners ==
    /\ \A w \in Workers : wentry[w] <= last
    /\ \A v, w \in Workers : v # w /\ wentry[v] > 0 => wentry[v] # wentry[w]

\* Only threaded runs use the queue, and each leaves it empty.
QueueUse ==
    /\ main = "idle" => dgrams = <<>>
    /\ main # "idle" /\ Mode = "direct" => dgrams = <<>>
    /\ main = "process" => Mode = "direct"
    /\ main \in {"enqueue", "notfull"} => Mode # "direct"

OrderInv == Sorted /\ Younger /\ Owners /\ QueueUse

LEMMA OrderInit == Init => OrderInv
BY DEF Init, OrderInv, Sorted, Younger, Owners, QueueUse

\* Steps that leave the datagrams where they are and main in its run.
LEMMA OrderFrame ==
    ASSUME OrderInv, UNCHANGED <<dgrams, last, wentry, recvd, entry, runs>>,
           main' # "idle", main # "idle",
           main' = "process" => main = "process",
           main' \in {"enqueue", "notfull"} => main \in {"enqueue", "notfull"}
    PROVE  OrderInv'
<1>1. Sorted' /\ Younger' /\ Owners'
  BY DEF OrderInv, Sorted, Younger, Owners
<1>2. QueueUse'
  BY DEF OrderInv, QueueUse, Mode
<1>3. QED
  BY <1>1, <1>2 DEF OrderInv

LEMMA MainOrder ==
    ASSUME TypeInv, OrderInv, Run \/ MainNext
    PROVE  OrderInv'
<1>1. CASE Run
  <2>1. dgrams = <<>> /\ dgrams' = <<>>
    BY <1>1 DEF Run, OrderInv, QueueUse
  <2>2. UNCHANGED <<last, wentry, recvd, entry>> /\ main' = "loop"
    BY <1>1 DEF Run
  <2>3. QED
    BY <2>1, <2>2 DEF OrderInv, Sorted, Younger, Owners, QueueUse
<1>2. CASE MainLoop \/ MainListen \/ MainInterrupted \/ MainListenFails \/ MainRecvFails
            \/ MainRearm \/ Finish \/ WorkersInterrupt \/ WorkersJoin
  BY <1>2, OrderFrame DEF MainLoop, MainListen, MainInterrupted, MainListenFails,
     MainRecvFails, MainRearm, Finish, WorkersInterrupt, WorkersJoin
<1>3. CASE MainRecv
  <2>1. /\ UNCHANGED <<dgrams, last, wentry, runs>>
        /\ recvd' = recvd + 1 /\ entry' = recvd + 1 /\ recvd \in Nat
        /\ main = "recv" /\ main' = IF Mode = "direct" THEN "process" ELSE "enqueue"
    BY <1>3 DEF MainRecv, TypeInv, MainOK
  <2>2. Sorted' /\ Owners'
    BY <2>1 DEF OrderInv, Sorted, Owners
  <2>3. Younger'
    BY <2>1 DEF OrderInv, Younger, TypeInv, QueueOK
  <2>4. QueueUse'
    BY <2>1 DEF OrderInv, QueueUse, Mode
  <2>5. QED
    BY <2>2, <2>3, <2>4 DEF OrderInv
<1>4. CASE MainProcess
  <2>1. /\ dgrams = <<>> /\ UNCHANGED <<dgrams, wentry, recvd, runs>>
        /\ last' = entry /\ entry' = 0 /\ main' = "rearm" /\ main # "idle"
        /\ last < entry /\ entry <= recvd
    BY <1>4 DEF MainProcess, OrderInv, QueueUse, Younger, TypeInv, MainOK
  <2>2. Sorted' /\ Younger'
    BY <2>1 DEF Sorted, Younger, TypeInv, MainOK
  <2>3. Owners'
    BY <2>1 DEF OrderInv, Owners, TypeInv, MainOK, QueueOK, WorkersOK
  <2>4. QueueUse'
    BY <2>1 DEF QueueUse, Mode
  <2>5. QED
    BY <2>2, <2>3, <2>4 DEF OrderInv
<1>5. CASE Enqueue
  <2>1. /\ dgrams' = Append(dgrams, entry) /\ entry' = 0 /\ main' = "rearm"
        /\ UNCHANGED <<last, wentry, recvd, runs>> /\ main = "enqueue" /\ entry > 0
    BY <1>5 DEF Enqueue, TypeInv, MainOK
  <2>2. /\ DOMAIN dgrams' = 1 .. (Len(dgrams) + 1) /\ DOMAIN dgrams = 1 .. Len(dgrams)
        /\ Len(dgrams) \in Nat /\ dgrams'[Len(dgrams) + 1] = entry
        /\ \A i \in DOMAIN dgrams : dgrams'[i] = dgrams[i]
    BY <2>1 DEF TypeInv, QueueOK, MainOK
  <2>3. \A i \in DOMAIN dgrams : dgrams[i] < entry
    BY <2>1 DEF OrderInv, Younger
  <2>4. Sorted'
    BY <2>2, <2>3 DEF OrderInv, Sorted
  <2>5. last < entry /\ entry <= recvd
    BY <2>1 DEF OrderInv, Younger
  <2>6. Younger'
    BY <2>1, <2>2, <2>5 DEF OrderInv, Younger, TypeInv, MainOK
  <2>7. Owners' /\ QueueUse'
    BY <2>1 DEF OrderInv, Owners, QueueUse, Mode
  <2>8. QED
    BY <2>4, <2>6, <2>7 DEF OrderInv
<1>6. CASE EnqueueFull
  <2>1. /\ UNCHANGED <<dgrams, last, wentry, recvd, runs>> /\ main = "enqueue"
        /\ \/ main' = "notfull" /\ entry' = entry
           \/ main' = "rearm" /\ entry' = 0
    BY <1>6 DEF EnqueueFull
  <2>2. Sorted' /\ Owners'
    BY <2>1 DEF OrderInv, Sorted, Owners
  <2>3. Younger'
    BY <2>1 DEF OrderInv, Younger, TypeInv, MainOK
  <2>4. QueueUse'
    BY <2>1 DEF OrderInv, QueueUse, Mode
  <2>5. QED
    BY <2>2, <2>3, <2>4 DEF OrderInv
<1>7. CASE Clean
  <2>1. /\ dgrams' = <<>> /\ UNCHANGED <<last, wentry, recvd, entry>> /\ main' = "idle"
    <3>1. Mode = "direct" \/ Mode = "threaded"
      BY <1>7, DgramAssumption DEF Clean, Mode, TypeInv, MainOK
    <3>2. QED
      BY <1>7, <3>1 DEF Clean, OrderInv, QueueUse
  <2>2. QED
    BY <2>1 DEF OrderInv, Sorted, Younger, Owners, QueueUse
<1>8. QED
  BY <1>1, <1>2, <1>3, <1>4, <1>5, <1>6, <1>7 DEF MainNext

LEMMA WorkerOrder ==
    ASSUME TypeInv, OrderInv, NEW w \in Workers, WorkerNext(w)
    PROVE  OrderInv'
<1>1. CASE WorkerPoll(w)
  <2>1. /\ dgrams' = Tail(dgrams) /\ dgrams # <<>> /\ last' = Head(dgrams)
        /\ wentry' = [wentry EXCEPT ![w] = Head(dgrams)]
        /\ UNCHANGED <<recvd, entry, runs>>
        /\ main' = IF main = "notfull" THEN "enqueue" ELSE main
    BY <1>1 DEF WorkerPoll
  <2>2. /\ Len(dgrams) \in Nat \ {0} /\ DOMAIN dgrams = 1 .. Len(dgrams)
        /\ DOMAIN dgrams' = 1 .. (Len(dgrams) - 1) /\ Head(dgrams) = dgrams[1]
        /\ \A i \in DOMAIN dgrams' : dgrams'[i] = dgrams[i + 1]
        /\ \A i \in DOMAIN dgrams : dgrams[i] \in Nat
    BY <2>1 DEF TypeInv, QueueOK
  <2>3. last < Head(dgrams) /\ Head(dgrams) <= recvd /\ Head(dgrams) \in Nat
    BY <2>2 DEF OrderInv, Younger
  <2>4. Sorted'
    BY <2>2 DEF OrderInv, Sorted
  <2>5. Younger'
    <3>1. \A i \in DOMAIN dgrams' : last' < dgrams'[i]
      <4>1. ASSUME NEW i \in DOMAIN dgrams' PROVE dgrams[1] < dgrams[i + 1]
        BY <2>2 DEF OrderInv, Sorted
      <4>2. QED
        BY <2>1, <2>2, <4>1
    <3>2. \A i \in DOMAIN dgrams' : dgrams'[i] <= recvd'
      BY <2>1, <2>2 DEF OrderInv, Younger
    <3>3. entry > 0 => \A i \in DOMAIN dgrams : dgrams[i] < entry
      BY DEF OrderInv, Younger
    <3>4. entry > 0 => last' < entry /\ \A i \in DOMAIN dgrams' : dgrams'[i] < entry
      BY <2>1, <2>2, <3>3
    <3>5. QED
      BY <2>1, <2>3, <3>1, <3>2, <3>4 DEF OrderInv, Younger
  <2>6. Owners'
    BY <2>1, <2>3 DEF OrderInv, Owners, TypeInv, WorkersOK, QueueOK
  <2>7. QueueUse'
    BY <2>1 DEF OrderInv, QueueUse, Mode
  <2>8. QED
    BY <2>4, <2>5, <2>6, <2>7 DEF OrderInv
<1>2. CASE WorkerTop(w) \/ WorkerEmpty(w) \/ WorkerWait(w)
  BY <1>2 DEF WorkerTop, WorkerEmpty, WorkerWait, OrderInv, Sorted, Younger, Owners,
     QueueUse, Mode
<1>3. CASE WorkerProcess(w)
  <2>1. Sorted' /\ Younger' /\ QueueUse'
    BY <1>3 DEF WorkerProcess, OrderInv, Sorted, Younger, QueueUse, Mode
  <2>2. Owners'
    BY <1>3 DEF WorkerProcess, OrderInv, Owners, TypeInv, WorkersOK, QueueOK
  <2>3. QED
    BY <2>1, <2>2 DEF OrderInv
<1>4. QED
  BY <1>1, <1>2, <1>3 DEF WorkerNext

LEMMA OrderStep == TypeInv /\ OrderInv /\ [Next]_vars => OrderInv'
<1> SUFFICES ASSUME TypeInv, OrderInv, [Next]_vars PROVE OrderInv'
  OBVIOUS
<1>1. CASE Run \/ MainNext
  BY <1>1, MainOrder
<1>2. ASSUME NEW w \in Workers, WorkerNext(w) PROVE OrderInv'
  BY <1>2, WorkerOrder
<1>3. CASE Stop \/ Arrive \/ UNCHANGED vars
  BY <1>3 DEF Stop, Arrive, vars, OrderInv, Sorted, Younger, Owners, QueueUse, Mode
<1>4. CASE SpuriousWake
  <2>1. /\ UNCHANGED <<dgrams, last, wentry, recvd, entry, runs>>
        /\ main' = main \/ (main = "notfull" /\ main' = "enqueue")
    BY <1>4 DEF SpuriousWake
  <2>2. QED
    BY <2>1 DEF OrderInv, Sorted, Younger, Owners, QueueUse, Mode
<1>5. QED
  BY <1>1, <1>2, <1>3, <1>4 DEF Next

\* Over any number of runs and workers the callbacks get the datagrams in the
\* order of their arrival, each at most once, and no two workers ever share
\* an entry: SQUEUE_ADD and SQUEUE_POLL under dgrams_mtx suffice for that.
THEOREM DgramOrder == Spec => []HandedOutInOrder
<1>1. OrderInv => HandedOutInOrder
  BY DEF OrderInv, Sorted, Younger, Owners, HandedOutInOrder
<1>2. QED
  BY <1>1, OrderInit, OrderStep, TypeInvHolds, PTL DEF Spec

-----------------------------------------------------------------------------
(* The mutex and the conditions.  A run without workers after one with     *)
(* workers signals conditions that were freed, because run does not reset  *)
(* the pointers it frees; so the runs with workers must come last.         *)

ThreadedLast ==
    \A i, j \in 1 .. Len(RunModes) :
        i < j /\ RunModes[i] = "threaded" => RunModes[j] = "threaded"

\* A run with workers has them alive, a run without has never had them and has no
\* workers that could use them; between two runs no worker is left.
RunSynch ==
    main # "idle" =>
        IF Mode = "threaded" THEN synch = "valid"
                             ELSE synch = "null" /\ \A w \in Workers : wpc[w] = "off"
NobodyLeft ==
    /\ main \in {"idle", "clean"} => \A w \in Workers : wpc[w] \in {"off", "end"}
    /\ main = "idle" => synch # "valid"
MadeByThreads == synch # "null" => \E i \in 1 .. runs : RunModes[i] = "threaded"

SynchInv == RunSynch /\ NobodyLeft /\ MadeByThreads

LEMMA SynchInit == Init => SynchInv
BY DEF Init, SynchInv, RunSynch, NobodyLeft, MadeByThreads

\* Steps that leave the objects and the run alone, of main inside a run.
LEMMA SynchMainFrame ==
    ASSUME TypeInv, SynchInv, UNCHANGED <<runs, synch, wpc>>, main # "idle", main # "clean",
           main' \notin {"idle", "clean"}
    PROVE  SynchInv'
BY DEF SynchInv, RunSynch, NobodyLeft, MadeByThreads, Mode

\* Steps of the workers: one that is off or has ended does nothing more.
LEMMA SynchWorkerFrame ==
    ASSUME TypeInv, SynchInv, UNCHANGED <<runs, synch>>, main' = main \/ main = "notfull",
           main' \in {"idle", "clean"} => main' = main,
           \A w \in Workers : wpc[w] \in {"off", "end"} => wpc'[w] = wpc[w]
    PROVE  SynchInv'
<1>1. RunSynch'
  <2>1. main = "notfull" => main # "idle"
    OBVIOUS
  <2>2. QED
    BY <2>1 DEF SynchInv, RunSynch, Mode
<1>2. NobodyLeft'
  BY DEF SynchInv, NobodyLeft
<1>3. MadeByThreads'
  BY DEF SynchInv, MadeByThreads
<1>4. QED
  BY <1>1, <1>2, <1>3 DEF SynchInv

LEMMA SynchStep ==
    ASSUME ThreadedLast, TypeInv, SynchInv, [Next]_vars
    PROVE  SynchInv'
<1>1. CASE Run
  <2>1. /\ runs \in Nat /\ runs + 1 \in 1 .. Len(RunModes) /\ runs' = runs + 1 /\ main' = "loop"
        /\ main = "idle"
    BY <1>1, RunsType DEF Run, TypeInv, MainOK
  <2>2. RunModes[runs + 1] \in {"direct", "threaded"}
    BY <2>1, DgramAssumption
  <2>3. CASE RunModes[runs + 1] = "threaded"
    BY <1>1, <2>1, <2>3 DEF Run, SynchInv, RunSynch, NobodyLeft, MadeByThreads, Mode
  <2>4. CASE RunModes[runs + 1] = "direct"
    <3>1. synch = "null"
      <4>1. SUFFICES ASSUME synch # "null" PROVE FALSE
        OBVIOUS
      <4>2. PICK i \in 1 .. runs : RunModes[i] = "threaded"
        BY <4>1 DEF SynchInv, MadeByThreads
      <4>3. i \in 1 .. Len(RunModes) /\ i < runs + 1
        BY <2>1, RunsType
      <4>4. QED
        BY <2>1, <2>4, <4>2, <4>3 DEF ThreadedLast
    <3>2. synch' = synch /\ wpc' = [w \in Workers |-> "off"]
      BY <1>1, <2>4 DEF Run
    <3>3. QED
      BY <2>1, <2>4, <3>1, <3>2 DEF SynchInv, RunSynch, NobodyLeft, MadeByThreads, Mode
  <2>5. QED
    BY <2>2, <2>3, <2>4
<1>2. CASE MainLoop \/ MainListen \/ MainInterrupted \/ MainListenFails \/ MainRecv
           \/ MainRecvFails \/ MainProcess \/ EnqueueFull \/ MainRearm \/ Finish
  <2>1. /\ UNCHANGED <<runs, synch, wpc>> /\ main # "idle" /\ main # "clean"
        /\ main' \notin {"idle", "clean"}
    BY <1>2 DEF MainLoop, MainListen, MainInterrupted, MainListenFails, MainRecv,
                MainRecvFails, MainProcess, EnqueueFull, MainRearm, Finish
  <2>2. QED
    BY <2>1, SynchMainFrame
<1>3. CASE Enqueue \/ WorkersInterrupt
  <2>1. /\ UNCHANGED <<runs, synch>> /\ main \in {"enqueue", "interrupt"}
        /\ main' \in {"rearm", "join"}
        /\ wpc' = SignalNotEmpty(wpc) \/ wpc' = wpc
    BY <1>3 DEF Enqueue, WorkersInterrupt
  <2>2. \A w \in Workers : wpc[w] = "off" => wpc'[w] = "off"
    BY <2>1 DEF SignalNotEmpty
  <2>3. QED
    BY <2>1, <2>2 DEF SynchInv, RunSynch, NobodyLeft, MadeByThreads, Mode
<1>4. CASE WorkersJoin
  <2>1. \A w \in Workers : wpc[w] \in {"off", "end"}
    <3>1. runs \in 1 .. Len(RunModes) /\ main = "join"
      BY <1>4, RunsType DEF WorkersJoin, TypeInv, MainOK
    <3>2. CASE Mode = "direct"
      BY <3>1, <3>2 DEF SynchInv, RunSynch
    <3>3. CASE \A w \in Workers : wpc[w] = "end"
      BY <3>3
    <3>4. QED
      BY <1>4, <3>2, <3>3 DEF WorkersJoin
  <2>2. QED
    BY <1>4, <2>1 DEF WorkersJoin, SynchInv, RunSynch, NobodyLeft, MadeByThreads, Mode
<1>5. CASE Clean
  BY <1>5 DEF Clean, SynchInv, RunSynch, NobodyLeft, MadeByThreads, Mode, TypeInv, MainOK
<1>6. ASSUME NEW w \in Workers, WorkerNext(w) PROVE SynchInv'
  <2>1. /\ UNCHANGED <<runs, synch>> /\ (main' = main \/ main = "notfull")
        /\ main' \in {"idle", "clean"} => main' = main
    BY <1>6 DEF WorkerNext, WorkerTop, WorkerPoll, WorkerEmpty, WorkerWait, WorkerProcess
  <2>2. wpc[w] \notin {"off", "end"}
    BY <1>6 DEF WorkerNext, WorkerTop, WorkerPoll, WorkerEmpty, WorkerWait, WorkerProcess
  <2>3. \A v \in Workers : v # w => wpc'[v] = wpc[v]
    BY <1>6 DEF WorkerNext, WorkerTop, WorkerPoll, WorkerEmpty, WorkerWait, WorkerProcess,
                TypeInv, WorkersOK
  <2>4. QED
    BY <2>1, <2>2, <2>3, SynchWorkerFrame
<1>7. CASE SpuriousWake
  <2>1. /\ UNCHANGED <<runs, synch>> /\ (main' = main \/ main = "notfull")
        /\ main' \in {"idle", "clean"} => main' = main
    BY <1>7 DEF SpuriousWake
  <2>2. \A w \in Workers : wpc[w] \in {"off", "end"} => wpc'[w] = wpc[w]
    BY <1>7 DEF SpuriousWake, TypeInv, WorkersOK
  <2>3. QED
    BY <2>1, <2>2, SynchWorkerFrame
<1>8. CASE Stop \/ Arrive \/ UNCHANGED vars
  <2>1. UNCHANGED <<runs, main, synch, wpc>>
    BY <1>8 DEF Stop, Arrive, vars
  <2>2. QED
    BY <2>1 DEF SynchInv, RunSynch, NobodyLeft, MadeByThreads, Mode
<1>9. QED
  BY <1>1, <1>2, <1>3, <1>4, <1>5, <1>6, <1>7, <1>8 DEF Next, MainNext

\* As long as the runs with workers come last, no worker, and not the interrupt at
\* the end of vtm_socket_dgram_srv_run either, uses the mutex or the conditions
\* after they were freed, over any number of runs on one server.
THEOREM SynchOutlivesUse == ThreadedLast => (Spec => []SynchAlive)
<1> SUFFICES ASSUME ThreadedLast PROVE Spec => []SynchAlive
  OBVIOUS
<1>1. TypeInv /\ SynchInv /\ [Next]_vars => SynchInv'
  BY SynchStep
<1>2. TypeInv /\ SynchInv => SynchAlive
  <2> SUFFICES ASSUME TypeInv, SynchInv PROVE SynchAlive
    OBVIOUS
  <2>1. main # "idle" => synch # "freed"
    BY DEF SynchInv, RunSynch
  <2>2. ASSUME NEW w \in Workers, wpc[w] \notin {"off", "end"} PROVE synch = "valid"
    BY <2>2 DEF SynchInv, RunSynch, NobodyLeft
  <2>3. QED
    BY <2>1, <2>2 DEF SynchAlive
<1>3. QED
  BY <1>1, <1>2, SynchInit, TypeInvHolds, PTL DEF Spec

=============================================================================
