------------------------- MODULE StreamServerProofs -------------------------
(***************************************************************************)
(* Theorems about the threaded stream server, for any number of workers,   *)
(* sockets and other threads and every choice of callbacks and faults.     *)
(***************************************************************************)
EXTENDS StreamServer, FiniteSetTheorems, FunctionTheorems, TLAPS

USE DEF sockVars, netVars, mainVars, listVars, ctlVars, lockVars, workVars,
        appVars

-----------------------------------------------------------------------------
(* What the operators on the state word and on the lists return *)

LEMMA CloseType ==
    ASSUME NEW f \in SUBSET SockFlags
    PROVE  CloseState(f) \in SUBSET SockFlags
BY DEF CloseState, SockFlags

LEMMA LocksType ==
    ASSUME NEW t
    PROVE  Locks(t) \in SUBSET {"READ_LOCKED", "WRITE_LOCKED"}
BY DEF Locks

LEMMA InterestType ==
    ASSUME NEW f
    PROVE  Interest(f) \in SUBSET {"IN", "OUT"}
BY DEF Interest

LEMMA EventTypesType ==
    ASSUME NEW bits
    PROVE  EventTypes(bits) \in SUBSET EventType
BY DEF EventTypes, EventType

LEMMA ReadType ==
    ASSUME NEW f \in SUBSET SockFlags,
           NEW r \in {"data", "again", "wants_write", "eof", "error"}
    PROVE  ReadState(f, r) \in SUBSET SockFlags
<1>1. ReadResult(r) \in SUBSET SockFlags
  BY DEF ReadResult, SockFlags
<1>2. QED
  BY <1>1 DEF ReadState, NblWriteOnly, SockFlags

LEMMA WriteType ==
    ASSUME NEW f \in SUBSET SockFlags,
           NEW r \in {"ok", "again", "wants_read", "error"}
    PROVE  WriteState(f, r) \in SUBSET SockFlags
<1>1. WriteResult(r) \in SUBSET SockFlags
  BY DEF WriteResult, SockFlags
<1>2. QED
  BY <1>1 DEF WriteState, NblWriteOnly, NblReadOnly, SockFlags

LEMMA AppWriteType ==
    ASSUME NEW s, NEW f \in SUBSET SockFlags, NEW o \in WriteEnds(s)
    PROVE  WriteState(f, o) \in SUBSET SockFlags
<1>1. o \in {"ok", "again", "wants_read", "error"}
  BY CallbackAssumption DEF WriteEnds
<1>2. QED
  BY <1>1, WriteType

LEMMA AfterCallbackType ==
    ASSUME NEW s, NEW f \in SUBSET SockFlags,
           NEW x \in {"none", "write", "close"}, NEW g \in AfterCallback(s, f, x)
    PROVE  g \in SUBSET SockFlags
<1>1. CASE x = "none"
  BY <1>1 DEF AfterCallback
<1>2. CASE x = "close"
  BY <1>2, CloseType DEF AfterCallback
<1>3. CASE x = "write"
  BY <1>3, AppWriteType DEF AfterCallback
<1>4. QED
  BY <1>1, <1>2, <1>3

LEMMA CountType ==
    ASSUME NEW q \in Seq(Event), NEW s
    PROVE  Count(q, s) \in Nat
<1>1. DOMAIN q = 1 .. Len(q) /\ Len(q) \in Nat
  OBVIOUS
<1>2. IsFiniteSet(1 .. Len(q))
  BY <1>1, FS_Interval
<1>3. {i \in DOMAIN q : q[i].sock = s} \subseteq 1 .. Len(q)
  BY <1>1
<1>4. IsFiniteSet({i \in DOMAIN q : q[i].sock = s})
  BY <1>2, <1>3, FS_Subset
<1>5. QED
  BY <1>4, FS_CardinalityType DEF Count

LEMMA EntriesType ==
    ASSUME NEW b \in [sock : Socks, types : SUBSET EventType], NEW f
    PROVE  EntriesOf(b, f) \in Seq(Event) /\ Len(EntriesOf(b, f)) \in Nat
<1>1. ASSUME NEW t \in EventType PROVE <<Ev(b.sock, t)>> \in Seq(Event)
  BY DEF Ev, Event
<1>2. <<>> \in Seq(Event)
  OBVIOUS
<1>3. EntriesOf(b, f) \in Seq(Event)
  <2> DEFINE r == IF "READ" \notin b.types THEN <<>>
                  ELSE <<Ev(b.sock, IF "WRITE_AGAIN_WHEN_READABLE" \in f
                                    THEN "WRITE" ELSE "READ")>>
             o == IF "WRITE" \notin b.types THEN <<>>
                  ELSE <<Ev(b.sock, IF "READ_AGAIN_WHEN_WRITEABLE" \in f
                                    THEN "READ" ELSE "WRITE")>>
  <2>1. r \in Seq(Event)
    BY <1>1, <1>2 DEF EventType
  <2>2. o \in Seq(Event)
    BY <1>1, <1>2 DEF EventType
  <2>3. r \o o \in Seq(Event)
    <3> HIDE DEF r, o
    <3>1. QED
      BY <2>1, <2>2
  <2>4. <<Ev(b.sock, "CLOSED")>> \in Seq(Event) /\ <<Ev(b.sock, "ERROR")>> \in Seq(Event)
    BY <1>1 DEF EventType
  <2>5. EntriesOf(b, f) = IF "CLOSED" \in b.types THEN <<Ev(b.sock, "CLOSED")>>
                          ELSE IF "ERROR" \in b.types THEN <<Ev(b.sock, "ERROR")>>
                          ELSE r \o o
    BY DEF EntriesOf
  <2> HIDE DEF r, o
  <2>6. QED
    BY <2>3, <2>4, <2>5
<1>4. QED
  BY <1>3

LEMMA TrylockType ==
    ASSUME NEW t \in EventType, NEW ok \in BOOLEAN
    PROVE  AfterTrylock(t, ok) \in EventPcs
BY DEF AfterTrylock, EventType, EventPcs, SectionPcs

LEMMA CloseEntriesType ==
    ASSUME NEW C \in SUBSET Socks, NEW q \in CloseEntries(C)
    PROVE  q \in Seq(Event)
<1>1. IsFiniteSet(C)
  BY ThreadsAssumption, FS_Subset
<1>2. Cardinality(C) \in Nat
  BY <1>1, FS_CardinalityType
<1>3. q \in [1 .. Cardinality(C) -> Event]
  BY DEF CloseEntries, Ev, Event, EventType
<1>4. QED
  BY <1>2, <1>3

\* A signal moves waiting workers to the point where they lock events_mtx;
\* none of them owns an event.
LEMMA SignalAllType ==
    ASSUME WorkersOK
    PROVE  /\ SignalAll(wpc) \in [Workers -> WorkerPcs]
           /\ \A v \in Workers : SignalAll(wpc)[v] \in EventPcs => wev[v] \in Event
BY DEF SignalAll, WorkersOK, WorkerPcs, EventPcs, SectionPcs

LEMMA SignalOneType ==
    ASSUME WorkersOK, NEW pc \in SignalOne(wpc)
    PROVE  /\ pc \in [Workers -> WorkerPcs]
           /\ \A v \in Workers : pc[v] \in EventPcs => wpc[v] = pc[v]
BY DEF SignalOne, Waiting, WorkersOK, WorkerPcs, EventPcs, SectionPcs

LEMMA EventOwned ==
    ASSUME TypeOK, NEW w \in Workers, wpc[w] \in EventPcs
    PROVE  S(w) \in Socks /\ wev[w] \in Event
BY DEF TypeOK, WorkersOK, S, Event

-----------------------------------------------------------------------------
(* Type correctness, thread by thread *)

\* A step of the main thread keeps every part of the type invariant.
LEMMA MainTypes ==
    ASSUME TypeOK, MainNext
    PROVE  TypeOK'
<1>1. CASE MainLoop
  BY <1>1 DEF MainLoop, TypeOK, SocketsOK, PeersOK, MainOK, ListsOK,
  WorkersOK, AppsOK, MainPcs
<1>2. CASE MainListen
  <2>1. SocketsOK'
    BY <1>2 DEF MainListen, TypeOK, SocketsOK
  <2>2. MainOK'
    BY <1>2, EventTypesType DEF MainListen, TypeOK, MainOK, MainPcs
  <2>3. PeersOK' /\ ListsOK' /\ WorkersOK' /\ AppsOK'
    BY <1>2 DEF MainListen, TypeOK, PeersOK, ListsOK, WorkersOK, AppsOK
  <2>4. QED
    BY <2>1, <2>2, <2>3 DEF TypeOK
<1>3. CASE MainInterrupted
  BY <1>3 DEF MainInterrupted, TypeOK, SocketsOK, PeersOK, MainOK, ListsOK,
  WorkersOK, AppsOK, MainPcs
<1>4. CASE MainListenFails
  BY <1>4 DEF MainListenFails, TypeOK, SocketsOK, PeersOK, MainOK, ListsOK,
  WorkersOK, AppsOK, MainPcs
<1>5. CASE MainLockEvents
  <2>1. MainOK'
    BY <1>5 DEF MainLockEvents, TypeOK, MainOK, MainPcs
  <2>2. WorkersOK'
    BY <1>5 DEF MainLockEvents, TypeOK, WorkersOK, EventPcs, SectionPcs,
    WorkerPcs
  <2>3. SocketsOK' /\ PeersOK' /\ ListsOK' /\ AppsOK'
    BY <1>5 DEF MainLockEvents, TypeOK, SocketsOK, PeersOK, ListsOK, AppsOK
  <2>4. QED
    BY <2>1, <2>2, <2>3 DEF TypeOK
<1>6. CASE MainRelease
  <2>1. SocketsOK'
    BY <1>6 DEF MainRelease, TypeOK, SocketsOK, SockFlags, ListsOK
  <2>2. ListsOK'
    BY <1>6 DEF MainRelease, TypeOK, ListsOK
  <2>3. PeersOK' /\ MainOK' /\ WorkersOK' /\ AppsOK'
    BY <1>6 DEF MainRelease, TypeOK, PeersOK, MainOK, WorkersOK, AppsOK
  <2>4. QED
    BY <2>1, <2>2, <2>3 DEF TypeOK
<1>7. CASE MainRelay
  <2>1. MainOK'
    BY <1>7 DEF MainRelay, TypeOK, MainOK, MainPcs
  <2>2. ListsOK'
    BY <1>7 DEF MainRelay, TypeOK, ListsOK
  <2>3. SocketsOK' /\ PeersOK' /\ WorkersOK' /\ AppsOK'
    BY <1>7 DEF MainRelay, TypeOK, SocketsOK, PeersOK, WorkersOK, AppsOK
  <2>4. QED
    BY <2>1, <2>2, <2>3 DEF TypeOK
<1>8. CASE MainDispatch
  <2>1. SocketsOK'
    <3>1. PICK b \in batch :
            LET s == b.sock
                new == EntriesOf(b, flags[s])
            IN  /\ flags' = [flags EXCEPT ![s] = IF "CLOSED" \in b.types
                                                 THEN CloseState(@) ELSE @]
                /\ armed' = [armed EXCEPT ![s] = IF "CLOSED" \in b.types
                                                 THEN {} ELSE @]
                /\ ref' = [ref EXCEPT ![s] = @ + Len(new)]
      BY <1>8 DEF MainDispatch
    <3>2. b \in [sock : Socks, types : SUBSET EventType]
      BY DEF TypeOK, MainOK
    <3>3. b.sock \in Socks /\ Len(EntriesOf(b, flags[b.sock])) \in Nat
      BY <3>2, EntriesType
    <3>4. CloseState(flags[b.sock]) \in SUBSET SockFlags
      BY <3>3, CloseType DEF TypeOK, SocketsOK
    <3>5. flags' \in [Socks -> SUBSET SockFlags]
      BY <3>1, <3>3, <3>4 DEF TypeOK, SocketsOK
    <3>6. armed' \in [Socks -> SUBSET {"IN", "OUT"}] /\ ref' \in [Socks -> Int]
      BY <3>1, <3>3 DEF TypeOK, SocketsOK
    <3>7. QED
      BY <1>8, <3>5, <3>6 DEF MainDispatch, TypeOK, SocketsOK
  <2>2. MainOK'
    BY <1>8 DEF MainDispatch, TypeOK, MainOK, MainPcs
  <2>3. ListsOK'
    <3>1. PICK b \in batch : events' = events \o EntriesOf(b, flags[b.sock])
      BY <1>8 DEF MainDispatch
    <3>2. b \in [sock : Socks, types : SUBSET EventType]
      BY DEF TypeOK, MainOK
    <3>3. EntriesOf(b, flags[b.sock]) \in Seq(Event)
      BY <3>2, EntriesType
    <3>4. QED
      BY <1>8, <3>1, <3>3 DEF MainDispatch, TypeOK, ListsOK
  <2>4. PeersOK' /\ WorkersOK' /\ AppsOK'
    BY <1>8 DEF MainDispatch, TypeOK, PeersOK, WorkersOK, AppsOK
  <2>5. QED
    BY <2>1, <2>2, <2>3, <2>4 DEF TypeOK
<1>9. CASE MainUnlockEvents
  <2>1. MainOK'
    BY <1>9 DEF MainUnlockEvents, TypeOK, MainOK, MainPcs
  <2>2. WorkersOK'
    BY <1>9, SignalAllType DEF MainUnlockEvents, TypeOK, WorkersOK, EventPcs,
    SectionPcs, WorkerPcs
  <2>3. SocketsOK' /\ PeersOK' /\ ListsOK' /\ AppsOK'
    BY <1>9 DEF MainUnlockEvents, TypeOK, SocketsOK, PeersOK, ListsOK, AppsOK
  <2>4. QED
    BY <2>1, <2>2, <2>3 DEF TypeOK
<1>10. CASE MainAccept
  <2>1. SocketsOK'
    BY <1>10 DEF MainAccept, TypeOK, SocketsOK
  <2>2. ListsOK'
    BY <1>10 DEF MainAccept, TypeOK, ListsOK, Event, Ev, EventType
  <2>3. WorkersOK'
    BY <1>10, SignalOneType DEF MainAccept, TypeOK, WorkersOK, EventPcs,
    SectionPcs, WorkerPcs
  <2>4. PeersOK' /\ MainOK' /\ AppsOK'
    BY <1>10 DEF MainAccept, TypeOK, PeersOK, MainOK, AppsOK
  <2>5. QED
    BY <2>1, <2>2, <2>3, <2>4 DEF TypeOK
<1>11. CASE MainAcceptAgain
  BY <1>11 DEF MainAcceptAgain, TypeOK, SocketsOK, PeersOK, MainOK, ListsOK,
  WorkersOK, AppsOK, MainPcs
<1>12. CASE DrainSignal
  <2>1. MainOK'
    BY <1>12 DEF DrainSignal, TypeOK, MainOK, MainPcs
  <2>2. WorkersOK'
    BY <1>12, SignalAllType DEF DrainSignal, TypeOK, WorkersOK, EventPcs,
    SectionPcs, WorkerPcs
  <2>3. SocketsOK' /\ PeersOK' /\ ListsOK' /\ AppsOK'
    BY <1>12 DEF DrainSignal, TypeOK, SocketsOK, PeersOK, ListsOK, AppsOK
  <2>4. QED
    BY <2>1, <2>2, <2>3 DEF TypeOK
<1>13. CASE DrainAwait
  <2>1. MainOK'
    BY <1>13 DEF DrainAwait, TypeOK, MainOK, MainPcs
  <2>2. WorkersOK'
    BY <1>13 DEF DrainAwait, TypeOK, WorkersOK, EventPcs, SectionPcs,
    WorkerPcs
  <2>3. SocketsOK' /\ PeersOK' /\ ListsOK' /\ AppsOK'
    BY <1>13 DEF DrainAwait, TypeOK, SocketsOK, PeersOK, ListsOK, AppsOK
  <2>4. QED
    BY <2>1, <2>2, <2>3 DEF TypeOK
<1>14. CASE DrainClose
  <2>1. SocketsOK'
    <3>1. \A s \in Socks : CloseState(flags[s]) \in SUBSET SockFlags
      BY CloseType DEF TypeOK, SocketsOK
    <3>2. \A s \in Socks : Count(events, s) \in Nat
      BY CountType DEF TypeOK, ListsOK
    <3>3. QED
      BY <1>14, <3>1, <3>2 DEF DrainClose, TypeOK, SocketsOK
  <2>2. MainOK'
    BY <1>14 DEF DrainClose, TypeOK, MainOK, MainPcs
  <2>3. ListsOK'
    BY <1>14, CloseEntriesType DEF DrainClose, TypeOK, ListsOK
  <2>4. WorkersOK'
    BY <1>14 DEF DrainClose, TypeOK, WorkersOK, EventPcs, SectionPcs,
    WorkerPcs
  <2>5. PeersOK' /\ AppsOK'
    BY <1>14 DEF DrainClose, TypeOK, PeersOK, AppsOK
  <2>6. QED
    BY <2>1, <2>2, <2>3, <2>4, <2>5 DEF TypeOK
<1>15. CASE Join
  BY <1>15 DEF Join, TypeOK, SocketsOK, PeersOK, MainOK, ListsOK, WorkersOK,
  AppsOK, MainPcs
<1>16. CASE Clean
  <2>1. SocketsOK'
    BY <1>16 DEF Clean, TypeOK, SocketsOK
  <2>2. MainOK'
    BY <1>16 DEF Clean, TypeOK, MainOK, MainPcs
  <2>3. ListsOK'
    BY <1>16 DEF Clean, TypeOK, ListsOK
  <2>4. PeersOK' /\ WorkersOK' /\ AppsOK'
    BY <1>16 DEF Clean, TypeOK, PeersOK, WorkersOK, AppsOK
  <2>5. QED
    BY <2>1, <2>2, <2>3, <2>4 DEF TypeOK
<1>17. QED
  BY <1>1, <1>2, <1>3, <1>4, <1>5, <1>6, <1>7, <1>8, <1>9, <1>10, <1>11,
    <1>12, <1>13, <1>14, <1>15, <1>16 DEF MainNext

\* A step of a worker, a wake-up without a signal included.
LEMMA WorkerTypes ==
    ASSUME NEW w \in Workers, TypeOK, WorkerNext(w) \/ SpuriousWake(w)
    PROVE  TypeOK'
<1>1. CASE WorkerTop(w)
  BY <1>1 DEF WorkerTop, TypeOK, SocketsOK, PeersOK, MainOK, ListsOK,
  WorkersOK, AppsOK, EventPcs, SectionPcs, WorkerPcs, Goto
<1>2. CASE WorkerPoll(w)
  <2>1. ListsOK'
    BY <1>2 DEF WorkerPoll, TypeOK, ListsOK
  <2>2. WorkersOK'
    <3>1. Head(events) \in Event
      BY <1>2 DEF WorkerPoll, TypeOK, ListsOK
    <3>2. QED
      BY <1>2, <3>1 DEF WorkerPoll, TypeOK, WorkersOK, EventPcs, SectionPcs,
      WorkerPcs, Goto
  <2>3. SocketsOK' /\ PeersOK' /\ MainOK' /\ AppsOK'
    BY <1>2 DEF WorkerPoll, TypeOK, SocketsOK, PeersOK, MainOK, AppsOK
  <2>4. QED
    BY <2>1, <2>2, <2>3 DEF TypeOK
<1>3. CASE WorkerEmpty(w)
  BY <1>3 DEF WorkerEmpty, TypeOK, SocketsOK, PeersOK, MainOK, ListsOK,
  WorkersOK, AppsOK, EventPcs, SectionPcs, WorkerPcs, Goto
<1>4. CASE WorkerWait(w)
  BY <1>4 DEF WorkerWait, TypeOK, SocketsOK, PeersOK, MainOK, ListsOK,
  WorkersOK, AppsOK, EventPcs, SectionPcs, WorkerPcs, Goto
<1>5. CASE SpuriousWake(w)
  BY <1>5 DEF SpuriousWake, TypeOK, SocketsOK, PeersOK, MainOK, ListsOK,
  WorkersOK, AppsOK, EventPcs, SectionPcs, WorkerPcs, Goto
<1>6. CASE WorkerCount(w)
  <2>1. MainOK'
    BY <1>6 DEF WorkerCount, TypeOK, MainOK, MainPcs
  <2>2. WorkersOK'
    BY <1>6 DEF WorkerCount, TypeOK, WorkersOK, EventPcs, SectionPcs,
    WorkerPcs, Goto
  <2>3. SocketsOK' /\ PeersOK' /\ ListsOK' /\ AppsOK'
    BY <1>6 DEF WorkerCount, TypeOK, SocketsOK, PeersOK, ListsOK, AppsOK
  <2>4. QED
    BY <2>1, <2>2, <2>3 DEF TypeOK
<1>7. CASE WorkerAwait(w)
  BY <1>7 DEF WorkerAwait, TypeOK, SocketsOK, PeersOK, MainOK, ListsOK,
  WorkersOK, AppsOK, EventPcs, SectionPcs, WorkerPcs, Goto
<1>8. CASE WorkerEnd(w)
  BY <1>8 DEF WorkerEnd, TypeOK, SocketsOK, PeersOK, MainOK, ListsOK,
  WorkersOK, AppsOK, EventPcs, SectionPcs, WorkerPcs, Goto
<1>9. CASE SockEventState(w)
  BY <1>9 DEF SockEventState, TypeOK, SocketsOK, PeersOK, MainOK, ListsOK,
  WorkersOK, AppsOK, EventPcs, SectionPcs, WorkerPcs, Goto
<1>10. CASE SockTrylock(w)
  <2>0. S(w) \in Socks /\ wev[w] \in Event
    BY <1>10, EventOwned DEF SockTrylock, TypeOK, EventPcs, SectionPcs
  <2>1. SocketsOK'
    BY <1>10, <2>0, LocksType DEF SockTrylock, TypeOK, SocketsOK, SockFlags
  <2>2. WorkersOK'
    BY <1>10, <2>0, TrylockType DEF SockTrylock, TypeOK, WorkersOK, EventPcs,
    SectionPcs, WorkerPcs, Goto, Event
  <2>3. PeersOK' /\ MainOK' /\ ListsOK' /\ AppsOK'
    BY <1>10 DEF SockTrylock, TypeOK, PeersOK, MainOK, ListsOK, AppsOK
  <2>4. QED
    BY <2>1, <2>2, <2>3 DEF TypeOK
<1>11. CASE AddEvent(w)
  <2>0. S(w) \in Socks /\ wev[w] \in Event
    BY <1>11, EventOwned DEF AddEvent, TypeOK, EventPcs, SectionPcs
  <2>1. SocketsOK'
    BY <1>11, <2>0 DEF AddEvent, TypeOK, SocketsOK
  <2>2. ListsOK'
    BY <1>11, <2>0 DEF AddEvent, TypeOK, ListsOK
  <2>3. WorkersOK'
    BY <1>11, SignalOneType DEF AddEvent, TypeOK, WorkersOK, EventPcs,
    SectionPcs, WorkerPcs, Goto
  <2>4. PeersOK' /\ MainOK' /\ AppsOK'
    BY <1>11 DEF AddEvent, TypeOK, PeersOK, MainOK, AppsOK
  <2>5. QED
    BY <2>1, <2>2, <2>3, <2>4 DEF TypeOK
<1>12. CASE SockUnlock(w)
  <2>0. S(w) \in Socks /\ wev[w] \in Event
    BY <1>12, EventOwned DEF SockUnlock, TypeOK, EventPcs, SectionPcs
  <2>1. SocketsOK'
    BY <1>12, <2>0 DEF SockUnlock, TypeOK, SocketsOK
  <2>2. WorkersOK'
    BY <1>12 DEF SockUnlock, TypeOK, WorkersOK, EventPcs, SectionPcs,
    WorkerPcs, Goto
  <2>3. PeersOK' /\ MainOK' /\ ListsOK' /\ AppsOK'
    BY <1>12 DEF SockUnlock, TypeOK, PeersOK, MainOK, ListsOK, AppsOK
  <2>4. QED
    BY <2>1, <2>2, <2>3 DEF TypeOK
<1>13. CASE SockUnref(w)
  <2>0. S(w) \in Socks /\ wev[w] \in Event
    BY <1>13, EventOwned DEF SockUnref, TypeOK, EventPcs, SectionPcs
  <2>1. SocketsOK'
    BY <1>13, <2>0 DEF SockUnref, TypeOK, SocketsOK
  <2>2. WorkersOK'
    BY <1>13 DEF SockUnref, TypeOK, WorkersOK, EventPcs, SectionPcs,
    WorkerPcs, Goto
  <2>3. PeersOK' /\ MainOK' /\ ListsOK' /\ AppsOK'
    BY <1>13 DEF SockUnref, TypeOK, PeersOK, MainOK, ListsOK, AppsOK
  <2>4. QED
    BY <2>1, <2>2, <2>3 DEF TypeOK
<1>14. CASE SockAccepted(w)
  <2>0. S(w) \in Socks /\ wev[w] \in Event
    BY <1>14, EventOwned DEF SockAccepted, TypeOK, EventPcs, SectionPcs
  <2>1. SocketsOK'
    BY <1>14, <2>0, CloseType DEF SockAccepted, TypeOK, SocketsOK
  <2>2. WorkersOK'
    BY <1>14 DEF SockAccepted, TypeOK, WorkersOK, EventPcs, SectionPcs,
    WorkerPcs, Goto
  <2>3. PeersOK' /\ MainOK' /\ ListsOK' /\ AppsOK'
    BY <1>14 DEF SockAccepted, TypeOK, PeersOK, MainOK, ListsOK, AppsOK
  <2>4. QED
    BY <2>1, <2>2, <2>3 DEF TypeOK
<1>15. CASE SockConnected(w)
  <2>0. S(w) \in Socks /\ wev[w] \in Event
    BY <1>15, EventOwned DEF SockConnected, TypeOK, EventPcs, SectionPcs
  <2>1. SocketsOK'
    BY <1>15, <2>0, CallbackAssumption, AfterCallbackType DEF SockConnected,
    TypeOK, SocketsOK, SockFlags
  <2>2. PeersOK'
    BY <1>15, <2>0 DEF SockConnected, TypeOK, PeersOK
  <2>3. WorkersOK'
    BY <1>15 DEF SockConnected, TypeOK, WorkersOK, EventPcs, SectionPcs,
    WorkerPcs, Goto
  <2>4. MainOK' /\ ListsOK' /\ AppsOK'
    BY <1>15 DEF SockConnected, TypeOK, MainOK, ListsOK, AppsOK
  <2>5. QED
    BY <2>1, <2>2, <2>3, <2>4 DEF TypeOK
<1>16. CASE SockCheck(w)
  <2>0. S(w) \in Socks /\ wev[w] \in Event
    BY <1>16, EventOwned DEF SockCheck, TypeOK, EventPcs, SectionPcs
  <2>1. SocketsOK'
    BY <1>16, <2>0, CloseType DEF SockCheck, TypeOK, SocketsOK
  <2>2. WorkersOK'
    BY <1>16 DEF SockCheck, TypeOK, WorkersOK, EventPcs, SectionPcs,
    WorkerPcs, Goto
  <2>3. PeersOK' /\ MainOK' /\ ListsOK' /\ AppsOK'
    BY <1>16 DEF SockCheck, TypeOK, PeersOK, MainOK, ListsOK, AppsOK
  <2>4. QED
    BY <2>1, <2>2, <2>3 DEF TypeOK
<1>17. CASE SockAdd(w)
  <2>0. S(w) \in Socks /\ wev[w] \in Event
    BY <1>17, EventOwned DEF SockAdd, TypeOK, EventPcs, SectionPcs
  <2>1. SocketsOK'
    BY <1>17, <2>0, CloseType, InterestType DEF SockAdd, TypeOK, SocketsOK,
    SockFlags
  <2>2. ListsOK'
    BY <1>17, <2>0 DEF SockAdd, TypeOK, ListsOK
  <2>3. WorkersOK'
    BY <1>17 DEF SockAdd, TypeOK, WorkersOK, EventPcs, SectionPcs, WorkerPcs,
    Goto
  <2>4. PeersOK' /\ MainOK' /\ AppsOK'
    BY <1>17 DEF SockAdd, TypeOK, PeersOK, MainOK, AppsOK
  <2>5. QED
    BY <2>1, <2>2, <2>3, <2>4 DEF TypeOK
<1>18. CASE SockCanRead(w)
  <2>0. S(w) \in Socks /\ wev[w] \in Event
    BY <1>18, EventOwned DEF SockCanRead, TypeOK, EventPcs, SectionPcs
  <2>1. SocketsOK'
    BY <1>18, <2>0, CallbackAssumption, AfterCallbackType, ReadType DEF
    SockCanRead, TypeOK, SocketsOK, ReadEnd
  <2>2. PeersOK'
    BY <1>18, <2>0 DEF SockCanRead, TypeOK, PeersOK
  <2>3. WorkersOK'
    BY <1>18 DEF SockCanRead, TypeOK, WorkersOK, EventPcs, SectionPcs,
    WorkerPcs, Goto
  <2>4. MainOK' /\ ListsOK' /\ AppsOK'
    BY <1>18 DEF SockCanRead, TypeOK, MainOK, ListsOK, AppsOK
  <2>5. QED
    BY <2>1, <2>2, <2>3, <2>4 DEF TypeOK
<1>19. CASE SockCanWrite(w)
  <2>0. S(w) \in Socks /\ wev[w] \in Event
    BY <1>19, EventOwned DEF SockCanWrite, TypeOK, EventPcs, SectionPcs
  <2>1. SocketsOK'
    BY <1>19, <2>0, CallbackAssumption, AfterCallbackType, CloseType DEF
    SockCanWrite, TypeOK, SocketsOK
  <2>2. PeersOK'
    BY <1>19, <2>0 DEF SockCanWrite, TypeOK, PeersOK
  <2>3. WorkersOK'
    BY <1>19 DEF SockCanWrite, TypeOK, WorkersOK, EventPcs, SectionPcs,
    WorkerPcs, Goto
  <2>4. MainOK' /\ ListsOK' /\ AppsOK'
    BY <1>19 DEF SockCanWrite, TypeOK, MainOK, ListsOK, AppsOK
  <2>5. QED
    BY <2>1, <2>2, <2>3, <2>4 DEF TypeOK
<1>20. CASE SockRearm(w)
  <2>0. S(w) \in Socks /\ wev[w] \in Event
    BY <1>20, EventOwned DEF SockRearm, TypeOK, EventPcs, SectionPcs
  <2>1. SocketsOK'
    BY <1>20, <2>0, CloseType, InterestType DEF SockRearm, TypeOK, SocketsOK
  <2>2. WorkersOK'
    BY <1>20 DEF SockRearm, TypeOK, WorkersOK, EventPcs, SectionPcs,
    WorkerPcs, Goto
  <2>3. PeersOK' /\ MainOK' /\ ListsOK' /\ AppsOK'
    BY <1>20 DEF SockRearm, TypeOK, PeersOK, MainOK, ListsOK, AppsOK
  <2>4. QED
    BY <2>1, <2>2, <2>3 DEF TypeOK
<1>21. CASE SockError(w)
  <2>0. S(w) \in Socks /\ wev[w] \in Event
    BY <1>21, EventOwned DEF SockError, TypeOK, EventPcs, SectionPcs
  <2>1. SocketsOK'
    BY <1>21, <2>0, CloseType DEF SockError, TypeOK, SocketsOK
  <2>2. WorkersOK'
    BY <1>21 DEF SockError, TypeOK, WorkersOK, EventPcs, SectionPcs,
    WorkerPcs, Goto
  <2>3. PeersOK' /\ MainOK' /\ ListsOK' /\ AppsOK'
    BY <1>21 DEF SockError, TypeOK, PeersOK, MainOK, ListsOK, AppsOK
  <2>4. QED
    BY <2>1, <2>2, <2>3 DEF TypeOK
<1>22. CASE SockClosed(w)
  <2>1. ListsOK'
    BY <1>22 DEF SockClosed, TypeOK, ListsOK
  <2>2. WorkersOK'
    BY <1>22 DEF SockClosed, TypeOK, WorkersOK, EventPcs, SectionPcs,
    WorkerPcs, Goto
  <2>3. SocketsOK' /\ PeersOK' /\ MainOK' /\ AppsOK'
    BY <1>22 DEF SockClosed, TypeOK, SocketsOK, PeersOK, MainOK, AppsOK
  <2>4. QED
    BY <2>1, <2>2, <2>3 DEF TypeOK
<1>23. CASE SockDisconnected(w)
  <2>1. SocketsOK'
    BY <1>23 DEF SockDisconnected, TypeOK, SocketsOK
  <2>2. WorkersOK'
    BY <1>23 DEF SockDisconnected, TypeOK, WorkersOK, EventPcs, SectionPcs,
    WorkerPcs, Goto
  <2>3. PeersOK' /\ MainOK' /\ ListsOK' /\ AppsOK'
    BY <1>23 DEF SockDisconnected, TypeOK, PeersOK, MainOK, ListsOK, AppsOK
  <2>4. QED
    BY <2>1, <2>2, <2>3 DEF TypeOK
<1>24. CASE SockFree(w)
  <2>0. S(w) \in Socks /\ wev[w] \in Event
    BY <1>24, EventOwned DEF SockFree, TypeOK, EventPcs, SectionPcs
  <2>1. SocketsOK'
    BY <1>24, <2>0 DEF SockFree, TypeOK, SocketsOK
  <2>2. MainOK'
    BY <1>24 DEF SockFree, TypeOK, MainOK, MainPcs
  <2>3. ListsOK'
    BY <1>24, <2>0 DEF SockFree, TypeOK, ListsOK
  <2>4. WorkersOK'
    BY <1>24 DEF SockFree, TypeOK, WorkersOK, EventPcs, SectionPcs, WorkerPcs,
    Goto
  <2>5. PeersOK' /\ AppsOK'
    BY <1>24 DEF SockFree, TypeOK, PeersOK, AppsOK
  <2>6. QED
    BY <2>1, <2>2, <2>3, <2>4, <2>5 DEF TypeOK
<1>25. QED
  BY <1>1, <1>2, <1>3, <1>4, <1>5, <1>6, <1>7, <1>8, <1>9, <1>10, <1>11,
    <1>12, <1>13, <1>14, <1>15, <1>16, <1>17, <1>18, <1>19, <1>20, <1>21,
    <1>22, <1>23, <1>24 DEF WorkerNext

\* A step of another thread.
LEMMA AppTypes ==
    ASSUME NEW a \in Apps, TypeOK, AppNext(a)
    PROVE  TypeOK'
<1>1. CASE AppCall(a)
  <2>1. SocketsOK'
    BY <1>1, CallbackAssumption, AppWriteType, CloseType DEF AppCall, TypeOK,
    SocketsOK
  <2>2. PeersOK'
    BY <1>1 DEF AppCall, TypeOK, PeersOK
  <2>3. AppsOK'
    BY <1>1 DEF AppCall, TypeOK, AppsOK
  <2>4. MainOK' /\ ListsOK' /\ WorkersOK'
    BY <1>1 DEF AppCall, TypeOK, MainOK, ListsOK, WorkersOK
  <2>5. QED
    BY <2>1, <2>2, <2>3, <2>4 DEF TypeOK
<1>2. CASE AppUpdate(a)
  <2>1. SocketsOK'
    BY <1>2, CloseType, InterestType DEF AppUpdate, TypeOK, SocketsOK, AppsOK
  <2>2. AppsOK'
    BY <1>2 DEF AppUpdate, TypeOK, AppsOK
  <2>3. PeersOK' /\ MainOK' /\ ListsOK' /\ WorkersOK'
    BY <1>2 DEF AppUpdate, TypeOK, PeersOK, MainOK, ListsOK, WorkersOK
  <2>4. QED
    BY <2>1, <2>2, <2>3 DEF TypeOK
<1>3. CASE AppRelay(a)
  <2>1. MainOK'
    BY <1>3 DEF AppRelay, TypeOK, MainOK, MainPcs
  <2>2. ListsOK'
    BY <1>3 DEF AppRelay, TypeOK, ListsOK, Event, Ev, EventType, AppsOK
  <2>3. AppsOK'
    BY <1>3 DEF AppRelay, TypeOK, AppsOK
  <2>4. SocketsOK' /\ PeersOK' /\ WorkersOK'
    BY <1>3 DEF AppRelay, TypeOK, SocketsOK, PeersOK, WorkersOK
  <2>5. QED
    BY <2>1, <2>2, <2>3, <2>4 DEF TypeOK
<1>4. QED
  BY <1>1, <1>2, <1>3 DEF AppNext

\* A step of a client.
LEMMA ClientTypes ==
    ASSUME NEW s \in Socks, TypeOK, ClientNext(s)
    PROVE  TypeOK'
<1>1. CASE ClientConnect(s)
  BY <1>1 DEF ClientConnect, TypeOK, SocketsOK, PeersOK, MainOK, ListsOK,
  WorkersOK, AppsOK
<1>2. CASE ClientSend(s)
  BY <1>2 DEF ClientSend, TypeOK, SocketsOK, PeersOK, MainOK, ListsOK,
  WorkersOK, AppsOK
<1>3. CASE ClientRecv(s)
  BY <1>3 DEF ClientRecv, TypeOK, SocketsOK, PeersOK, MainOK, ListsOK,
  WorkersOK, AppsOK
<1>4. CASE ClientLeave(s)
  <2>1. PeersOK'
    BY <1>4, EnvironmentAssumption DEF ClientLeave, TypeOK, PeersOK
  <2>2. SocketsOK' /\ MainOK' /\ ListsOK' /\ WorkersOK' /\ AppsOK'
    BY <1>4 DEF ClientLeave, TypeOK, SocketsOK, MainOK, ListsOK, WorkersOK,
    AppsOK
  <2>3. QED
    BY <2>1, <2>2 DEF TypeOK
<1>5. QED
  BY <1>1, <1>2, <1>3, <1>4 DEF ClientNext

-----------------------------------------------------------------------------
(* The type invariant *)

LEMMA TypeInit == Init => TypeOK
<1> SUFFICES ASSUME Init PROVE TypeOK
  OBVIOUS
<1>1. SocketsOK /\ PeersOK
  BY DEF Init, SocketsOK, PeersOK, SockFlags
<1>2. MainOK
  BY DEF Init, MainOK, MainPcs
<1>3. ListsOK
  BY DEF Init, ListsOK
<1>4. WorkersOK
  BY DEF Init, WorkersOK, WorkerPcs, EventPcs, SectionPcs
<1>5. AppsOK
  BY ThreadsAssumption DEF Init, AppsOK
<1>6. QED
  BY <1>1, <1>2, <1>3, <1>4, <1>5 DEF TypeOK

LEMMA TypeStep == TypeOK /\ [Next]_vars => TypeOK'
<1> SUFFICES ASSUME TypeOK, [Next]_vars PROVE TypeOK'
  OBVIOUS
<1>1. CASE MainNext
  BY <1>1, MainTypes
<1>2. ASSUME NEW w \in Workers, WorkerNext(w) \/ SpuriousWake(w) PROVE TypeOK'
  BY <1>2, WorkerTypes
<1>3. ASSUME NEW a \in Apps, AppNext(a) PROVE TypeOK'
  BY <1>3, AppTypes
<1>4. ASSUME NEW s \in Socks, ClientNext(s) PROVE TypeOK'
  BY <1>4, ClientTypes
<1>5. CASE Stop
  BY <1>5 DEF Stop, TypeOK, SocketsOK, PeersOK, MainOK, ListsOK, WorkersOK, AppsOK
<1>6. CASE UNCHANGED vars
  BY <1>6 DEF vars, TypeOK, SocketsOK, PeersOK, MainOK, ListsOK, WorkersOK, AppsOK
<1>7. QED
  BY <1>1, <1>2, <1>3, <1>4, <1>5, <1>6 DEF Next, Done

\* Whatever the number of threads, sockets and faults, every variable of the
\* server keeps its shape; above all a worker inside worker_event owns an
\* event of a client socket, so it never works on NULL.
THEOREM TypeCorrect == Spec => []TypeOK
<1>1. QED
  BY TypeInit, TypeStep, PTL DEF Spec

-----------------------------------------------------------------------------
(* Mutual exclusion of the callbacks.                                      *)
(*                                                                         *)
(* TypeOK /\ CallbackExclusion is inductive.  Two facts carry the argument *)
(* for all steps but two: the step keeps the lock flags of every socket,   *)
(* whatever else it does to the state word, and no worker enters a section *)
(* or changes its event in one.                                            *)

LockPart(f) == f \cap {"READ_LOCKED", "WRITE_LOCKED"}

LocksKept == \A s \in Socks : LockPart(flags'[s]) = LockPart(flags[s])

SectionsKept ==
    \A w \in Workers : InSection(w)' => InSection(w) /\ wev'[w] = wev[w]

LEMMA ExclusionFrame ==
    ASSUME TypeOK, CallbackExclusion, LocksKept, SectionsKept
    PROVE  CallbackExclusion'
<1>1. ASSUME NEW w \in Workers, InSection(w)'
      PROVE  /\ wev'[w] = wev[w] /\ InSection(w)
             /\ S(w) \in Socks /\ S(w)' = S(w)
  <2>1. InSection(w) /\ wev'[w] = wev[w]
    BY <1>1 DEF SectionsKept
  <2>2. QED
    BY <2>1, EventOwned DEF InSection, EventPcs, S
<1>2. ASSUME NEW w \in Workers, InSection(w)'
      PROVE  (Locks(wev[w].type) \subseteq flags[S(w)])'
  <2>1. Locks(wev[w].type) \subseteq LockPart(flags[S(w)])
    BY <1>1, <1>2, LocksType DEF CallbackExclusion, LockPart
  <2>2. Locks(wev[w].type) \subseteq LockPart(flags'[S(w)])
    BY <1>1, <1>2, <2>1 DEF LocksKept
  <2>3. QED
    BY <1>1, <1>2, <2>2 DEF LockPart
<1>3. QED
  BY <1>1, <1>2 DEF CallbackExclusion

\* No socket call touches the lock flags.
LEMMA CloseLocks ==
    ASSUME NEW f
    PROVE  LockPart(CloseState(f)) = LockPart(f)
BY DEF LockPart, CloseState

LEMMA ReadLocks ==
    ASSUME NEW f, NEW r \in {"data", "again", "wants_write", "eof", "error"}
    PROVE  LockPart(ReadState(f, r)) = LockPart(f)
<1>1. LockPart(ReadResult(r)) = {}
  BY DEF LockPart, ReadResult
<1>2. QED
  BY <1>1 DEF LockPart, ReadState, ReadAgain, NblWriteOnly

LEMMA WriteLocks ==
    ASSUME NEW s, NEW f, NEW o \in WriteEnds(s)
    PROVE  LockPart(WriteState(f, o)) = LockPart(f)
<1>1. o \in {"ok", "again", "wants_read", "error"}
  BY CallbackAssumption DEF WriteEnds
<1>2. LockPart(WriteResult(o)) = {}
  BY <1>1 DEF LockPart, WriteResult
<1>3. QED
  BY <1>2 DEF LockPart, WriteState, WriteAgain, NblWriteOnly, NblReadOnly

LEMMA AfterCallbackLocks ==
    ASSUME NEW s, NEW f, NEW x \in {"none", "write", "close"},
           NEW g \in AfterCallback(s, f, x)
    PROVE  LockPart(g) = LockPart(f)
<1>1. CASE x = "none"
  BY <1>1 DEF AfterCallback
<1>2. CASE x = "close"
  BY <1>2, CloseLocks DEF AfterCallback
<1>3. CASE x = "write"
  BY <1>3, WriteLocks DEF AfterCallback
<1>4. QED
  BY <1>1, <1>2, <1>3

\* A step of the main thread keeps the lock flags and starts no section.
LEMMA MainExclusion ==
    ASSUME TypeOK, CallbackExclusion, MainNext
    PROVE  CallbackExclusion'
<1>1. CASE MainLoop
  BY <1>1 DEF MainLoop, CallbackExclusion, InSection, S
<1>2. CASE MainListen
  BY <1>2 DEF MainListen, CallbackExclusion, InSection, S
<1>3. CASE MainInterrupted
  BY <1>3 DEF MainInterrupted, CallbackExclusion, InSection, S
<1>4. CASE MainListenFails
  BY <1>4 DEF MainListenFails, CallbackExclusion, InSection, S
<1>5. CASE MainLockEvents
  <2>1. LocksKept
    BY <1>5 DEF MainLockEvents, LocksKept
  <2>2. SectionsKept
    BY <1>5 DEF MainLockEvents, SectionsKept, InSection, SectionPcs, TypeOK,
    WorkersOK
  <2>3. QED
    BY <2>1, <2>2, ExclusionFrame
<1>6. CASE MainRelease
  <2>1. LocksKept
    BY <1>6 DEF MainRelease, LocksKept, TypeOK, SocketsOK, LockPart
  <2>2. SectionsKept
    BY <1>6 DEF MainRelease, SectionsKept, InSection
  <2>3. QED
    BY <2>1, <2>2, ExclusionFrame
<1>7. CASE MainRelay
  BY <1>7 DEF MainRelay, CallbackExclusion, InSection, S
<1>8. CASE MainDispatch
  <2>1. LocksKept
    BY <1>8, CloseLocks DEF MainDispatch, LocksKept, TypeOK, SocketsOK, MainOK
  <2>2. SectionsKept
    BY <1>8 DEF MainDispatch, SectionsKept, InSection
  <2>3. QED
    BY <2>1, <2>2, ExclusionFrame
<1>9. CASE MainUnlockEvents
  <2>1. LocksKept
    BY <1>9 DEF MainUnlockEvents, LocksKept
  <2>2. SectionsKept
    BY <1>9 DEF MainUnlockEvents, SectionsKept, InSection, SectionPcs, TypeOK,
    WorkersOK, SignalAll
  <2>3. QED
    BY <2>1, <2>2, ExclusionFrame
<1>10. CASE MainAccept
  <2>1. LocksKept
    BY <1>10 DEF MainAccept, LocksKept
  <2>2. SectionsKept
    BY <1>10 DEF MainAccept, SectionsKept, InSection, SectionPcs, TypeOK,
    WorkersOK, SignalOne, Waiting
  <2>3. QED
    BY <2>1, <2>2, ExclusionFrame
<1>11. CASE MainAcceptAgain
  BY <1>11 DEF MainAcceptAgain, CallbackExclusion, InSection, S
<1>12. CASE DrainSignal
  <2>1. LocksKept
    BY <1>12 DEF DrainSignal, LocksKept
  <2>2. SectionsKept
    BY <1>12 DEF DrainSignal, SectionsKept, InSection, SectionPcs, TypeOK,
    WorkersOK, SignalAll
  <2>3. QED
    BY <2>1, <2>2, ExclusionFrame
<1>13. CASE DrainAwait
  <2>1. LocksKept
    BY <1>13 DEF DrainAwait, LocksKept
  <2>2. SectionsKept
    BY <1>13 DEF DrainAwait, SectionsKept, InSection, SectionPcs, TypeOK,
    WorkersOK
  <2>3. QED
    BY <2>1, <2>2, ExclusionFrame
<1>14. CASE DrainClose
  <2>1. LocksKept
    BY <1>14, CloseLocks DEF DrainClose, LocksKept, TypeOK, SocketsOK
  <2>2. SectionsKept
    BY <1>14 DEF DrainClose, SectionsKept, InSection, SectionPcs, TypeOK,
    WorkersOK
  <2>3. QED
    BY <2>1, <2>2, ExclusionFrame
<1>15. CASE Join
  BY <1>15 DEF Join, CallbackExclusion, InSection, S
<1>16. CASE Clean
  BY <1>16 DEF Clean, CallbackExclusion, InSection, S
<1>17. QED
  BY <1>1, <1>2, <1>3, <1>4, <1>5, <1>6, <1>7, <1>8, <1>9, <1>10, <1>11,
    <1>12, <1>13, <1>14, <1>15, <1>16 DEF MainNext

\* A step of a worker: only trylock and unlock touch the lock flags.
LEMMA WorkerExclusion ==
    ASSUME NEW w \in Workers, TypeOK, CallbackExclusion, WorkerNext(w) \/ SpuriousWake(w)
    PROVE  CallbackExclusion'
<1>1. CASE WorkerTop(w)
  <2>1. LocksKept
    BY <1>1 DEF WorkerTop, LocksKept
  <2>2. SectionsKept
    BY <1>1 DEF WorkerTop, SectionsKept, InSection, SectionPcs, TypeOK,
    WorkersOK, Goto
  <2>3. QED
    BY <2>1, <2>2, ExclusionFrame
<1>2. CASE WorkerPoll(w)
  <2>1. LocksKept
    BY <1>2 DEF WorkerPoll, LocksKept
  <2>2. SectionsKept
    BY <1>2 DEF WorkerPoll, SectionsKept, InSection, SectionPcs, TypeOK,
    WorkersOK, Goto
  <2>3. QED
    BY <2>1, <2>2, ExclusionFrame
<1>3. CASE WorkerEmpty(w)
  <2>1. LocksKept
    BY <1>3 DEF WorkerEmpty, LocksKept
  <2>2. SectionsKept
    BY <1>3 DEF WorkerEmpty, SectionsKept, InSection, SectionPcs, TypeOK,
    WorkersOK, Goto
  <2>3. QED
    BY <2>1, <2>2, ExclusionFrame
<1>4. CASE WorkerWait(w)
  <2>1. LocksKept
    BY <1>4 DEF WorkerWait, LocksKept
  <2>2. SectionsKept
    BY <1>4 DEF WorkerWait, SectionsKept, InSection, SectionPcs, TypeOK,
    WorkersOK, Goto
  <2>3. QED
    BY <2>1, <2>2, ExclusionFrame
<1>5. CASE SpuriousWake(w)
  <2>1. LocksKept
    BY <1>5 DEF SpuriousWake, LocksKept
  <2>2. SectionsKept
    BY <1>5 DEF SpuriousWake, SectionsKept, InSection, SectionPcs, TypeOK,
    WorkersOK, Goto
  <2>3. QED
    BY <2>1, <2>2, ExclusionFrame
<1>6. CASE WorkerCount(w)
  <2>1. LocksKept
    BY <1>6 DEF WorkerCount, LocksKept
  <2>2. SectionsKept
    BY <1>6 DEF WorkerCount, SectionsKept, InSection, SectionPcs, TypeOK,
    WorkersOK, Goto
  <2>3. QED
    BY <2>1, <2>2, ExclusionFrame
<1>7. CASE WorkerAwait(w)
  <2>1. LocksKept
    BY <1>7 DEF WorkerAwait, LocksKept
  <2>2. SectionsKept
    BY <1>7 DEF WorkerAwait, SectionsKept, InSection, SectionPcs, TypeOK,
    WorkersOK, Goto
  <2>3. QED
    BY <2>1, <2>2, ExclusionFrame
<1>8. CASE WorkerEnd(w)
  <2>1. LocksKept
    BY <1>8 DEF WorkerEnd, LocksKept
  <2>2. SectionsKept
    BY <1>8 DEF WorkerEnd, SectionsKept, InSection, SectionPcs, TypeOK,
    WorkersOK, Goto
  <2>3. QED
    BY <2>1, <2>2, ExclusionFrame
<1>9. CASE SockEventState(w)
  <2>1. LocksKept
    BY <1>9 DEF SockEventState, LocksKept
  <2>2. SectionsKept
    BY <1>9 DEF SockEventState, SectionsKept, InSection, SectionPcs, TypeOK,
    WorkersOK, Goto
  <2>3. QED
    BY <2>1, <2>2, ExclusionFrame
<1>10. CASE SockTrylock(w)
  <2>1. S(w) \in Socks /\ wev[w] \in Event
    BY <1>10, EventOwned DEF SockTrylock, EventPcs
  <2> DEFINE t == wev[w].type
             ok == flags[S(w)] \cap Locks(t) = {}
  <2>2. /\ flags' = [flags EXCEPT ![S(w)] = IF ok THEN @ \cup Locks(t) ELSE @]
        /\ wpc' = [wpc EXCEPT ![w] = AfterTrylock(t, ok)]
        /\ UNCHANGED wev /\ ~InSection(w)
    BY <1>10 DEF SockTrylock, Goto, InSection, SectionPcs
  <2>3. CASE ok
    <3>1. \A v \in Workers : S(v)' = S(v) /\ wev'[v] = wev[v]
      BY <2>2 DEF S
    <3>2. \A v \in Workers \ {w} : InSection(v)' = InSection(v)
      BY <2>2 DEF InSection, TypeOK, WorkersOK
    <3>3. Locks(t) \subseteq flags'[S(w)]
      BY <2>1, <2>2, <2>3 DEF TypeOK, SocketsOK
    <3>4. \A s \in Socks : flags[s] \subseteq flags'[s]
      BY <2>1, <2>2, <2>3 DEF TypeOK, SocketsOK
    <3>5. ASSUME NEW v \in Workers \ {w}, InSection(v)
          PROVE  /\ Locks(wev[v].type) \subseteq flags'[S(v)]
                 /\ S(v) = S(w) => Locks(wev[v].type) \cap Locks(t) = {}
      <4>1. S(v) \in Socks
        BY <3>5, EventOwned DEF InSection, EventPcs
      <4>2. Locks(wev[v].type) \subseteq flags[S(v)]
        BY <3>5 DEF CallbackExclusion
      <4>3. QED
        BY <2>3, <3>4, <4>1, <4>2
    <3>6. QED
      BY <3>1, <3>2, <3>3, <3>5 DEF CallbackExclusion
  <2>4. CASE ~ok
    <3>1. AfterTrylock(t, FALSE) \notin SectionPcs
      BY <2>1 DEF AfterTrylock, SectionPcs, Event, EventType
    <3>2. UNCHANGED flags
      BY <2>1, <2>2, <2>4 DEF TypeOK, SocketsOK
    <3>3. LocksKept
      BY <3>2 DEF LocksKept
    <3>4. SectionsKept
      BY <2>2, <2>4, <3>1 DEF SectionsKept, InSection, TypeOK, WorkersOK
    <3>5. QED
      BY <3>3, <3>4, ExclusionFrame
  <2>5. QED
    BY <2>3, <2>4
<1>11. CASE AddEvent(w)
  <2>1. LocksKept
    BY <1>11 DEF AddEvent, LocksKept
  <2>2. SectionsKept
    BY <1>11 DEF AddEvent, SectionsKept, InSection, SectionPcs, TypeOK,
    WorkersOK, Goto, SignalOne, Waiting
  <2>3. QED
    BY <2>1, <2>2, ExclusionFrame
<1>12. CASE SockUnlock(w)
  <2>1. S(w) \in Socks
    BY <1>12, EventOwned DEF SockUnlock, EventPcs, SectionPcs
  <2>2. /\ flags' = [flags EXCEPT ![S(w)] = @ \ Locks(wev[w].type)]
        /\ wpc' = [wpc EXCEPT ![w] = "unref"]
        /\ UNCHANGED wev /\ InSection(w)
    BY <1>12 DEF SockUnlock, Goto, InSection, SectionPcs
  <2>3. "unref" \notin SectionPcs
    BY DEF SectionPcs
  <2>4. \A v \in Workers : /\ InSection(v)' => InSection(v) /\ v # w
                           /\ S(v)' = S(v) /\ wev'[v] = wev[v]
    BY <2>2, <2>3 DEF InSection, S, TypeOK, WorkersOK
  <2>5. ASSUME NEW v \in Workers \ {w}, InSection(v)
        PROVE  Locks(wev[v].type) \subseteq flags'[S(v)]
    <3>1. S(v) \in Socks /\ Locks(wev[v].type) \subseteq flags[S(v)]
      BY <2>5, EventOwned DEF InSection, EventPcs, CallbackExclusion
    <3>2. S(v) = S(w) => Locks(wev[v].type) \cap Locks(wev[w].type) = {}
      BY <2>2, <2>5 DEF CallbackExclusion
    <3>3. QED
      BY <2>1, <2>2, <3>1, <3>2 DEF TypeOK, SocketsOK
  <2>6. QED
    BY <2>4, <2>5 DEF CallbackExclusion
<1>13. CASE SockUnref(w)
  <2>1. LocksKept
    BY <1>13 DEF SockUnref, LocksKept
  <2>2. SectionsKept
    BY <1>13 DEF SockUnref, SectionsKept, InSection, SectionPcs, TypeOK,
    WorkersOK, Goto
  <2>3. QED
    BY <2>1, <2>2, ExclusionFrame
<1>14. CASE SockAccepted(w)
  <2>1. LocksKept
    BY <1>14, CloseLocks DEF SockAccepted, LocksKept, TypeOK, SocketsOK
  <2>2. SectionsKept
    BY <1>14 DEF SockAccepted, SectionsKept, InSection, SectionPcs, TypeOK,
    WorkersOK, Goto
  <2>3. QED
    BY <2>1, <2>2, ExclusionFrame
<1>15. CASE SockConnected(w)
  <2>1. LocksKept
    BY <1>15, CallbackAssumption, AfterCallbackLocks DEF SockConnected,
    LocksKept, TypeOK, SocketsOK, LockPart
  <2>2. SectionsKept
    BY <1>15 DEF SockConnected, SectionsKept, InSection, SectionPcs, TypeOK,
    WorkersOK, Goto
  <2>3. QED
    BY <2>1, <2>2, ExclusionFrame
<1>16. CASE SockCheck(w)
  <2>1. LocksKept
    BY <1>16, CloseLocks DEF SockCheck, LocksKept, TypeOK, SocketsOK
  <2>2. SectionsKept
    BY <1>16 DEF SockCheck, SectionsKept, InSection, SectionPcs, TypeOK,
    WorkersOK, Goto
  <2>3. QED
    BY <2>1, <2>2, ExclusionFrame
<1>17. CASE SockAdd(w)
  <2>1. LocksKept
    BY <1>17, CloseLocks DEF SockAdd, LocksKept, TypeOK, SocketsOK, LockPart
  <2>2. SectionsKept
    BY <1>17 DEF SockAdd, SectionsKept, InSection, SectionPcs, TypeOK,
    WorkersOK, Goto
  <2>3. QED
    BY <2>1, <2>2, ExclusionFrame
<1>18. CASE SockCanRead(w)
  <2>1. LocksKept
    BY <1>18, AfterCallbackLocks, ReadLocks, CallbackAssumption DEF
    SockCanRead, LocksKept, TypeOK, SocketsOK, ReadEnd
  <2>2. SectionsKept
    BY <1>18 DEF SockCanRead, SectionsKept, InSection, SectionPcs, TypeOK,
    WorkersOK, Goto
  <2>3. QED
    BY <2>1, <2>2, ExclusionFrame
<1>19. CASE SockCanWrite(w)
  <2>1. LocksKept
    BY <1>19, AfterCallbackLocks, CloseLocks DEF SockCanWrite, LocksKept,
    TypeOK, SocketsOK
  <2>2. SectionsKept
    BY <1>19 DEF SockCanWrite, SectionsKept, InSection, SectionPcs, TypeOK,
    WorkersOK, Goto
  <2>3. QED
    BY <2>1, <2>2, ExclusionFrame
<1>20. CASE SockRearm(w)
  <2>1. LocksKept
    BY <1>20, CloseLocks DEF SockRearm, LocksKept, TypeOK, SocketsOK
  <2>2. SectionsKept
    BY <1>20 DEF SockRearm, SectionsKept, InSection, SectionPcs, TypeOK,
    WorkersOK, Goto
  <2>3. QED
    BY <2>1, <2>2, ExclusionFrame
<1>21. CASE SockError(w)
  <2>1. LocksKept
    BY <1>21, CloseLocks DEF SockError, LocksKept, TypeOK, SocketsOK
  <2>2. SectionsKept
    BY <1>21 DEF SockError, SectionsKept, InSection, SectionPcs, TypeOK,
    WorkersOK, Goto
  <2>3. QED
    BY <2>1, <2>2, ExclusionFrame
<1>22. CASE SockClosed(w)
  <2>1. LocksKept
    BY <1>22 DEF SockClosed, LocksKept
  <2>2. SectionsKept
    BY <1>22 DEF SockClosed, SectionsKept, InSection, SectionPcs, TypeOK,
    WorkersOK, Goto
  <2>3. QED
    BY <2>1, <2>2, ExclusionFrame
<1>23. CASE SockDisconnected(w)
  <2>1. LocksKept
    BY <1>23 DEF SockDisconnected, LocksKept
  <2>2. SectionsKept
    BY <1>23 DEF SockDisconnected, SectionsKept, InSection, SectionPcs,
    TypeOK, WorkersOK, Goto
  <2>3. QED
    BY <2>1, <2>2, ExclusionFrame
<1>24. CASE SockFree(w)
  <2>1. LocksKept
    BY <1>24 DEF SockFree, LocksKept
  <2>2. SectionsKept
    BY <1>24 DEF SockFree, SectionsKept, InSection, SectionPcs, TypeOK,
    WorkersOK, Goto
  <2>3. QED
    BY <2>1, <2>2, ExclusionFrame
<1>25. QED
  BY <1>1, <1>2, <1>3, <1>4, <1>5, <1>6, <1>7, <1>8, <1>9, <1>10, <1>11,
    <1>12, <1>13, <1>14, <1>15, <1>16, <1>17, <1>18, <1>19, <1>20, <1>21,
    <1>22, <1>23, <1>24 DEF WorkerNext

\* A step of another thread.
LEMMA AppExclusion ==
    ASSUME NEW a \in Apps, TypeOK, CallbackExclusion, AppNext(a)
    PROVE  CallbackExclusion'
<1>1. CASE AppCall(a)
  <2>1. LocksKept
    BY <1>1, CloseLocks, WriteLocks DEF AppCall, LocksKept, TypeOK, SocketsOK
  <2>2. SectionsKept
    BY <1>1 DEF AppCall, SectionsKept, InSection
  <2>3. QED
    BY <2>1, <2>2, ExclusionFrame
<1>2. CASE AppUpdate(a)
  <2>1. LocksKept
    BY <1>2, CloseLocks DEF AppUpdate, LocksKept, TypeOK, SocketsOK
  <2>2. SectionsKept
    BY <1>2 DEF AppUpdate, SectionsKept, InSection
  <2>3. QED
    BY <2>1, <2>2, ExclusionFrame
<1>3. CASE AppRelay(a)
  BY <1>3 DEF AppRelay, CallbackExclusion, InSection, S
<1>4. QED
  BY <1>1, <1>2, <1>3 DEF AppNext

\* A step of a client.
LEMMA ClientExclusion ==
    ASSUME NEW s \in Socks, TypeOK, CallbackExclusion, ClientNext(s)
    PROVE  CallbackExclusion'
<1>1. CASE ClientConnect(s)
  BY <1>1 DEF ClientConnect, CallbackExclusion, InSection, S
<1>2. CASE ClientSend(s)
  BY <1>2 DEF ClientSend, CallbackExclusion, InSection, S
<1>3. CASE ClientRecv(s)
  BY <1>3 DEF ClientRecv, CallbackExclusion, InSection, S
<1>4. CASE ClientLeave(s)
  BY <1>4 DEF ClientLeave, CallbackExclusion, InSection, S
<1>5. QED
  BY <1>1, <1>2, <1>3, <1>4 DEF ClientNext

LEMMA ExclusionStep == TypeOK /\ CallbackExclusion /\ [Next]_vars => CallbackExclusion'
<1> SUFFICES ASSUME TypeOK, CallbackExclusion, [Next]_vars PROVE CallbackExclusion'
  OBVIOUS
<1>1. CASE MainNext
  BY <1>1, MainExclusion
<1>2. ASSUME NEW w \in Workers, WorkerNext(w) \/ SpuriousWake(w)
      PROVE  CallbackExclusion'
  BY <1>2, WorkerExclusion
<1>3. ASSUME NEW a \in Apps, AppNext(a) PROVE CallbackExclusion'
  BY <1>3, AppExclusion
<1>4. ASSUME NEW s \in Socks, ClientNext(s) PROVE CallbackExclusion'
  BY <1>4, ClientExclusion
<1>5. CASE Stop
  BY <1>5 DEF Stop, CallbackExclusion, InSection, S
<1>6. CASE UNCHANGED vars
  BY <1>6 DEF vars, CallbackExclusion, InSection, S
<1>7. QED
  BY <1>1, <1>2, <1>3, <1>4, <1>5, <1>6 DEF Next, Done

\* For any number of workers and sockets, whatever the callbacks, the other
\* threads, the clients and the faults do: sock_trylock and sock_unlock make
\* the handlers of one socket exclude each other per direction, and CLOSED
\* and ERROR handlers exclude all others.
THEOREM Exclusion == Spec => []CallbackExclusion
<1>1. Init => CallbackExclusion
  BY DEF Init, CallbackExclusion, InSection, SectionPcs
<1>2. QED
  BY <1>1, TypeCorrect, ExclusionStep, PTL DEF Spec


(***************************************************************************)
(* The reference counts of the threaded stream server: for any number of   *)
(* workers, sockets and other threads and every choice of callbacks and    *)
(* faults, a socket's refcount is the number of places that hold it.       *)
(***************************************************************************)

-----------------------------------------------------------------------------
(* Counting the entries of a sequence that lie in a set *)

At(q, V) == {i \in DOMAIN q : q[i] \in V}

CountIn(q, V) == Cardinality(At(q, V))

LEMMA CountInType ==
    ASSUME NEW T, NEW q \in Seq(T), NEW V
    PROVE  IsFiniteSet(At(q, V)) /\ CountIn(q, V) \in Nat
<1>1. DOMAIN q = 1 .. Len(q) /\ Len(q) \in Nat
  OBVIOUS
<1>2. IsFiniteSet(1 .. Len(q))
  BY <1>1, FS_Interval
<1>3. At(q, V) \in SUBSET (1 .. Len(q))
  BY <1>1 DEF At
<1>4. IsFiniteSet(At(q, V))
  BY <1>2, <1>3, FS_Subset
<1>5. QED
  BY <1>4, FS_CardinalityType DEF CountIn

LEMMA CountInEmpty ==
    ASSUME NEW V
    PROVE  CountIn(<<>>, V) = 0
<1>1. At(<<>>, V) = {}
  BY DEF At
<1>2. QED
  BY <1>1, FS_EmptySet DEF CountIn

LEMMA CountInOne ==
    ASSUME NEW e, NEW V
    PROVE  CountIn(<<e>>, V) = IF e \in V THEN 1 ELSE 0
<1>1. DOMAIN <<e>> = {1} /\ <<e>>[1] = e
  OBVIOUS
<1>2. At(<<e>>, V) = IF e \in V THEN {1} ELSE {}
  BY <1>1 DEF At
<1>3. QED
  BY <1>2, FS_EmptySet, FS_Singleton DEF CountIn

\* The positions of the second sequence shift by the length of the first.
LEMMA CountInConcat ==
    ASSUME NEW T, NEW q \in Seq(T), NEW r \in Seq(T), NEW V
    PROVE  CountIn(q \o r, V) = CountIn(q, V) + CountIn(r, V)
<1> DEFINE m == Len(q)
           Q == At(q, V)
           R == At(r, V)
           U == {i \in (m + 1) .. (m + Len(r)) : r[i - m] \in V}
           f == [i \in R |-> i + m]
<1>1. m \in Nat /\ Len(r) \in Nat /\ DOMAIN q = 1 .. m /\ DOMAIN r = 1 .. Len(r)
  OBVIOUS
<1>2. /\ DOMAIN (q \o r) = 1 .. (m + Len(r))
      /\ \A i \in 1 .. m : (q \o r)[i] = q[i]
      /\ \A i \in (m + 1) .. (m + Len(r)) : (q \o r)[i] = r[i - m]
  OBVIOUS
<1>3. At(q \o r, V) = Q \cup U /\ Q \cap U = {}
  <2>1. ASSUME NEW i \in 1 .. (m + Len(r))
        PROVE  i \in 1 .. m \/ i \in (m + 1) .. (m + Len(r))
    BY <1>1
  <2>2. Q \cap U = {}
    BY <1>1 DEF At
  <2>3. Q \cup U \subseteq At(q \o r, V)
    BY <1>1, <1>2 DEF At
  <2>4. At(q \o r, V) \subseteq Q \cup U
    BY <1>1, <1>2, <2>1 DEF At
  <2>5. QED
    BY <2>2, <2>3, <2>4
<1>4. f \in Bijection(R, U)
  <2>1. f \in [R -> U]
    BY <1>1 DEF At
  <2>2. \A i, j \in R : f[i] = f[j] => i = j
    BY <1>1 DEF At
  <2>3. ASSUME NEW u \in U PROVE \E i \in R : f[i] = u
    <3>1. u - m \in R /\ f[u - m] = u
      BY <1>1 DEF At
    <3>2. QED
      BY <3>1
  <2> HIDE DEF f, U, R
  <2>4. QED
    BY <2>1, <2>2, <2>3 DEF Bijection, Injection, Surjection, IsInjective
<1>5. IsFiniteSet(Q) /\ IsFiniteSet(R) /\ Cardinality(Q) \in Nat /\ Cardinality(R) \in Nat
  BY CountInType DEF CountIn
<1> HIDE DEF f, U, R, Q, m
<1>6. ExistsBijection(R, U)
  BY <1>4 DEF ExistsBijection
<1>7. IsFiniteSet(U) /\ Cardinality(U) = Cardinality(R)
  BY <1>5, <1>6, FS_Bijection
<1>8. Cardinality(Q \cup U) = Cardinality(Q) + Cardinality(U) - Cardinality({})
  BY <1>3, <1>5, <1>7, FS_Union
<1>9. QED
  BY <1>3, <1>5, <1>7, <1>8, FS_EmptySet DEF CountIn, Q, R

-----------------------------------------------------------------------------
(* The same for the lists of the server *)

EventsOf(s) == {e \in Event : e.sock = s}

LEMMA CountAsIn ==
    ASSUME NEW q \in Seq(Event), NEW s
    PROVE  Count(q, s) = CountIn(q, EventsOf(s))
<1>1. \A i \in DOMAIN q : q[i] \in Event
  OBVIOUS
<1>2. {i \in DOMAIN q : q[i].sock = s} = At(q, EventsOf(s))
  BY <1>1 DEF At, EventsOf
<1>3. QED
  BY <1>2 DEF Count, CountIn

LEMMA CountConcat ==
    ASSUME NEW q \in Seq(Event), NEW r \in Seq(Event), NEW s
    PROVE  Count(q \o r, s) = Count(q, s) + Count(r, s)
<1>1. q \o r \in Seq(Event)
  OBVIOUS
<1>2. Count(q \o r, s) = CountIn(q \o r, EventsOf(s))
  BY <1>1, CountAsIn, Zenon
<1>3. CountIn(q \o r, EventsOf(s)) = CountIn(q, EventsOf(s)) + CountIn(r, EventsOf(s))
  BY CountInConcat, Zenon
<1>4. Count(q, s) = CountIn(q, EventsOf(s)) /\ Count(r, s) = CountIn(r, EventsOf(s))
  BY CountAsIn
<1>5. QED
  BY <1>2, <1>3, <1>4, Zenon

LEMMA CountEmpty ==
    ASSUME NEW s
    PROVE  Count(<<>>, s) = 0
<1>1. <<>> \in Seq(Event)
  OBVIOUS
<1>2. QED
  BY <1>1, CountAsIn, CountInEmpty

LEMMA CountOne ==
    ASSUME NEW e \in Event, NEW s
    PROVE  Count(<<e>>, s) = IF e.sock = s THEN 1 ELSE 0
<1>1. <<e>> \in Seq(Event)
  OBVIOUS
<1>2. QED
  BY <1>1, CountAsIn, CountInOne, ZenonT(60) DEF EventsOf

LEMMA CountAppend ==
    ASSUME NEW q \in Seq(Event), NEW e \in Event, NEW s
    PROVE  Count(Append(q, e), s) = Count(q, s) + (IF e.sock = s THEN 1 ELSE 0)
<1>1. Append(q, e) = q \o <<e>> /\ <<e>> \in Seq(Event)
  OBVIOUS
<1>2. Count(q \o <<e>>, s) = Count(q, s) + Count(<<e>>, s)
  BY <1>1, CountConcat, Zenon
<1>3. Count(<<e>>, s) = IF e.sock = s THEN 1 ELSE 0
  BY CountOne
<1>4. QED
  BY <1>1, <1>2, <1>3, Zenon

LEMMA CountTail ==
    ASSUME NEW q \in Seq(Event), q # <<>>, NEW s
    PROVE  Count(q, s) = Count(Tail(q), s) + (IF Head(q).sock = s THEN 1 ELSE 0)
<1>0. /\ q = <<Head(q)>> \o Tail(q)
      /\ Head(q) \in Event /\ Tail(q) \in Seq(Event)
  OBVIOUS
<1>1. PICK h \in Event, t \in Seq(Event) : q = <<h>> \o t /\ h = Head(q) /\ t = Tail(q)
  BY <1>0, Zenon
<1>2. <<h>> \in Seq(Event)
  OBVIOUS
<1>3. Count(<<h>> \o t, s) = Count(<<h>>, s) + Count(t, s)
  BY <1>2, CountConcat, Zenon
<1>4. Count(q, s) = Count(<<h>>, s) + Count(t, s)
  BY <1>1, <1>3, Zenon
<1>5. Count(<<h>>, s) = (IF h.sock = s THEN 1 ELSE 0) /\ Count(t, s) \in Nat
  BY CountOne, CountType
<1>6. Count(q, s) = Count(t, s) + (IF h.sock = s THEN 1 ELSE 0)
  BY <1>4, <1>5
<1>7. QED
  BY <1>1, <1>6, Zenon

\* How often a socket occurs in the release list.
Only(s) == {s}

Released(q, s) == Cardinality({i \in DOMAIN q : q[i] = s})

LEMMA ReleasedAsIn ==
    ASSUME NEW q, NEW s
    PROVE  Released(q, s) = CountIn(q, Only(s))
<1>1. {i \in DOMAIN q : q[i] = s} = At(q, Only(s))
  BY DEF At, Only
<1>2. QED
  BY <1>1 DEF Released, CountIn

LEMMA ReleasedType ==
    ASSUME NEW q \in Seq(Socks), NEW s
    PROVE  Released(q, s) \in Nat
BY ReleasedAsIn, CountInType

LEMMA ReleasedAppend ==
    ASSUME NEW q \in Seq(Socks), NEW r \in Socks, NEW s
    PROVE  Released(Append(q, r), s) = Released(q, s) + (IF r = s THEN 1 ELSE 0)
<1>1. Append(q, r) = q \o <<r>> /\ <<r>> \in Seq(Socks)
  OBVIOUS
<1>2. CountIn(q \o <<r>>, Only(s)) = CountIn(q, Only(s)) + CountIn(<<r>>, Only(s))
  BY <1>1, CountInConcat, Zenon
<1>3. CountIn(<<r>>, Only(s)) = IF r = s THEN 1 ELSE 0
  BY CountInOne DEF Only
<1>4. Released(Append(q, r), s) = CountIn(q \o <<r>>, Only(s))
  <2>1. PICK p : p = Append(q, r) /\ p = q \o <<r>>
    BY <1>1, Zenon
  <2>2. Released(p, s) = CountIn(p, Only(s))
    BY ReleasedAsIn
  <2>3. QED
    BY <2>1, <2>2, Zenon
<1>5. Released(q, s) = CountIn(q, Only(s))
  BY ReleasedAsIn
<1>6. QED
  BY <1>2, <1>3, <1>4, <1>5, Zenon

LEMMA ReleasedTail ==
    ASSUME NEW q \in Seq(Socks), q # <<>>, NEW s
    PROVE  Released(q, s) = Released(Tail(q), s) + (IF Head(q) = s THEN 1 ELSE 0)
<1>0. /\ q = <<Head(q)>> \o Tail(q)
      /\ Head(q) \in Socks /\ Tail(q) \in Seq(Socks)
  OBVIOUS
<1>1. PICK h \in Socks, t \in Seq(Socks) : q = <<h>> \o t /\ h = Head(q) /\ t = Tail(q)
  BY <1>0, Zenon
<1>2. <<h>> \in Seq(Socks)
  OBVIOUS
<1>3. CountIn(<<h>> \o t, Only(s)) = CountIn(<<h>>, Only(s)) + CountIn(t, Only(s))
  BY <1>2, CountInConcat, Zenon
<1>4. CountIn(q, Only(s)) = CountIn(<<h>>, Only(s)) + CountIn(t, Only(s))
  BY <1>1, <1>3, Zenon
<1>5. CountIn(<<h>>, Only(s)) = (IF h = s THEN 1 ELSE 0) /\ CountIn(t, Only(s)) \in Nat
  BY CountInOne, CountInType DEF Only
<1>6. CountIn(q, Only(s)) = CountIn(t, Only(s)) + (IF h = s THEN 1 ELSE 0)
  BY <1>4, <1>5
<1>7. QED
  BY <1>1, <1>6, ReleasedAsIn, Zenon

\* All entries of one listener event are of its socket.
LEMMA EntriesCount ==
    ASSUME NEW b \in [sock : Socks, types : SUBSET EventType], NEW f, NEW s
    PROVE  Count(EntriesOf(b, f), s) = IF b.sock = s THEN Len(EntriesOf(b, f)) ELSE 0
<1> DEFINE q == EntriesOf(b, f)
<1>1. q \in Seq(Event)
  BY EntriesType
<1>2. \A i \in DOMAIN q : q[i].sock = b.sock
  BY DEF EntriesOf, Ev
<1> HIDE DEF q
<1>3. {i \in DOMAIN q : q[i].sock = s} = IF b.sock = s THEN 1 .. Len(q) ELSE {}
  BY <1>1, <1>2
<1>4. \A n \in Nat : Cardinality(1 .. n) = n
  BY FS_Interval
<1>5. Cardinality(1 .. Len(q)) = Len(q)
  <2>1. Len(q) \in Nat
    BY <1>1
  <2>2. QED
    BY <1>4, <2>1, Zenon
<1>6. Count(q, s) = IF b.sock = s THEN Len(q) ELSE 0
  BY <1>3, <1>5, FS_EmptySet, Zenon DEF Count
<1>7. QED
  BY <1>6 DEF q

\* The drain queues exactly one CLOSED event per open connection.
LEMMA CloseEntriesCount ==
    ASSUME NEW C \in SUBSET Socks, NEW q \in CloseEntries(C), NEW s
    PROVE  Count(q, s) = IF s \in C THEN 1 ELSE 0
<1> DEFINE n == Cardinality(C)
           T == {Ev(c, "CLOSED") : c \in C}
           f == [i \in 1 .. n |-> q[i].sock]
<1>1. IsFiniteSet(C) /\ n \in Nat
  BY ThreadsAssumption, FS_Subset, FS_CardinalityType
<1>2. q \in [1 .. n -> T] /\ \A c \in C : \E i \in 1 .. n : q[i].sock = c
  BY DEF CloseEntries
<1>3. \A i \in 1 .. n : q[i].sock \in C
  BY <1>2 DEF Ev
<1>4. f \in Surjection(1 .. n, C)
  BY <1>2, <1>3 DEF Surjection
<1>5. IsFiniteSet(1 .. n) /\ Cardinality(1 .. n) = Cardinality(C)
  BY <1>1, FS_Interval
<1>6. f \in Injection(1 .. n, C)
  BY <1>4, <1>5, FS_SurjSameCardinalityImpliesInj
<1>7. \A i, j \in 1 .. n : q[i].sock = q[j].sock => i = j
  BY <1>6 DEF Injection, IsInjective
<1>8. CASE s \in C
  <2>1. PICK k \in 1 .. n : q[k].sock = s
    BY <1>2, <1>8
  <2>2. {i \in DOMAIN q : q[i].sock = s} = {k}
    BY <1>2, <1>7, <2>1
  <2>3. QED
    BY <1>8, <2>2, FS_Singleton DEF Count
<1>9. CASE s \notin C
  <2>1. {i \in DOMAIN q : q[i].sock = s} = {}
    BY <1>2, <1>3, <1>9
  <2>2. QED
    BY <1>9, <2>1, FS_EmptySet DEF Count
<1>10. QED
  BY <1>8, <1>9

-----------------------------------------------------------------------------
(* The accounting invariant.                                               *)
(*                                                                         *)
(* RefAccounting counts a worker by the event it owns, so it is inductive  *)
(* together with the fact that a worker outside worker_event owns none.    *)
(* Most steps touch neither the counts nor their holders; the others move  *)
(* a reference from one holder to another, take one or give one back.      *)

IdleWorkers == \A w \in Workers : wpc[w] \notin EventPcs => wev[w] = NoEvent

RefInv == IdleWorkers /\ RefAccounting

WorkersOn(s) == {w \in Workers : S(w) = s}

AppsOn(s) == {a \in Apps : apc[a] = "relay" /\ asock[a] = s}

Holders(s) ==
    Count(events, s) + Count(relay, s) + Released(release, s)
        + Cardinality(WorkersOn(s)) + Cardinality(AppsOn(s))

LEMMA AccountingAsHolders ==
    RefAccounting <=> (main # "done" => \A s \in Socks : ref[s] = Holders(s))
BY DEF RefAccounting, Holders, Released, WorkersOn, AppsOn

\* The same in the next state.
LEMMA AccountingAsHoldersNext ==
    RefAccounting' <=> (main' # "done" => \A s \in Socks : ref'[s] = Holders(s)')
BY DEF RefAccounting, Holders, Released, WorkersOn, AppsOn

LEMMA HoldersType ==
    ASSUME TypeOK, NEW s \in Socks
    PROVE  /\ ref[s] \in Int
           /\ Count(events, s) \in Nat /\ Count(relay, s) \in Nat
           /\ Released(release, s) \in Nat
           /\ IsFiniteSet(WorkersOn(s)) /\ Cardinality(WorkersOn(s)) \in Nat
           /\ IsFiniteSet(AppsOn(s)) /\ Cardinality(AppsOn(s)) \in Nat
<1>1. ref[s] \in Int
  BY DEF TypeOK, SocketsOK
<1>2. Count(events, s) \in Nat /\ Count(relay, s) \in Nat
  BY CountType DEF TypeOK, ListsOK
<1>3. Released(release, s) \in Nat
  BY ReleasedType DEF TypeOK, ListsOK
<1>4. IsFiniteSet(WorkersOn(s)) /\ IsFiniteSet(AppsOn(s))
  <2>1. WorkersOn(s) \in SUBSET Workers /\ AppsOn(s) \in SUBSET Apps
    BY DEF WorkersOn, AppsOn
  <2>2. QED
    BY <2>1, ThreadsAssumption, FS_Subset
<1>5. QED
  BY <1>1, <1>2, <1>3, <1>4, FS_CardinalityType

\* The parts of a step that leaves every count and every holder alone.
AppsKept ==
    \A a \in Apps : apc[a] = "relay" \/ apc'[a] = "relay" =>
        apc'[a] = apc[a] /\ asock'[a] = asock[a]

RefsKept ==
    /\ UNCHANGED <<ref, events, relay, release, wev>>
    /\ AppsKept
    /\ main' # "done" => main # "done"

IdleKept ==
    /\ UNCHANGED wev
    /\ \A w \in Workers : wpc'[w] \notin EventPcs => wpc[w] \notin EventPcs

LEMMA RefFrame ==
    ASSUME RefAccounting, RefsKept
    PROVE  RefAccounting'
<1>1. \A s : WorkersOn(s)' = WorkersOn(s)
  BY DEF RefsKept, WorkersOn, S
<1>2. \A s : AppsOn(s)' = AppsOn(s)
  BY DEF RefsKept, AppsKept, AppsOn
<1>3. \A s : Holders(s)' = Holders(s)
  BY <1>1, <1>2 DEF RefsKept, Holders
<1>4. QED
  BY <1>3, AccountingAsHolders, AccountingAsHoldersNext DEF RefsKept

LEMMA IdleFrame ==
    ASSUME IdleWorkers, IdleKept
    PROVE  IdleWorkers'
BY DEF IdleWorkers, IdleKept

LEMMA QuietFrame ==
    ASSUME RefInv, RefsKept, IdleKept
    PROVE  RefInv'
BY RefFrame, IdleFrame DEF RefInv

LEMMA NoneNotSock == NoEvent.sock \notin Socks
BY NamesAssumption DEF NoEvent

\* A worker that takes or gives back an event.
LEMMA WorkerTakes ==
    ASSUME TypeOK, NEW w \in Workers, wev[w] = NoEvent, NEW e \in Event,
           wev' = [wev EXCEPT ![w] = e], NEW s \in Socks
    PROVE  Cardinality(WorkersOn(s)') =
             Cardinality(WorkersOn(s)) + (IF e.sock = s THEN 1 ELSE 0)
<1>1. w \notin WorkersOn(s)
  BY NoneNotSock DEF WorkersOn, S
<1>2. WorkersOn(s)' = IF e.sock = s THEN WorkersOn(s) \cup {w} ELSE WorkersOn(s)
  BY <1>1 DEF WorkersOn, S, TypeOK, WorkersOK
<1>3. IsFiniteSet(WorkersOn(s)) /\ Cardinality(WorkersOn(s)) \in Nat
  BY HoldersType
<1>4. Cardinality(WorkersOn(s) \cup {w}) = Cardinality(WorkersOn(s)) + 1
  BY <1>1, <1>3, FS_AddElement
<1>5. QED
  BY <1>2, <1>3, <1>4

LEMMA WorkerGives ==
    ASSUME TypeOK, NEW w \in Workers, wev[w] \in Event,
           wev' = [wev EXCEPT ![w] = NoEvent], NEW s \in Socks
    PROVE  Cardinality(WorkersOn(s)') =
             Cardinality(WorkersOn(s)) - (IF S(w) = s THEN 1 ELSE 0)
<1>1. w \in WorkersOn(s) <=> S(w) = s
  BY DEF WorkersOn
<1>2. WorkersOn(s)' = IF S(w) = s THEN WorkersOn(s) \ {w} ELSE WorkersOn(s)
  BY <1>1, NoneNotSock DEF WorkersOn, S, TypeOK, WorkersOK
<1>3. IsFiniteSet(WorkersOn(s)) /\ Cardinality(WorkersOn(s)) \in Nat
  BY HoldersType
<1>4. S(w) = s => Cardinality(WorkersOn(s) \ {w}) = Cardinality(WorkersOn(s)) - 1
  BY <1>1, <1>3, FS_RemoveElement
<1>5. QED
  BY <1>2, <1>3, <1>4

\* A thread that comes to the point before create_relay_event, or leaves it.
LEMMA AppTakes ==
    ASSUME TypeOK, NEW a \in Apps, apc[a] = "update", UNCHANGED asock,
           apc' = [apc EXCEPT ![a] = "relay"], NEW s \in Socks
    PROVE  Cardinality(AppsOn(s)') =
             Cardinality(AppsOn(s)) + (IF asock[a] = s THEN 1 ELSE 0)
<1>1. a \notin AppsOn(s)
  BY DEF AppsOn
<1>2. AppsOn(s)' = IF asock[a] = s THEN AppsOn(s) \cup {a} ELSE AppsOn(s)
  BY <1>1 DEF AppsOn, TypeOK, AppsOK
<1>3. IsFiniteSet(AppsOn(s)) /\ Cardinality(AppsOn(s)) \in Nat
  BY HoldersType
<1>4. Cardinality(AppsOn(s) \cup {a}) = Cardinality(AppsOn(s)) + 1
  BY <1>1, <1>3, FS_AddElement
<1>5. QED
  BY <1>2, <1>3, <1>4

LEMMA AppGives ==
    ASSUME TypeOK, NEW a \in Apps, apc[a] = "relay", NEW x,
           apc' = [apc EXCEPT ![a] = "idle"],
           asock' = [asock EXCEPT ![a] = x], NEW s \in Socks
    PROVE  Cardinality(AppsOn(s)') =
             Cardinality(AppsOn(s)) - (IF asock[a] = s THEN 1 ELSE 0)
<1>1. a \in AppsOn(s) <=> asock[a] = s
  BY DEF AppsOn
<1>2. AppsOn(s)' = IF asock[a] = s THEN AppsOn(s) \ {a} ELSE AppsOn(s)
  BY <1>1 DEF AppsOn, TypeOK, AppsOK
<1>3. IsFiniteSet(AppsOn(s)) /\ Cardinality(AppsOn(s)) \in Nat
  BY HoldersType
<1>4. asock[a] = s => Cardinality(AppsOn(s) \ {a}) = Cardinality(AppsOn(s)) - 1
  BY <1>1, <1>3, FS_RemoveElement
<1>5. QED
  BY <1>2, <1>3, <1>4

-----------------------------------------------------------------------------
(* The steps that move a reference *)

\* One released socket: the release list gives its reference back.
LEMMA ReleaseRefs ==
    ASSUME TypeOK, RefAccounting, MainRelease
    PROVE  RefAccounting'
<1> SUFFICES ASSUME NEW s \in Socks PROVE ref'[s] = Holders(s)'
  BY AccountingAsHoldersNext
<1>1. ref[s] = Holders(s)
  BY AccountingAsHolders DEF MainRelease
<1>2. /\ release \in Seq(Socks) /\ release # <<>> /\ release' = Tail(release)
      /\ Head(release) \in Socks /\ release' \in Seq(Socks)
  BY DEF MainRelease, TypeOK, ListsOK
<1>3. Released(release, s) = Released(release', s) + (IF Head(release) = s THEN 1 ELSE 0)
  BY <1>2, ReleasedTail
<1>4. ref'[s] = ref[s] - (IF Head(release) = s THEN 1 ELSE 0)
  BY <1>2 DEF MainRelease, TypeOK, SocketsOK
<1>5. Released(release', s) \in Nat
  BY <1>2, ReleasedType
<1>6. WorkersOn(s)' = WorkersOn(s) /\ AppsOn(s)' = AppsOn(s)
  BY DEF MainRelease, WorkersOn, AppsOn, S
<1>7. Count(events, s)' = Count(events, s) /\ Count(relay, s)' = Count(relay, s)
  BY DEF MainRelease
<1>8. QED
  BY <1>1, <1>3, <1>4, <1>5, <1>6, <1>7, HoldersType DEF Holders

\* The relay events move to the queue with their references.
LEMMA RelayRefs ==
    ASSUME TypeOK, RefAccounting, MainRelay
    PROVE  RefAccounting'
<1> SUFFICES ASSUME NEW s \in Socks PROVE ref'[s] = Holders(s)'
  BY AccountingAsHoldersNext
<1>1. ref[s] = Holders(s) /\ ref'[s] = ref[s]
  BY AccountingAsHolders DEF MainRelay
<1>2. Count(events \o relay, s) = Count(events, s) + Count(relay, s)
  BY CountConcat DEF TypeOK, ListsOK
<1>3. Count(events', s) = Count(events, s) + Count(relay, s) /\ Count(relay', s) = 0
  BY <1>2, CountEmpty, Zenon DEF MainRelay
<1>4. WorkersOn(s)' = WorkersOn(s) /\ AppsOn(s)' = AppsOn(s)
  BY DEF MainRelay, WorkersOn, AppsOn, S
<1>5. Released(release, s)' = Released(release, s)
  BY DEF MainRelay
<1>6. QED
  BY <1>1, <1>3, <1>4, <1>5, HoldersType DEF Holders

\* Every entry made of a listener event takes a reference.
LEMMA DispatchRefs ==
    ASSUME TypeOK, RefAccounting, MainDispatch
    PROVE  RefAccounting'
<1> SUFFICES ASSUME NEW s \in Socks PROVE ref'[s] = Holders(s)'
  BY AccountingAsHoldersNext
<1>1. ref[s] = Holders(s)
  BY AccountingAsHolders DEF MainDispatch
<1>2. PICK b \in batch :
        /\ ref' = [ref EXCEPT ![b.sock] = @ + Len(EntriesOf(b, flags[b.sock]))]
        /\ events' = events \o EntriesOf(b, flags[b.sock])
  BY DEF MainDispatch
<1>3. b \in [sock : Socks, types : SUBSET EventType]
  BY DEF TypeOK, MainOK
<1>4. PICK q \in Seq(Event) : q = EntriesOf(b, flags[b.sock]) /\ Len(q) \in Nat
  BY <1>3, EntriesType
<1>5. Count(q, s) = IF b.sock = s THEN Len(q) ELSE 0
  BY <1>3, <1>4, EntriesCount, Zenon
<1>6. Count(events', s) = Count(events, s) + Count(q, s)
  <2>1. Count(events \o q, s) = Count(events, s) + Count(q, s)
    BY CountConcat DEF TypeOK, ListsOK
  <2>2. QED
    BY <1>2, <1>4, <2>1, Zenon
<1>7. ref'[s] = ref[s] + (IF b.sock = s THEN Len(q) ELSE 0)
  <2>1. ref' = [ref EXCEPT ![b.sock] = @ + Len(q)]
    BY <1>2, <1>4, Zenon
  <2>2. QED
    BY <1>3, <1>4, <2>1 DEF TypeOK, SocketsOK
<1>8. WorkersOn(s)' = WorkersOn(s) /\ AppsOn(s)' = AppsOn(s)
  BY DEF MainDispatch, WorkersOn, AppsOn, S
<1>9. Released(release, s)' = Released(release, s) /\ Count(relay, s)' = Count(relay, s)
  BY DEF MainDispatch
<1>10. ref'[s] = ref[s] + Count(q, s) /\ Count(q, s) \in Nat
  BY <1>4, <1>5, <1>7, CountType
<1>11. QED
  BY <1>1, <1>6, <1>8, <1>9, <1>10, HoldersType DEF Holders

\* A step that appends one event and takes one reference for it.
LEMMA QueueRefs ==
    ASSUME TypeOK, RefAccounting, main # "done", NEW e \in Event,
           events' = Append(events, e),
           ref' = [ref EXCEPT ![e.sock] = @ + 1],
           UNCHANGED <<relay, release, wev, apc, asock>>
    PROVE  RefAccounting'
<1> SUFFICES ASSUME NEW s \in Socks PROVE ref'[s] = Holders(s)'
  BY AccountingAsHoldersNext
<1>1. ref[s] = Holders(s)
  BY AccountingAsHolders
<1>2. Count(Append(events, e), s) = Count(events, s) + (IF e.sock = s THEN 1 ELSE 0)
  BY CountAppend DEF TypeOK, ListsOK
<1>3. Count(events', s) = Count(events, s) + (IF e.sock = s THEN 1 ELSE 0)
  BY <1>2, Zenon
<1>4. e.sock \in Socks
  BY DEF Event
<1>5. ref'[s] = ref[s] + (IF e.sock = s THEN 1 ELSE 0)
  BY <1>4 DEF TypeOK, SocketsOK
<1>6. WorkersOn(s)' = WorkersOn(s) /\ AppsOn(s)' = AppsOn(s)
  BY DEF WorkersOn, AppsOn, S
<1>7. Released(release, s)' = Released(release, s) /\ Count(relay, s)' = Count(relay, s)
  OBVIOUS
<1>8. QED
  BY <1>1, <1>3, <1>5, <1>6, <1>7, HoldersType, SMTT(60) DEF Holders

\* The drain gives back the references of the events it drops and takes one
\* for the CLOSED event of every open connection.
LEMMA DrainRefs ==
    ASSUME TypeOK, RefAccounting, DrainClose
    PROVE  RefAccounting'
<1> SUFFICES ASSUME NEW s \in Socks PROVE ref'[s] = Holders(s)'
  BY AccountingAsHoldersNext
<1>1. ref[s] = Holders(s)
  BY AccountingAsHolders DEF DrainClose
<1>2. Count(events', s) = IF s \in cons THEN 1 ELSE 0
  BY CloseEntriesCount DEF DrainClose, TypeOK, ListsOK
<1>3. ref'[s] = (ref[s] - Count(events, s)) + (IF s \in cons THEN 1 ELSE 0)
  BY DEF DrainClose
<1>4. WorkersOn(s)' = WorkersOn(s) /\ AppsOn(s)' = AppsOn(s)
  BY DEF DrainClose, WorkersOn, AppsOn, S
<1>5. Released(release, s)' = Released(release, s) /\ Count(relay, s)' = Count(relay, s)
  BY DEF DrainClose
<1>6. QED
  BY <1>1, <1>2, <1>3, <1>4, <1>5, HoldersType DEF Holders

\* The reference of a polled event moves from the queue to the worker.
LEMMA PollRefs ==
    ASSUME TypeOK, RefInv, NEW w \in Workers, WorkerPoll(w)
    PROVE  RefInv'
<1>0. main' = main /\ UNCHANGED <<ref, relay, release, apc, asock>>
  BY DEF WorkerPoll
<1>1. /\ events \in Seq(Event) /\ events # <<>> /\ events' = Tail(events)
      /\ events' \in Seq(Event)
      /\ Head(events) \in Event /\ wev' = [wev EXCEPT ![w] = Head(events)]
      /\ \A v \in Workers : wpc'[v] \notin EventPcs => v # w /\ wpc[v] \notin EventPcs
      /\ wpc[w] \notin EventPcs
  BY DEF WorkerPoll, TypeOK, ListsOK, WorkersOK, Goto, EventPcs, SectionPcs
<1>2. IdleWorkers'
  BY <1>1 DEF RefInv, IdleWorkers, TypeOK, WorkersOK
<1>3. ASSUME NEW s \in Socks, main # "done" PROVE ref'[s] = Holders(s)'
  <2>1. ref[s] = Holders(s)
    BY <1>3, AccountingAsHolders DEF RefInv
  <2>2. PICK e \in Event : e = Head(events)
    BY <1>1
  <2>3. Count(events, s) = Count(events', s) + (IF e.sock = s THEN 1 ELSE 0)
    <3>1. Count(events, s) = Count(Tail(events), s) + (IF Head(events).sock = s THEN 1 ELSE 0)
      BY <1>1, CountTail
    <3>2. QED
      BY <1>1, <2>2, <3>1, Zenon
  <2>4. Count(events', s) \in Nat
    BY <1>1, CountType
  <2>5. Cardinality(WorkersOn(s)') =
          Cardinality(WorkersOn(s)) + (IF e.sock = s THEN 1 ELSE 0)
    BY <1>1, <2>2, WorkerTakes DEF RefInv, IdleWorkers
  <2>6. AppsOn(s)' = AppsOn(s) /\ Count(relay, s)' = Count(relay, s)
          /\ Released(release, s)' = Released(release, s)
    BY <1>0 DEF AppsOn
  <2>7. QED
    BY <1>0, <2>1, <2>3, <2>4, <2>5, <2>6, HoldersType DEF Holders
<1>4. QED
  BY <1>0, <1>2, <1>3, AccountingAsHoldersNext DEF RefInv

\* A worker that is done with its event gives its reference back.
LEMMA UnrefRefs ==
    ASSUME TypeOK, RefInv, NEW w \in Workers, SockUnref(w)
    PROVE  RefInv'
<1>0. main' = main /\ UNCHANGED <<events, relay, release, apc, asock>>
  BY DEF SockUnref
<1>1. S(w) \in Socks /\ wev[w] \in Event
  BY EventOwned DEF SockUnref, EventPcs
<1>2. IdleWorkers'
  BY <1>1 DEF SockUnref, Goto, RefInv, IdleWorkers, TypeOK, WorkersOK
<1>3. ASSUME NEW s \in Socks, main # "done" PROVE ref'[s] = Holders(s)'
  <2>1. ref[s] = Holders(s)
    BY <1>3, AccountingAsHolders DEF RefInv
  <2>2. ref'[s] = ref[s] - (IF S(w) = s THEN 1 ELSE 0)
    BY <1>1 DEF SockUnref, TypeOK, SocketsOK
  <2>3. Cardinality(WorkersOn(s)') =
          Cardinality(WorkersOn(s)) - (IF S(w) = s THEN 1 ELSE 0)
    BY <1>1, WorkerGives DEF SockUnref
  <2>4. AppsOn(s)' = AppsOn(s) /\ Count(relay, s)' = Count(relay, s)
          /\ Released(release, s)' = Released(release, s)
          /\ Count(events, s)' = Count(events, s)
    BY <1>0 DEF AppsOn
  <2>5. QED
    BY <2>1, <2>2, <2>3, <2>4, HoldersType DEF Holders
<1>4. QED
  BY <1>0, <1>2, <1>3, AccountingAsHoldersNext DEF RefInv

\* sock_free takes a reference for the release list.
LEMMA FreeRefs ==
    ASSUME TypeOK, RefAccounting, NEW w \in Workers, SockFree(w)
    PROVE  RefAccounting'
<1>0. main' = main /\ UNCHANGED <<events, relay, wev, apc, asock>>
  BY DEF SockFree
<1>1. S(w) \in Socks
  BY EventOwned DEF SockFree, EventPcs, SectionPcs
<1>2. ASSUME NEW s \in Socks, main # "done" PROVE ref'[s] = Holders(s)'
  <2>1. ref[s] = Holders(s)
    BY <1>2, AccountingAsHolders
  <2>2. ref'[s] = ref[s] + (IF S(w) = s THEN 1 ELSE 0)
    BY <1>1 DEF SockFree, TypeOK, SocketsOK
  <2>3. Released(release', s) = Released(release, s) + (IF S(w) = s THEN 1 ELSE 0)
    <3>1. Released(Append(release, S(w)), s)
            = Released(release, s) + (IF S(w) = s THEN 1 ELSE 0)
      BY <1>1, ReleasedAppend DEF TypeOK, ListsOK
    <3>2. release' = Append(release, S(w))
      BY DEF SockFree
    <3>3. QED
      BY <3>1, <3>2, Zenon
  <2>4. WorkersOn(s)' = WorkersOn(s) /\ AppsOn(s)' = AppsOn(s)
          /\ Count(relay, s)' = Count(relay, s) /\ Count(events, s)' = Count(events, s)
    BY <1>0 DEF AppsOn, WorkersOn, S
  <2>5. QED
    BY <2>1, <2>2, <2>3, <2>4, HoldersType DEF Holders
<1>3. QED
  BY <1>0, <1>2, AccountingAsHoldersNext

\* A thread that closes or fails a connection takes the reference of the relay
\* event it is going to create.
LEMMA UpdateRefs ==
    ASSUME TypeOK, RefAccounting, NEW a \in Apps, AppUpdate(a)
    PROVE  RefAccounting'
<1>0. main' = main /\ UNCHANGED <<events, relay, release, wev>>
  BY DEF AppUpdate
<1>1. asock[a] \in Socks /\ apc[a] = "update"
  BY DEF AppUpdate, TypeOK, AppsOK
<1>2. CASE Ending(flags[asock[a]])
  <2>0. /\ ref' = [ref EXCEPT ![asock[a]] = @ + 1]
        /\ apc' = [apc EXCEPT ![a] = "relay"] /\ UNCHANGED asock
    BY <1>2 DEF AppUpdate
  <2>1. ASSUME NEW s \in Socks, main # "done" PROVE ref'[s] = Holders(s)'
    <3>1. ref[s] = Holders(s)
      BY <2>1, AccountingAsHolders
    <3>2. ref'[s] = ref[s] + (IF asock[a] = s THEN 1 ELSE 0)
      BY <1>1, <2>0 DEF TypeOK, SocketsOK
    <3>3. Cardinality(AppsOn(s)') =
            Cardinality(AppsOn(s)) + (IF asock[a] = s THEN 1 ELSE 0)
      BY <1>1, <2>0, AppTakes
    <3>4. WorkersOn(s)' = WorkersOn(s) /\ Released(release, s)' = Released(release, s)
            /\ Count(relay, s)' = Count(relay, s) /\ Count(events, s)' = Count(events, s)
      BY <1>0 DEF WorkersOn, S
    <3>5. QED
      BY <3>1, <3>2, <3>3, <3>4, HoldersType DEF Holders
  <2>2. QED
    BY <1>0, <2>1, AccountingAsHoldersNext
<1>3. CASE ~Ending(flags[asock[a]])
  <2>1. /\ UNCHANGED ref /\ apc' = [apc EXCEPT ![a] = "idle"]
        /\ asock' = [asock EXCEPT ![a] = "none"]
    BY <1>3 DEF AppUpdate
  <2>2. AppsKept
    BY <1>1, <2>1 DEF AppsKept, TypeOK, AppsOK
  <2>3. RefsKept
    BY <1>0, <2>1, <2>2 DEF RefsKept
  <2>4. QED
    BY <2>3, RefFrame
<1>4. QED
  BY <1>2, <1>3

\* Its reference moves to the relay list.
LEMMA AppRelayRefs ==
    ASSUME TypeOK, RefAccounting, NEW a \in Apps, AppRelay(a)
    PROVE  RefAccounting'
<1>0. main' = main /\ UNCHANGED <<ref, events, release, wev>>
  BY DEF AppRelay
<1>1. asock[a] \in Socks /\ apc[a] = "relay"
  BY DEF AppRelay, TypeOK, AppsOK
<1>2. PICK e \in Event : e.sock = asock[a] /\ relay' = Append(relay, e)
  <2>1. \A t \in EventType : Ev(asock[a], t) \in Event /\ Ev(asock[a], t).sock = asock[a]
    BY <1>1 DEF Ev, Event
  <2>2. QED
    BY <2>1 DEF AppRelay, EventType
<1>3. ASSUME NEW s \in Socks, main # "done" PROVE ref'[s] = Holders(s)'
  <2>1. ref[s] = Holders(s) /\ ref'[s] = ref[s]
    BY <1>0, <1>3, AccountingAsHolders
  <2>2. Count(Append(relay, e), s) = Count(relay, s) + (IF e.sock = s THEN 1 ELSE 0)
    BY CountAppend DEF TypeOK, ListsOK
  <2>3. Count(relay', s) = Count(relay, s) + (IF asock[a] = s THEN 1 ELSE 0)
    BY <1>2, <2>2, Zenon
  <2>4. Cardinality(AppsOn(s)') =
          Cardinality(AppsOn(s)) - (IF asock[a] = s THEN 1 ELSE 0)
    BY <1>1, AppGives DEF AppRelay
  <2>5. WorkersOn(s)' = WorkersOn(s) /\ Released(release, s)' = Released(release, s)
          /\ Count(events, s)' = Count(events, s)
    BY <1>0 DEF WorkersOn, S
  <2>6. QED
    BY <2>1, <2>3, <2>4, <2>5, HoldersType DEF Holders
<1>4. QED
  BY <1>0, <1>3, AccountingAsHoldersNext

-----------------------------------------------------------------------------
(* Every step keeps the accounting, thread by thread *)

LEMMA MainRefs ==
    ASSUME TypeOK, RefInv, MainNext
    PROVE  RefInv'
<1>1. CASE MainLoop
  <2>1. RefsKept
    BY <1>1 DEF MainLoop, RefsKept, AppsKept
  <2>2. IdleKept
    BY <1>1 DEF MainLoop, IdleKept
  <2>3. QED
    BY <2>1, <2>2, QuietFrame
<1>2. CASE MainListen
  <2>1. RefsKept
    BY <1>2 DEF MainListen, RefsKept, AppsKept
  <2>2. IdleKept
    BY <1>2 DEF MainListen, IdleKept
  <2>3. QED
    BY <2>1, <2>2, QuietFrame
<1>3. CASE MainInterrupted
  <2>1. RefsKept
    BY <1>3 DEF MainInterrupted, RefsKept, AppsKept
  <2>2. IdleKept
    BY <1>3 DEF MainInterrupted, IdleKept
  <2>3. QED
    BY <2>1, <2>2, QuietFrame
<1>4. CASE MainListenFails
  <2>1. RefsKept
    BY <1>4 DEF MainListenFails, RefsKept, AppsKept
  <2>2. IdleKept
    BY <1>4 DEF MainListenFails, IdleKept
  <2>3. QED
    BY <2>1, <2>2, QuietFrame
<1>5. CASE MainLockEvents
  <2>1. RefsKept
    BY <1>5 DEF MainLockEvents, RefsKept, AppsKept
  <2>2. IdleKept
    BY <1>5 DEF MainLockEvents, IdleKept
  <2>3. QED
    BY <2>1, <2>2, QuietFrame
<1>6. CASE MainRelease
  <2>1. RefAccounting'
    BY <1>6, ReleaseRefs DEF RefInv
  <2>2. IdleKept
    BY <1>6 DEF MainRelease, IdleKept
  <2>3. QED
    BY <2>1, <2>2, IdleFrame DEF RefInv
<1>7. CASE MainRelay
  <2>1. RefAccounting'
    BY <1>7, RelayRefs DEF RefInv
  <2>2. IdleKept
    BY <1>7 DEF MainRelay, IdleKept
  <2>3. QED
    BY <2>1, <2>2, IdleFrame DEF RefInv
<1>8. CASE MainDispatch
  <2>1. RefAccounting'
    BY <1>8, DispatchRefs DEF RefInv
  <2>2. IdleKept
    BY <1>8 DEF MainDispatch, IdleKept
  <2>3. QED
    BY <2>1, <2>2, IdleFrame DEF RefInv
<1>9. CASE MainUnlockEvents
  <2>1. RefsKept
    BY <1>9 DEF MainUnlockEvents, RefsKept, AppsKept
  <2>2. IdleKept
    BY <1>9 DEF MainUnlockEvents, IdleKept, SignalAll, EventPcs, SectionPcs
  <2>3. QED
    BY <2>1, <2>2, QuietFrame
<1>10. CASE MainAccept
  <2>1. PICK s \in Socks : /\ ref' = [ref EXCEPT ![s] = @ + 1]
                          /\ events' = Append(events, Ev(s, "ACCEPTED"))
    BY <1>10 DEF MainAccept
  <2>2. Ev(s, "ACCEPTED") \in Event /\ Ev(s, "ACCEPTED").sock = s
    BY DEF Ev, Event, EventType
  <2>3. main # "done" /\ UNCHANGED <<relay, release, wev, apc, asock>>
    BY <1>10 DEF MainAccept
  <2>4. ref' = [ref EXCEPT ![Ev(s, "ACCEPTED").sock] = @ + 1]
    BY <2>1, <2>2
  <2>5. RefAccounting'
    BY <2>1, <2>2, <2>3, <2>4, QueueRefs DEF RefInv
  <2>6. IdleKept
    BY <1>10, SignalOneType DEF MainAccept, IdleKept, SignalOne, Waiting, TypeOK,
       WorkersOK, EventPcs, SectionPcs
  <2>7. QED
    BY <2>5, <2>6, IdleFrame DEF RefInv
<1>11. CASE MainAcceptAgain
  <2>1. RefsKept
    BY <1>11 DEF MainAcceptAgain, RefsKept, AppsKept
  <2>2. IdleKept
    BY <1>11 DEF MainAcceptAgain, IdleKept
  <2>3. QED
    BY <2>1, <2>2, QuietFrame
<1>12. CASE DrainSignal
  <2>1. RefsKept
    BY <1>12 DEF DrainSignal, RefsKept, AppsKept
  <2>2. IdleKept
    BY <1>12 DEF DrainSignal, IdleKept, SignalAll, EventPcs, SectionPcs
  <2>3. QED
    BY <2>1, <2>2, QuietFrame
<1>13. CASE DrainAwait
  <2>1. RefsKept
    BY <1>13 DEF DrainAwait, RefsKept, AppsKept
  <2>2. IdleKept
    BY <1>13 DEF DrainAwait, IdleKept
  <2>3. QED
    BY <2>1, <2>2, QuietFrame
<1>14. CASE DrainClose
  <2>1. RefAccounting'
    BY <1>14, DrainRefs DEF RefInv
  <2>2. IdleKept
    BY <1>14 DEF DrainClose, IdleKept
  <2>3. QED
    BY <2>1, <2>2, IdleFrame DEF RefInv
<1>15. CASE Join
  <2>1. RefsKept
    BY <1>15 DEF Join, RefsKept, AppsKept
  <2>2. IdleKept
    BY <1>15 DEF Join, IdleKept
  <2>3. QED
    BY <2>1, <2>2, QuietFrame
<1>16. CASE Clean
  <2>1. RefAccounting'
    BY <1>16 DEF Clean, RefAccounting
  <2>2. IdleKept
    BY <1>16 DEF Clean, IdleKept
  <2>3. QED
    BY <2>1, <2>2, IdleFrame DEF RefInv
<1>17. QED
  BY <1>1, <1>2, <1>3, <1>4, <1>5, <1>6, <1>7, <1>8, <1>9, <1>10, <1>11,
     <1>12, <1>13, <1>14, <1>15, <1>16 DEF MainNext

LEMMA WorkerRefs ==
    ASSUME NEW w \in Workers, TypeOK, RefInv, WorkerNext(w) \/ SpuriousWake(w)
    PROVE  RefInv'
<1>1. CASE WorkerTop(w)
  <2>1. RefsKept
    BY <1>1 DEF WorkerTop, RefsKept, AppsKept
  <2>2. IdleKept
    BY <1>1 DEF WorkerTop, IdleKept, TypeOK, WorkersOK, Goto,
       EventPcs, SectionPcs
  <2>3. QED
    BY <2>1, <2>2, QuietFrame
<1>2. CASE WorkerPoll(w)
  BY <1>2, PollRefs
<1>3. CASE WorkerEmpty(w)
  <2>1. RefsKept
    BY <1>3 DEF WorkerEmpty, RefsKept, AppsKept
  <2>2. IdleKept
    BY <1>3 DEF WorkerEmpty, IdleKept, TypeOK, WorkersOK, Goto,
       EventPcs, SectionPcs
  <2>3. QED
    BY <2>1, <2>2, QuietFrame
<1>4. CASE WorkerWait(w)
  <2>1. RefsKept
    BY <1>4 DEF WorkerWait, RefsKept, AppsKept
  <2>2. IdleKept
    BY <1>4 DEF WorkerWait, IdleKept, TypeOK, WorkersOK, Goto,
       EventPcs, SectionPcs
  <2>3. QED
    BY <2>1, <2>2, QuietFrame
<1>5. CASE SpuriousWake(w)
  <2>1. RefsKept
    BY <1>5 DEF SpuriousWake, RefsKept, AppsKept
  <2>2. IdleKept
    BY <1>5 DEF SpuriousWake, IdleKept, TypeOK, WorkersOK, Goto,
       EventPcs, SectionPcs
  <2>3. QED
    BY <2>1, <2>2, QuietFrame
<1>6. CASE WorkerCount(w)
  <2>1. RefsKept
    BY <1>6 DEF WorkerCount, RefsKept, AppsKept
  <2>2. IdleKept
    BY <1>6 DEF WorkerCount, IdleKept, TypeOK, WorkersOK, Goto,
       EventPcs, SectionPcs
  <2>3. QED
    BY <2>1, <2>2, QuietFrame
<1>7. CASE WorkerAwait(w)
  <2>1. RefsKept
    BY <1>7 DEF WorkerAwait, RefsKept, AppsKept
  <2>2. IdleKept
    BY <1>7 DEF WorkerAwait, IdleKept, TypeOK, WorkersOK, Goto,
       EventPcs, SectionPcs
  <2>3. QED
    BY <2>1, <2>2, QuietFrame
<1>8. CASE WorkerEnd(w)
  <2>1. RefsKept
    BY <1>8 DEF WorkerEnd, RefsKept, AppsKept
  <2>2. IdleKept
    BY <1>8 DEF WorkerEnd, IdleKept, TypeOK, WorkersOK, Goto,
       EventPcs, SectionPcs
  <2>3. QED
    BY <2>1, <2>2, QuietFrame
<1>9. CASE SockEventState(w)
  <2>1. RefsKept
    BY <1>9 DEF SockEventState, RefsKept, AppsKept
  <2>2. IdleKept
    BY <1>9 DEF SockEventState, IdleKept, TypeOK, WorkersOK, Goto,
       EventPcs, SectionPcs
  <2>3. QED
    BY <2>1, <2>2, QuietFrame
<1>10. CASE SockTrylock(w)
  <2>1. RefsKept
    BY <1>10 DEF SockTrylock, RefsKept, AppsKept
  <2>2. wev[w] \in Event
    BY <1>10, EventOwned DEF SockTrylock, EventPcs
  <2>3. \A ok \in BOOLEAN : AfterTrylock(wev[w].type, ok) \in EventPcs
    BY <2>2, TrylockType DEF Event
  <2>4. IdleKept
    BY <1>10, <2>3 DEF SockTrylock, IdleKept, TypeOK, WorkersOK, Goto
  <2>5. QED
    BY <2>1, <2>4, QuietFrame
<1>11. CASE AddEvent(w)
  <2>1. wev[w] \in Event
    BY <1>11, EventOwned DEF AddEvent, EventPcs
  <2>2. UNCHANGED <<relay, release, wev, apc, asock>>
    BY <1>11 DEF AddEvent
  <2>3. events' = Append(events, wev[w]) /\ ref' = [ref EXCEPT ![wev[w].sock] = @ + 1]
    BY <1>11 DEF AddEvent, S
  <2>4. ASSUME main # "done" PROVE RefAccounting'
    BY <2>1, <2>2, <2>3, <2>4, QueueRefs DEF RefInv
  <2>5. ASSUME main = "done" PROVE RefAccounting'
    BY <1>11, <2>5 DEF AddEvent, RefAccounting
  <2>6. IdleKept
    BY <1>11 DEF AddEvent, IdleKept, SignalOne, Waiting, TypeOK, WorkersOK,
       EventPcs, SectionPcs
  <2>7. QED
    BY <2>4, <2>5, <2>6, IdleFrame DEF RefInv
<1>12. CASE SockUnlock(w)
  <2>1. RefsKept
    BY <1>12 DEF SockUnlock, RefsKept, AppsKept
  <2>2. IdleKept
    BY <1>12 DEF SockUnlock, IdleKept, TypeOK, WorkersOK, Goto,
       EventPcs, SectionPcs
  <2>3. QED
    BY <2>1, <2>2, QuietFrame
<1>13. CASE SockUnref(w)
  BY <1>13, UnrefRefs
<1>14. CASE SockAccepted(w)
  <2>1. RefsKept
    BY <1>14 DEF SockAccepted, RefsKept, AppsKept
  <2>2. IdleKept
    BY <1>14 DEF SockAccepted, IdleKept, TypeOK, WorkersOK, Goto,
       EventPcs, SectionPcs
  <2>3. QED
    BY <2>1, <2>2, QuietFrame
<1>15. CASE SockConnected(w)
  <2>1. RefsKept
    BY <1>15 DEF SockConnected, RefsKept, AppsKept
  <2>2. IdleKept
    BY <1>15 DEF SockConnected, IdleKept, TypeOK, WorkersOK, Goto,
       EventPcs, SectionPcs
  <2>3. QED
    BY <2>1, <2>2, QuietFrame
<1>16. CASE SockCheck(w)
  <2>1. RefsKept
    BY <1>16 DEF SockCheck, RefsKept, AppsKept
  <2>2. IdleKept
    BY <1>16 DEF SockCheck, IdleKept, TypeOK, WorkersOK, Goto,
       EventPcs, SectionPcs
  <2>3. QED
    BY <2>1, <2>2, QuietFrame
<1>17. CASE SockAdd(w)
  <2>1. RefsKept
    BY <1>17 DEF SockAdd, RefsKept, AppsKept
  <2>2. IdleKept
    BY <1>17 DEF SockAdd, IdleKept, TypeOK, WorkersOK, Goto,
       EventPcs, SectionPcs
  <2>3. QED
    BY <2>1, <2>2, QuietFrame
<1>18. CASE SockCanRead(w)
  <2>1. RefsKept
    BY <1>18 DEF SockCanRead, RefsKept, AppsKept
  <2>2. IdleKept
    BY <1>18 DEF SockCanRead, IdleKept, TypeOK, WorkersOK, Goto,
       EventPcs, SectionPcs
  <2>3. QED
    BY <2>1, <2>2, QuietFrame
<1>19. CASE SockCanWrite(w)
  <2>1. RefsKept
    BY <1>19 DEF SockCanWrite, RefsKept, AppsKept
  <2>2. IdleKept
    BY <1>19 DEF SockCanWrite, IdleKept, TypeOK, WorkersOK, Goto,
       EventPcs, SectionPcs
  <2>3. QED
    BY <2>1, <2>2, QuietFrame
<1>20. CASE SockRearm(w)
  <2>1. RefsKept
    BY <1>20 DEF SockRearm, RefsKept, AppsKept
  <2>2. IdleKept
    BY <1>20 DEF SockRearm, IdleKept, TypeOK, WorkersOK, Goto,
       EventPcs, SectionPcs
  <2>3. QED
    BY <2>1, <2>2, QuietFrame
<1>21. CASE SockError(w)
  <2>1. RefsKept
    BY <1>21 DEF SockError, RefsKept, AppsKept
  <2>2. IdleKept
    BY <1>21 DEF SockError, IdleKept, TypeOK, WorkersOK, Goto,
       EventPcs, SectionPcs
  <2>3. QED
    BY <2>1, <2>2, QuietFrame
<1>22. CASE SockClosed(w)
  <2>1. RefsKept
    BY <1>22 DEF SockClosed, RefsKept, AppsKept
  <2>2. IdleKept
    BY <1>22 DEF SockClosed, IdleKept, TypeOK, WorkersOK, Goto,
       EventPcs, SectionPcs
  <2>3. QED
    BY <2>1, <2>2, QuietFrame
<1>23. CASE SockDisconnected(w)
  <2>1. RefsKept
    BY <1>23 DEF SockDisconnected, RefsKept, AppsKept
  <2>2. IdleKept
    BY <1>23 DEF SockDisconnected, IdleKept, TypeOK, WorkersOK, Goto,
       EventPcs, SectionPcs
  <2>3. QED
    BY <2>1, <2>2, QuietFrame
<1>24. CASE SockFree(w)
  <2>1. RefAccounting'
    BY <1>24, FreeRefs DEF RefInv
  <2>2. IdleKept
    BY <1>24 DEF SockFree, IdleKept, TypeOK, WorkersOK, Goto,
       EventPcs, SectionPcs
  <2>3. QED
    BY <2>1, <2>2, IdleFrame DEF RefInv
<1>25. QED
  BY <1>1, <1>2, <1>3, <1>4, <1>5, <1>6, <1>7, <1>8, <1>9, <1>10, <1>11,
     <1>12, <1>13, <1>14, <1>15, <1>16, <1>17, <1>18, <1>19, <1>20, <1>21,
     <1>22, <1>23, <1>24 DEF WorkerNext

LEMMA RefStep == TypeOK /\ RefInv /\ [Next]_vars => RefInv'
<1> SUFFICES ASSUME TypeOK, RefInv, [Next]_vars PROVE RefInv'
  OBVIOUS
<1>1. CASE MainNext
  BY <1>1, MainRefs
<1>2. ASSUME NEW w \in Workers, WorkerNext(w) \/ SpuriousWake(w)
      PROVE  RefInv'
  BY <1>2, WorkerRefs
<1>3. ASSUME NEW a \in Apps, AppNext(a) PROVE RefInv'
  <2>1. IdleKept
    BY <1>3 DEF AppNext, AppCall, AppUpdate, AppRelay, IdleKept
  <2>2. CASE AppCall(a)
    <3>1. UNCHANGED <<ref, events, relay, release, wev, main>>
      BY <2>2 DEF AppCall
    <3>2. AppsKept
      BY <2>2 DEF AppCall, AppsKept, TypeOK, AppsOK
    <3>3. QED
      BY <2>1, <3>1, <3>2, QuietFrame DEF RefsKept
  <2>3. CASE AppUpdate(a)
    BY <2>1, <2>3, UpdateRefs, IdleFrame DEF RefInv
  <2>4. CASE AppRelay(a)
    BY <2>1, <2>4, AppRelayRefs, IdleFrame DEF RefInv
  <2>5. QED
    BY <1>3, <2>2, <2>3, <2>4 DEF AppNext
<1>4. ASSUME NEW s \in Socks, ClientNext(s) PROVE RefInv'
  <2>1. RefsKept
    BY <1>4 DEF ClientNext, ClientConnect, ClientSend, ClientRecv, ClientLeave,
       RefsKept, AppsKept
  <2>2. IdleKept
    BY <1>4 DEF ClientNext, ClientConnect, ClientSend, ClientRecv, ClientLeave,
       IdleKept
  <2>3. QED
    BY <2>1, <2>2, QuietFrame
<1>5. CASE Stop
  <2>1. RefsKept /\ IdleKept
    BY <1>5 DEF Stop, RefsKept, AppsKept, IdleKept
  <2>2. QED
    BY <2>1, QuietFrame
<1>6. CASE UNCHANGED vars
  <2>1. RefsKept /\ IdleKept
    BY <1>6 DEF vars, RefsKept, AppsKept, IdleKept
  <2>2. QED
    BY <2>1, QuietFrame
<1>7. QED
  BY <1>1, <1>2, <1>3, <1>4, <1>5, <1>6 DEF Next, Done

LEMMA RefInit == Init => RefInv
<1> SUFFICES ASSUME Init PROVE RefInv
  OBVIOUS
<1>1. IdleWorkers
  BY DEF Init, IdleWorkers
<1>2. ASSUME NEW s \in Socks PROVE ref[s] = Holders(s)
  <2>0. events = <<>> /\ relay = <<>> /\ release = <<>>
    BY DEF Init
  <2>1. Count(events, s) = 0 /\ Count(relay, s) = 0
    <3>1. Count(<<>>, s) = 0
      BY CountEmpty
    <3>2. QED
      BY <2>0, <3>1, Zenon
  <2>2. Released(release, s) = 0
    <3>1. Released(release, s) = CountIn(release, Only(s))
      BY ReleasedAsIn
    <3>2. CountIn(<<>>, Only(s)) = 0
      BY CountInEmpty
    <3>3. QED
      BY <2>0, <3>1, <3>2, Zenon
  <2>3. WorkersOn(s) = {} /\ AppsOn(s) = {}
    BY NoneNotSock DEF Init, WorkersOn, AppsOn, S
  <2>4. QED
    BY <2>1, <2>2, <2>3, FS_EmptySet DEF Init, Holders
<1>3. QED
  BY <1>1, <1>2, AccountingAsHolders DEF RefInv

\* For any number of workers, sockets and other threads and whatever the
\* callbacks, the clients and the faults do: vtm_socket_ref and
\* vtm_socket_unref balance.  Until run returns, a socket's refcount is the
\* number of events, relay events, release entries, workers and threads that
\* hold it.
THEOREM RefCountsExact == Spec => []RefAccounting
<1>1. RefInv => RefAccounting
  BY DEF RefInv
<1>2. QED
  BY <1>1, RefInit, RefStep, TypeCorrect, PTL DEF Spec

=============================================================================
