----------------------------- MODULE Listeners ------------------------------
(***************************************************************************)
(* The three implementations of vtm_socket_listener: epoll (one entry for  *)
(* each socket, disabled by its report), kqueue (one filter for each       *)
(* socket and direction, deleted by its report) and select (two sets of    *)
(* descriptors, a mapping from descriptor to socket that holds the sockets *)
(* that may be reported, and two more sets for what one call could not     *)
(* return).  One thread calls run; the others add, rearm, close and remove *)
(* sockets meanwhile.                                                      *)
(*                                                                         *)
(* The kernel is external: whatever is watched may be ready at any time.   *)
(***************************************************************************)
EXTENDS Naturals, FiniteSets, Sequences, SequencesExt

CONSTANTS
    LSocks,      \* the sockets (and their descriptors)
    EventLimits, \* the values of max_events
    FdSetSize    \* FD_SETSIZE

\* The listener's own descriptor, with which interrupt wakes it.
Closer == "closer"

ASSUME LimitsInRange == FdSetSize \in Nat /\ EventLimits \subseteq 1 .. FdSetSize
ASSUME SocksAssumption == IsFiniteSet(LSocks) /\ Closer \notin LSocks

VARIABLES
    backend,  \* epoll, kqueue or select
    limit,    \* num_events
    li,       \* the listener: watch: the directions the kernel watches for;
              \* on: epoll's enabled entries; known: select's mapping; buf, cnt:
              \* its buffer sets and counters; num; poked: interrupted
    added,    \* the sockets that are registered
    shut,     \* those of them that are closed
    asked,    \* what each was last armed for, {} once reported
    pick,     \* select: where run stands and the sets it works with
    told      \* the events run has just returned

liVars == <<backend, limit, li, added, shut, asked, pick, told>>

Dirs == {"READ", "WRITE"}
NoDirs == [s \in LSocks |-> {}]
AtRest == [at |-> "idle", dirs |-> NoDirs]
NoSlot == [sock |-> "none", what |-> {}]

NewListener ==
    [watch |-> NoDirs, on |-> {}, known |-> {}, buf |-> NoDirs, cnt |-> [d \in Dirs |-> 0],
     num |-> 0, poked |-> FALSE]

-----------------------------------------------------------------------------
(* Registering.                                                            *)

\* epoll_fill replaces the entry; kevent_fill and select_fill only add to it.
Filled(l, s, want) ==
    CASE backend = "epoll"  -> [l EXCEPT !.watch[s] = want, !.on = @ \cup {s}]
      [] backend = "kqueue" -> [l EXCEPT !.watch[s] = @ \cup want]
      [] backend = "select" -> [l EXCEPT !.watch[s] = @ \cup want, !.known = @ \cup {s}]

ListenerAdd(s, want) ==
    /\ s \notin added
    /\ backend = "select" => li.num < FdSetSize
    /\ li' = Filled([li EXCEPT !.num = IF backend = "select" THEN @ + 1 ELSE @], s, want)
    /\ added' = added \cup {s} /\ shut' = shut \ {s} /\ asked' = [asked EXCEPT ![s] = want]
    /\ told' = <<>> /\ UNCHANGED <<backend, limit, pick>>

\* The system call fails for a closed socket; FD_SET does not.
ListenerRearm(s, want) ==
    /\ s \in added
    /\ s \in shut => backend = "select"
    /\ li' = Filled(li, s, want)
    /\ asked' = [asked EXCEPT ![s] = want]
    /\ told' = <<>> /\ UNCHANGED <<backend, limit, added, shut, pick>>

\* Closing a descriptor takes it out of epoll and kqueue.
CloseListened(s) ==
    /\ s \in added \ shut /\ shut' = shut \cup {s}
    /\ li' = IF backend = "select" THEN li ELSE [li EXCEPT !.watch[s] = {}, !.on = @ \ {s}]
    /\ told' = <<>> /\ UNCHANGED <<backend, limit, added, asked, pick>>

\* Mutant: select's counters still count the events of a socket that was removed.
Removed_KeepsCount(l, s) ==
    CASE backend = "epoll" -> [l EXCEPT !.watch[s] = {}, !.on = @ \ {s}]
      [] backend = "kqueue" -> [l EXCEPT !.watch[s] = IF "READ" \in @ THEN {} ELSE @]
      [] backend = "select" ->
           [l EXCEPT !.num = @ - 1, !.watch[s] = {}, !.buf[s] = {}, !.known = @ \ {s}]

\* kevent stops at the first filter that is not there, with an error: the filters
\* from there on are kept.
Removed(l, s) ==
    CASE backend = "epoll" -> [l EXCEPT !.watch[s] = {}, !.on = @ \ {s}]
      [] backend = "kqueue" -> [l EXCEPT !.watch[s] = IF "READ" \in @ THEN {} ELSE @]
      [] backend = "select" ->
           [l EXCEPT !.num = @ - 1, !.watch[s] = {}, !.buf[s] = {}, !.known = @ \ {s},
                     !.cnt = [d \in Dirs |-> IF d \in l.buf[s] THEN @[d] - 1 ELSE @[d]]]
RemoveFails(s) == backend = "kqueue" /\ s \notin shut /\ li.watch[s] # Dirs

ListenerRemove(s) ==
    /\ s \in added /\ li' = Removed(li, s)
    /\ added' = IF RemoveFails(s) THEN added ELSE added \ {s}
    /\ asked' = [asked EXCEPT ![s] = IF RemoveFails(s) THEN @ \cap li'.watch[s] ELSE {}]
    /\ told' = <<>> /\ UNCHANGED <<backend, limit, shut, pick>>

\* select has nothing to wake: it returns every 2.5 ms.
ListenerInterrupt ==
    /\ backend # "select" /\ ~li.poked /\ li' = [li EXCEPT !.poked = TRUE]
    /\ told' = <<>> /\ UNCHANGED <<backend, limit, added, shut, asked, pick>>

-----------------------------------------------------------------------------
(* run with epoll and kqueue.                                              *)

\* The loop over what the kernel returned: the closer's event takes no slot, so the
\* later ones move down by one.
Off(raw, i) == IF \E j \in 1 .. i : raw[j].sock = Closer THEN 1 ELSE 0
Scattered(slots, raw) ==
    [k \in DOMAIN slots |->
        LET at == {i \in DOMAIN raw : raw[i].sock # Closer /\ i - Off(raw, i) = k}
        IN  IF at = {} THEN slots[k] ELSE raw[CHOOSE i \in at : TRUE]]
Returned(slots, raw) == SubSeq(slots, 1, Len(raw) - Off(raw, Len(raw)))

\* EPOLLHUP and EV_EOF give CLOSED; what has no name gives ERROR.
Types(e) == (e.what \cap Dirs) \cup (IF "HUP" \in e.what THEN {"CLOSED"} ELSE {})
            \cup (IF e.what \cap {"READ", "WRITE", "HUP"} = {} THEN {"ERROR"} ELSE {})
Named(e) == IF e.sock = Closer THEN e ELSE [e EXCEPT !.what = Types(e)]

KernelEvents ==
    (IF li.poked THEN {[sock |-> Closer, what |-> {"READ"}]} ELSE {})
    \cup CASE backend = "epoll" ->
                UNION {[sock : {s}, what : ((SUBSET li.watch[s]) \ {{}}) \cup {{"HUP"}, {"ERR"}}] : s \in li.on}
           [] backend = "kqueue" ->
                UNION {[sock : {s}, what : UNION {{{d}, {d, "HUP"}} : d \in li.watch[s]}] : s \in LSocks}
\* What one report takes out of the kernel: two events with a part in common
\* cannot come together.
Origin(e) == {e.sock} \X (IF backend = "kqueue" THEN e.what \cap Dirs ELSE {"entry"})
RawBatches ==
    {<<>>} \cup {<<e>> : e \in KernelEvents}
    \cup (IF limit < 2 THEN {}
          ELSE {<<p[1], p[2]>> : p \in {q \in KernelEvents \X KernelEvents : Origin(q[1]) \cap Origin(q[2]) = {}}})

Reported(evs, s) == \E i \in DOMAIN evs : evs[i].sock = s
\* Every event with what its socket was armed for.
Told(evs) == [i \in DOMAIN evs |-> [sock |-> evs[i].sock, what |-> evs[i].what,
                                    was |-> IF evs[i].sock \in LSocks THEN asked[evs[i].sock] ELSE {}]]
Reports(evs) ==
    /\ told' = Told(evs)
    /\ asked' = [s \in LSocks |-> IF Reported(evs, s) THEN {} ELSE asked[s]]

\* kqueue's run reads the pipe at its writing end, which never takes the byte out.
KernelRun(raw) ==
    LET gone(s) == UNION {raw[i].what : i \in {j \in DOMAIN raw : raw[j].sock = s}}
        slots == Scattered([k \in 1 .. limit |-> NoSlot], [i \in DOMAIN raw |-> Named(raw[i])])
    IN  /\ backend # "select"
        /\ Reports(Returned(slots, raw))
        /\ li' = [li EXCEPT
                     !.poked = @ /\ (backend = "kqueue" \/ ~Reported(raw, Closer)),
                     !.on = {s \in @ : ~Reported(raw, s)},
                     !.watch = [s \in LSocks |-> IF backend = "epoll" /\ Reported(raw, s) THEN {}
                                                 ELSE @[s] \ gone(s)]]
        /\ UNCHANGED <<backend, limit, added, shut, pick>>

-----------------------------------------------------------------------------
(* run with select.                                                        *)

Buffered == \E d \in Dirs : li.cnt[d] > 0
\* At most limit of the sockets, in the order of the mapping.
Chosen(handled) == {c \in SUBSET handled : Cardinality(c) = IF Cardinality(handled) < limit
                                                            THEN Cardinality(handled) ELSE limit}
EventsOf(c, dirs) == LET q == SetToSeq(c) IN [i \in DOMAIN q |-> [sock |-> q[i], what |-> dirs[q[i]]]]
Less(cnt, dirs, c) == [d \in Dirs |-> cnt[d] - Cardinality({s \in c : d \in dirs[s]})]
More(cnt, dirs, c) == [d \in Dirs |-> cnt[d] + Cardinality({s \in c : d \in dirs[s]})]

\* What the last call could not return comes first; no select then.
SelectBuffered(c) ==
    /\ backend = "select" /\ pick.at = "idle" /\ Buffered
    /\ c \in Chosen({s \in li.known : li.buf[s] # {}})
    /\ Reports(EventsOf(c, li.buf))
    /\ li' = [li EXCEPT !.known = @ \ c, !.cnt = Less(@, li.buf, c),
                        !.buf = [s \in LSocks |-> IF s \in c THEN {} ELSE @[s]]]
    /\ UNCHANGED <<backend, limit, added, shut, pick>>
\* The sets are copied under mapping_mtx and select works on the copies.
SelectCopy ==
    /\ backend = "select" /\ pick.at = "idle" /\ ~Buffered
    /\ pick' = [at |-> "wait", dirs |-> li.watch]
    /\ told' = <<>> /\ UNCHANGED <<backend, limit, li, added, shut, asked>>
\* A closed descriptor in the copies makes select fail and run return an error;
\* nothing ready, or nothing to watch, returns no event.
SelectReturns(ready) ==
    /\ pick.at = "wait"
    /\ \A s \in LSocks : ready[s] \subseteq pick.dirs[s]
    /\ pick' = IF ready = NoDirs \/ \E s \in shut : pick.dirs[s] # {} THEN AtRest
               ELSE [at |-> "ready", dirs |-> ready]
    /\ told' = <<>> /\ UNCHANGED <<backend, limit, li, added, shut, asked>>
\* Only sockets of the mapping are handled.  A socket that is ready in both
\* directions is reported with the second one: WRITE is assigned over READ.
SelectHandle(c) ==
    LET handled == {s \in li.known : pick.dirs[s] # {}}
        one == [s \in LSocks |-> IF "WRITE" \in pick.dirs[s] THEN {"WRITE"} ELSE pick.dirs[s]]
    IN  /\ pick.at = "ready" /\ c \in Chosen(handled)
        /\ Reports(EventsOf(c, one)) /\ pick' = AtRest
        /\ li' = [li EXCEPT !.known = @ \ c, !.cnt = More(@, pick.dirs, handled \ c),
                     !.watch = [s \in LSocks |-> IF s \in handled THEN @[s] \ pick.dirs[s] ELSE @[s]],
                     !.buf = [s \in LSocks |-> IF s \in handled \ c THEN @[s] \cup pick.dirs[s] ELSE @[s]]]
        /\ UNCHANGED <<backend, limit, added, shut>>

-----------------------------------------------------------------------------
ListenerInit ==
    /\ backend \in {"epoll", "kqueue", "select"} /\ limit \in EventLimits
    /\ li = NewListener /\ added = {} /\ shut = {} /\ asked = NoDirs
    /\ pick = AtRest /\ told = <<>>

ListenerNext ==
    \/ \E s \in LSocks, want \in SUBSET Dirs : ListenerAdd(s, want) \/ ListenerRearm(s, want)
    \/ \E s \in LSocks : CloseListened(s) \/ ListenerRemove(s)
    \/ ListenerInterrupt
    \/ \E raw \in IF backend = "select" THEN {} ELSE RawBatches : KernelRun(raw)
    \/ \E c \in SUBSET LSocks : SelectBuffered(c) \/ SelectHandle(c)
    \/ SelectCopy
    \/ \E ready \in [LSocks -> SUBSET Dirs] : SelectReturns(ready)

ListenerSpec == ListenerInit /\ [][ListenerNext]_liVars

-----------------------------------------------------------------------------
\* Where a listener keeps what it will still report.
Held(s) ==
    CASE backend = "epoll" -> IF s \in li.on THEN li.watch[s] ELSE {}
      [] backend = "kqueue" -> li.watch[s]
      [] backend = "select" -> IF s \in li.known THEN li.watch[s] \cup li.buf[s] ELSE {}

\* run returns at most max_events events, all of registered sockets: with epoll and
\* select one for each socket, with epoll nothing it was not armed for, with kqueue
\* one for each direction.  A socket that was armed and not reported since is still
\* held for every direction, in the kernel's sets or, when more sockets were ready
\* than fit, in select's buffers, whose counters are right whoever added, rearmed or
\* removed sockets while select waited.
ListenerKeeps ==
    /\ \A s \in added \ shut : asked[s] \subseteq Held(s)
    /\ Len(told) <= limit
    /\ \A i \in DOMAIN told :
         /\ told[i].sock \in added
         /\ backend = "epoll" => told[i].what \cap Dirs \subseteq told[i].was
         /\ \A j \in DOMAIN told : told[i].sock = told[j].sock /\ i # j =>
              backend = "kqueue" /\ told[i].what \cap told[j].what \cap Dirs = {}
    /\ backend = "select" =>
         /\ \A d \in Dirs : li.cnt[d] = Cardinality({s \in li.known : d \in li.buf[s]})
         /\ \A s \in LSocks : li.buf[s] # {} => s \in li.known
         /\ li.known \subseteq added /\ li.num = Cardinality(added)
=============================================================================
