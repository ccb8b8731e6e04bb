------------------------------ MODULE NetProofs -----------------------------
(***************************************************************************)
(* DirectSessions of the stream server without worker threads, for any     *)
(* number of places in memory and of connections, and ListenerKeeps of the *)
(* three listeners, for any number of sockets and any limit.               *)
(*                                                                         *)
(* DirectSessions is not inductive: that no event names a freed socket     *)
(* needs to know which sockets the batch and the relay events name.  The   *)
(* sockets of the batch are in cons, each in one event; the relay events   *)
(* are of sockets that were closed in their connected callback, which are  *)
(* not in cons and are never freed; a socket of cons has no flag set while *)
(* none of its callbacks runs.                                             *)
(*                                                                         *)
(* ListenerKeeps needs that an enabled epoll entry is as it was last       *)
(* armed, that kqueue filters are of open registered sockets, and that     *)
(* select buffers nothing while it waits: its copies of the sets would     *)
(* otherwise be counted twice.                                             *)
(***************************************************************************)
EXTENDS DirectServer, Listeners, FiniteSetTheorems, SequenceTheorems, TLAPS

USE DEF directVars, liVars

-----------------------------------------------------------------------------
(* The invariant: a predicate of the record of the server's state, for the *)
(* calls of the code are functions of it.  X is the place of the socket    *)
(* whose callback runs, if any.                                            *)

SockFlags == {"CLOSED", "ERR", "HUP"}
ServerState ==
    [heap : [Places -> [id : 0 .. MaxSessions, flags : SUBSET SockFlags]],
     cons : SUBSET Places, armed : [Places -> SUBSET {"READ", "WRITE"}],
     relay : Seq([type : {"error", "closed"}, place : Places, id : 0 .. MaxSessions]),
     sess : [Ids -> [connected : BOOLEAN, ended : BOOLEAN, late : BOOLEAN]],
     freed : [Ids -> {"no", "closed", "open"}], undefined : BOOLEAN]

\* A session lives at one place, and while it does it was connected, has not
\* ended and is not freed.
HeapOK(st) ==
    /\ \A p, q \in Places : Lives(st, p) /\ st.heap[p].id = st.heap[q].id => p = q
    /\ \A p \in Places : Lives(st, p) =>
         /\ st.sess[st.heap[p].id].connected
         /\ st.freed[st.heap[p].id] = "no"

\* A socket of cons lives and nothing has happened to it; one that is not in
\* cons was closed in its connected callback.  Only sockets of cons are armed.
ConsOK(st, X) ==
    /\ \A p \in st.cons : Lives(st, p) /\ (p \notin X => FlagsOf(st, p) = {})
    /\ \A p \in Places : Lives(st, p) /\ p \notin st.cons /\ p \notin X => "CLOSED" \in FlagsOf(st, p)
    /\ \A p \in Places : st.armed[p] # {} => p \in st.cons

\* Relay events name sockets that were closed in their connected callback.
RelayOK(st) ==
    \A k \in 1 .. Len(st.relay) : Lives(st, st.relay[k].place) /\ st.relay[k].place \notin st.cons

SessOK(st) ==
    \A i \in Ids :
        /\ st.freed[i] # "open" /\ ~st.sess[i].late
        /\ st.sess[i].connected => (st.sess[i].ended <=> st.freed[i] = "closed")
        /\ ~st.sess[i].connected => ~st.sess[i].ended

\* Sessions are numbered in the order of their acceptance.
UsedUpTo(st, n) == \A i \in Ids : (st.sess[i].connected \/ st.freed[i] # "no") <=> i <= n
NumbersOK(st) == \E n \in 0 .. MaxSessions : UsedUpTo(st, n)

Good(st, X) ==
    /\ st \in ServerState /\ ~st.undefined
    /\ HeapOK(st) /\ ConsOK(st, X) /\ RelayOK(st) /\ SessOK(st) /\ NumbersOK(st)

\* The rest of the batch: each event of another socket of cons, or the server's.
Events ==
    [place : Places \cup {"server"}, id : 0 .. MaxSessions,
     what : {{"READ"}, {"WRITE"}, {"READ", "WRITE"}, {"HANGUP"}, {"ERROR"}}]
BatchOK(b, cons) ==
    /\ b \in Seq(Events)
    /\ \A k \in 1 .. Len(b) :
         /\ b[k].place # "server" => b[k].place \in cons
         /\ \A l \in 1 .. Len(b) : b[k].place = b[l].place /\ b[k].place # "server" => k = l

StageOK ==
    /\ stage \in {"listen", "relay", "batch", "accept", "drain", "done"}
    /\ stage \in {"listen", "drain", "done"} => batch = <<>>
    /\ stage = "done" => S.cons = {}

Orderly == seen.other = 0 /\ ~seen.both
DirectInv ==
    /\ seen \in [other : Nat, both : BOOLEAN]
    /\ Orderly => Good(S, {}) /\ BatchOK(batch, S.cons) /\ StageOK

-----------------------------------------------------------------------------
(* What the calls make of the record.                                      *)

LEMMA IdOf ==
    ASSUME NEW st \in ServerState, NEW p \in Places
    PROVE  /\ st.heap[p].id \in 0 .. MaxSessions /\ st.heap[p].flags \in SUBSET SockFlags
           /\ Lives(st, p) => st.heap[p].id \in Ids
  BY DirectAssumption DEF ServerState, Lives, Ids

LEMMA RelayPlaces ==
    ASSUME NEW st \in ServerState
    PROVE  /\ st.relay \in Seq([type : {"error", "closed"}, place : Places, id : 0 .. MaxSessions])
           /\ \A k \in 1 .. Len(st.relay) : st.relay[k].place \in Places
<1> DEFINE R == [type : {"error", "closed"}, place : Places, id : 0 .. MaxSessions]
<1>1. st.relay \in Seq(R)
  BY DEF ServerState
<1>2. \A e \in R : e.place \in Places
  OBVIOUS
<1> HIDE DEF R
<1>3. \A k \in 1 .. Len(st.relay) : st.relay[k] \in R
  BY <1>1, ElementOfSeq
<1>4. QED
  BY <1>1, <1>2, <1>3 DEF R

LEMMA CalledFields ==
    ASSUME NEW st \in ServerState, NEW p \in Places, st.heap[p].id \in Ids, NEW cb
    PROVE  LET r == Called(st, p, cb)  i == st.heap[p].id
           IN  /\ r \in ServerState
               /\ r.heap = st.heap /\ r.cons = st.cons /\ r.armed = st.armed /\ r.relay = st.relay
               /\ r.freed = st.freed /\ r.undefined = st.undefined
               /\ \A j \in Ids \ {i} : r.sess[j] = st.sess[j]
               /\ r.sess[i].connected = (st.sess[i].connected \/ cb = "connected")
               /\ r.sess[i].ended = (st.sess[i].ended \/ cb = "disconnected")
               /\ r.sess[i].late = (st.sess[i].late \/ st.sess[i].ended)
<1> DEFINE i == st.heap[p].id
<1> DEFINE c == [connected |-> st.sess[i].connected \/ cb = "connected",
                 ended |-> st.sess[i].ended \/ cb = "disconnected",
                 late |-> st.sess[i].late \/ st.sess[i].ended]
<1> DEFINE ss == [st.sess EXCEPT ![i] = c]
<1>1. st.sess \in [Ids -> [connected : BOOLEAN, ended : BOOLEAN, late : BOOLEAN]]
  BY DEF ServerState
<1>2. /\ c \in [connected : BOOLEAN, ended : BOOLEAN, late : BOOLEAN]
      /\ c.connected = (st.sess[i].connected \/ cb = "connected")
      /\ c.ended = (st.sess[i].ended \/ cb = "disconnected")
      /\ c.late = (st.sess[i].late \/ st.sess[i].ended)
  BY <1>1
<1>3. Called(st, p, cb) = [st EXCEPT !.sess = ss]
  BY DEF Called
<1> HIDE DEF c
<1>4. /\ ss \in [Ids -> [connected : BOOLEAN, ended : BOOLEAN, late : BOOLEAN]]
      /\ ss[i] = c
      /\ \A j \in Ids \ {i} : ss[j] = st.sess[j]
  BY <1>1, <1>2
<1> HIDE DEF ss
<1>5. QED
  BY <1>2, <1>3, <1>4 DEF ServerState

LEMMA WithFlagsFields ==
    ASSUME NEW st \in ServerState, NEW p \in Places, NEW f \in SUBSET SockFlags
    PROVE  LET r == WithFlags(st, p, f)
           IN  /\ r \in ServerState
               /\ r.cons = st.cons /\ r.armed = st.armed /\ r.relay = st.relay
               /\ r.freed = st.freed /\ r.undefined = st.undefined /\ r.sess = st.sess
               /\ \A q \in Places : r.heap[q].id = st.heap[q].id
               /\ \A q \in Places \ {p} : r.heap[q] = st.heap[q]
               /\ r.heap[p].flags = st.heap[p].flags \cup f
<1> DEFINE Cell == [id : 0 .. MaxSessions, flags : SUBSET SockFlags]
<1> DEFINE h == [st.heap[p] EXCEPT !.flags = @ \cup f]
<1> DEFINE hh == [st.heap EXCEPT ![p] = h]
<1>1. st.heap \in [Places -> Cell]
  BY DEF ServerState
<1>2. h \in Cell /\ h.id = st.heap[p].id /\ h.flags = st.heap[p].flags \cup f
  BY <1>1
<1>3. WithFlags(st, p, f) = [st EXCEPT !.heap = hh]
  BY <1>1 DEF WithFlags, ServerState
<1> HIDE DEF h
<1>4. hh \in [Places -> Cell] /\ hh[p] = h /\ \A q \in Places \ {p} : hh[q] = st.heap[q]
  BY <1>1, <1>2
<1> HIDE DEF hh
<1>5. QED
  BY <1>2, <1>3, <1>4 DEF ServerState

LEMMA SockFreeFields ==
    ASSUME NEW st \in ServerState, NEW p \in Places, st.heap[p].id \in Ids,
           "CLOSED" \in st.heap[p].flags
    PROVE  LET r == SockFree(st, p)  i == st.heap[p].id
           IN  /\ r \in ServerState
               /\ r.cons = st.cons /\ r.armed = st.armed /\ r.relay = st.relay
               /\ r.undefined = st.undefined /\ r.sess = st.sess
               /\ \A q \in Places \ {p} : r.heap[q] = st.heap[q]
               /\ r.heap[p].id = 0
               /\ \A j \in Ids \ {i} : r.freed[j] = st.freed[j]
               /\ r.freed[i] = "closed"
<1> DEFINE Cell == [id : 0 .. MaxSessions, flags : SUBSET SockFlags]
<1> DEFINE hh == [st.heap EXCEPT ![p] = [id |-> 0, flags |-> {}]]
<1> DEFINE ff == [st.freed EXCEPT ![st.heap[p].id] = "closed"]
<1>1. SockFree(st, p) = [st EXCEPT !.freed = ff, !.heap = hh]
  BY DEF SockFree, FlagsOf
<1>2. hh \in [Places -> Cell] /\ hh[p].id = 0 /\ \A q \in Places \ {p} : hh[q] = st.heap[q]
  BY DirectAssumption DEF ServerState
<1>3. /\ ff \in [Ids -> {"no", "closed", "open"}]
      /\ ff[st.heap[p].id] = "closed"
      /\ \A j \in Ids \ {st.heap[p].id} : ff[j] = st.freed[j]
  BY DEF ServerState
<1> HIDE DEF hh, ff
<1>4. QED
  BY <1>1, <1>2, <1>3, ZenonT(60) DEF ServerState

Arm(st, p, c, want) == [st EXCEPT !.cons = c, !.armed[p] = want]

LEMMA ArmedFields ==
    ASSUME NEW st \in ServerState, NEW p \in Places, NEW c \in SUBSET Places,
           NEW want \in SUBSET {"READ", "WRITE"}
    PROVE  LET r == Arm(st, p, c, want)
           IN  /\ r \in ServerState
               /\ r.heap = st.heap /\ r.cons = c /\ r.relay = st.relay
               /\ r.freed = st.freed /\ r.undefined = st.undefined /\ r.sess = st.sess
               /\ r.armed[p] = want /\ \A q \in Places \ {p} : r.armed[q] = st.armed[q]
<1> DEFINE aa == [st.armed EXCEPT ![p] = want]
<1>1. Arm(st, p, c, want) = [st EXCEPT !.cons = c, !.armed = aa]
  BY DEF Arm
<1>2. aa \in [Places -> SUBSET {"READ", "WRITE"}] /\ aa[p] = want /\ \A q \in Places \ {p} : aa[q] = st.armed[q]
  BY DEF ServerState
<1> HIDE DEF aa
<1>3. QED
  BY <1>1, <1>2, ZenonT(60) DEF ServerState

\* What a call for p leaves to the others.
Beside(r, st, p) ==
    /\ r.relay = st.relay
    /\ r.cons \subseteq st.cons /\ st.cons \ {p} \subseteq r.cons

LEMMA CalledGood ==
    ASSUME NEW st, NEW X, Good(st, X), NEW p \in Places, Lives(st, p), NEW cb, cb # "disconnected"
    PROVE  LET r == Called(st, p, cb) IN Good(r, X) /\ Beside(r, st, p) /\ r.heap = st.heap /\ r.cons = st.cons
<1> DEFINE r == Called(st, p, cb)
<1> DEFINE i == st.heap[p].id
<1>1. st \in ServerState /\ i \in Ids
  BY IdOf DEF Good
<1>2. /\ r \in ServerState
      /\ r.heap = st.heap /\ r.cons = st.cons /\ r.armed = st.armed /\ r.relay = st.relay
      /\ r.freed = st.freed /\ r.undefined = st.undefined
      /\ \A j \in Ids \ {i} : r.sess[j] = st.sess[j]
      /\ r.sess[i].connected = (st.sess[i].connected \/ cb = "connected")
      /\ r.sess[i].ended = (st.sess[i].ended \/ cb = "disconnected")
      /\ r.sess[i].late = (st.sess[i].late \/ st.sess[i].ended)
  BY <1>1, CalledFields
<1> HIDE DEF r
<1>3. st.sess[i].connected /\ st.freed[i] = "no" /\ ~st.sess[i].ended /\ ~st.sess[i].late
  BY <1>1 DEF Good, HeapOK, SessOK
<1>4. /\ \A j \in Ids : r.sess[j].connected <=> st.sess[j].connected
      /\ \A j \in Ids : r.sess[j].ended <=> st.sess[j].ended
      /\ \A j \in Ids : r.sess[j].late <=> st.sess[j].late
  BY <1>1, <1>2, <1>3
<1>5. HeapOK(r)
  <2>1. HeapOK(st) /\ \A q \in Places : Lives(st, q) => st.heap[q].id \in Ids
    BY <1>1, IdOf DEF Good
  <2>2. ASSUME NEW q \in Places, Lives(r, q)
        PROVE  r.sess[r.heap[q].id].connected /\ r.freed[r.heap[q].id] = "no"
    <3>1. Lives(st, q)
      BY <1>2, <2>2 DEF Lives
    <3> DEFINE j == st.heap[q].id
    <3>2. j \in Ids /\ st.sess[j].connected /\ st.freed[j] = "no"
      BY <2>1, <3>1 DEF HeapOK
    <3> HIDE DEF j
    <3>3. r.sess[j].connected /\ r.freed[j] = "no"
      BY <1>2, <1>4, <3>2, SMTT(60)
    <3>4. QED
      BY <1>2, <3>3, Zenon DEF j
  <2>3. \A q, s \in Places : Lives(r, q) /\ r.heap[q].id = r.heap[s].id => q = s
    BY <1>2, <2>1, SMTT(60) DEF HeapOK, Lives
  <2>4. QED
    BY <2>2, <2>3 DEF HeapOK
<1>6. ConsOK(r, X) /\ RelayOK(r)
  BY <1>2 DEF Good, ConsOK, RelayOK, Lives, FlagsOf
<1>7. SessOK(r)
  BY <1>2, <1>4 DEF Good, SessOK
<1>8. NumbersOK(r)
  BY <1>2, <1>4 DEF Good, NumbersOK, UsedUpTo
<1>9. Good(r, X)
  BY <1>2, <1>5, <1>6, <1>7, <1>8 DEF Good
<1>10. Beside(r, st, p)
  BY <1>2 DEF Beside
<1>11. QED
  BY <1>2, <1>9, <1>10 DEF r

LEMMA WithFlagsGood ==
    ASSUME NEW st, NEW p \in Places, Good(st, {}) \/ Good(st, {p}), Lives(st, p), NEW f \in SUBSET SockFlags
    PROVE  LET r == WithFlags(st, p, f)
           IN  /\ Good(r, {p}) /\ Beside(r, st, p) /\ Lives(r, p) /\ r.cons = st.cons
               /\ FlagsOf(r, p) = FlagsOf(st, p) \cup f
<1> DEFINE r == WithFlags(st, p, f)
<1>1. st \in ServerState
  BY DEF Good
<1>2. /\ r \in ServerState
      /\ r.cons = st.cons /\ r.armed = st.armed /\ r.relay = st.relay
      /\ r.freed = st.freed /\ r.undefined = st.undefined /\ r.sess = st.sess
      /\ \A q \in Places : r.heap[q].id = st.heap[q].id
      /\ \A q \in Places \ {p} : r.heap[q] = st.heap[q]
      /\ r.heap[p].flags = st.heap[p].flags \cup f
  BY <1>1, WithFlagsFields
<1> HIDE DEF r
<1>3. HeapOK(r)
  <2>1. HeapOK(st)
    BY DEF Good
  <2>2. QED
    BY <1>2, <2>1 DEF HeapOK, Lives
<1>4. ConsOK(r, {p})
  <2>1. ConsOK(st, {p})
    BY DEF Good, ConsOK
  <2>2. st.cons \subseteq Places
    BY <1>1 DEF ServerState
  <2>3. QED
    BY <1>2, <2>1, <2>2 DEF ConsOK, Lives, FlagsOf
<1>5. RelayOK(r)
  <2>1. ASSUME NEW k \in 1 .. Len(st.relay)
        PROVE  /\ st.relay[k].place \in Places /\ st.heap[st.relay[k].place].id # 0
               /\ st.relay[k].place \notin st.cons
    BY <1>1, <2>1, RelayPlaces DEF Good, RelayOK, Lives
  <2>2. ASSUME NEW q \in Places, st.heap[q].id # 0
        PROVE  Lives(r, q)
    BY <1>2, <2>2 DEF Lives
  <2>3. r.relay = st.relay /\ r.cons = st.cons
    BY <1>2
  <2>4. QED
    BY <2>1, <2>2, <2>3 DEF RelayOK
<1>6. SessOK(r) /\ NumbersOK(r)
  BY <1>2 DEF Good, SessOK, NumbersOK, UsedUpTo
<1>7. Good(r, {p})
  BY <1>2, <1>3, <1>4, <1>5, <1>6 DEF Good
<1>8. Beside(r, st, p) /\ Lives(r, p) /\ FlagsOf(r, p) = FlagsOf(st, p) \cup f
  BY <1>2 DEF Beside, Lives, FlagsOf
<1>9. QED
  BY <1>2, <1>7, <1>8 DEF r

\* disconnected and vtm_socket_free, for a socket nobody refers to any more.
LEMMA EndGood ==
    ASSUME NEW st, NEW p \in Places, Good(st, {p}), Lives(st, p), "CLOSED" \in FlagsOf(st, p),
           p \notin st.cons, st.armed[p] = {}, \A k \in 1 .. Len(st.relay) : st.relay[k].place # p
    PROVE  LET r == SockFree(Called(st, p, "disconnected"), p)
           IN  Good(r, {}) /\ r.cons = st.cons /\ r.relay = st.relay
<1> DEFINE b == Called(st, p, "disconnected")
<1> DEFINE r == SockFree(b, p)
<1> DEFINE i == st.heap[p].id
<1>1. st \in ServerState
  BY DEF Good
<1>2. i \in Ids
  BY <1>1, IdOf
<1>3. /\ b \in ServerState
      /\ b.heap = st.heap /\ b.cons = st.cons /\ b.armed = st.armed /\ b.relay = st.relay
      /\ b.freed = st.freed /\ b.undefined = st.undefined
      /\ \A j \in Ids \ {i} : b.sess[j] = st.sess[j]
      /\ b.sess[i].connected = st.sess[i].connected
      /\ b.sess[i].ended
      /\ b.sess[i].late = (st.sess[i].late \/ st.sess[i].ended)
  <2>1. st.sess[i].connected \in BOOLEAN
    BY <1>1, <1>2 DEF ServerState
  <2>2. /\ b \in ServerState
        /\ b.heap = st.heap /\ b.cons = st.cons /\ b.armed = st.armed /\ b.relay = st.relay
        /\ b.freed = st.freed /\ b.undefined = st.undefined
        /\ \A j \in Ids \ {i} : b.sess[j] = st.sess[j]
        /\ b.sess[i].connected = (st.sess[i].connected \/ "disconnected" = "connected")
        /\ b.sess[i].ended = (st.sess[i].ended \/ "disconnected" = "disconnected")
        /\ b.sess[i].late = (st.sess[i].late \/ st.sess[i].ended)
    BY <1>1, <1>2, CalledFields, SMTT(60)
  <2> HIDE DEF b
  <2>3. QED
    BY <2>1, <2>2
<1> HIDE DEF b
<1>4. /\ r \in ServerState
      /\ r.cons = st.cons /\ r.armed = st.armed /\ r.relay = st.relay
      /\ r.undefined = st.undefined /\ r.sess = b.sess
      /\ \A q \in Places \ {p} : r.heap[q] = st.heap[q]
      /\ r.heap[p].id = 0
      /\ \A j \in Ids \ {i} : r.freed[j] = st.freed[j]
      /\ r.freed[i] = "closed"
  <2>1. b.heap[p].id = i /\ "CLOSED" \in b.heap[p].flags
    BY <1>3 DEF FlagsOf
  <2>2. QED
    BY <1>2, <1>3, <2>1, SockFreeFields
<1> HIDE DEF r
<1>5. st.sess[i].connected /\ st.freed[i] = "no" /\ ~st.sess[i].ended /\ ~st.sess[i].late
  BY <1>2 DEF Good, HeapOK, SessOK
<1>6. HeapOK(r)
  <2>1. \A q \in Places \ {p} : Lives(st, q) => st.heap[q].id \in Ids \ {i}
    BY <1>1, IdOf DEF Good, HeapOK
  <2>2. HeapOK(st)
    BY DEF Good
  <2>3. ASSUME NEW q \in Places, Lives(r, q)
        PROVE  /\ q # p /\ r.heap[q] = st.heap[q] /\ Lives(st, q)
               /\ r.sess[r.heap[q].id].connected /\ r.freed[r.heap[q].id] = "no"
    <3>1. q # p
      BY <1>4, <2>3 DEF Lives
    <3>2. r.heap[q] = st.heap[q] /\ Lives(st, q)
      BY <1>4, <2>3, <3>1 DEF Lives
    <3> DEFINE j == st.heap[q].id
    <3>3. j \in Ids \ {i} /\ st.sess[j].connected /\ st.freed[j] = "no"
      BY <2>1, <2>2, <3>1, <3>2 DEF HeapOK
    <3> HIDE DEF j
    <3>4. r.sess[j].connected /\ r.freed[j] = "no"
      BY <1>3, <1>4, <3>3
    <3>5. QED
      BY <3>1, <3>2, <3>4, Zenon DEF j
  <2>4. \A q, s \in Places : Lives(r, q) /\ r.heap[q].id = r.heap[s].id => q = s
    BY <2>2, <2>3 DEF HeapOK, Lives
  <2>5. QED
    BY <2>3, <2>4 DEF HeapOK
<1>7. ConsOK(r, {})
  <2>1. st.cons \subseteq Places /\ ConsOK(st, {p})
    BY <1>1 DEF ServerState, Good
  <2>2. QED
    BY <1>4, <2>1 DEF ConsOK, Lives, FlagsOf
<1>8. RelayOK(r)
  <2>1. \A k \in 1 .. Len(st.relay) : st.relay[k].place \in Places \ {p}
    BY <1>1, RelayPlaces
  <2>2. QED
    BY <1>4, <2>1 DEF Good, RelayOK, Lives
<1>9. SessOK(r)
  <2>1. SessOK(st)
    BY DEF Good
  <2>2. ASSUME NEW j \in Ids
        PROVE  /\ r.freed[j] # "open" /\ ~r.sess[j].late
               /\ r.sess[j].connected => (r.sess[j].ended <=> r.freed[j] = "closed")
               /\ ~r.sess[j].connected => ~r.sess[j].ended
    <3>1. CASE j = i
      BY <1>3, <1>4, <1>5, <3>1
    <3>2. CASE j # i
      <4>1. r.sess[j] = st.sess[j] /\ r.freed[j] = st.freed[j]
        BY <1>3, <1>4, <3>2
      <4>2. QED
        BY <2>1, <4>1 DEF SessOK
    <3>3. QED
      BY <3>1, <3>2
  <2>3. QED
    BY <2>2 DEF SessOK
<1>10. NumbersOK(r)
  <2>1. \A j \in Ids : r.sess[j].connected \/ r.freed[j] # "no" <=> st.sess[j].connected \/ st.freed[j] # "no"
    BY <1>3, <1>4, <1>5
  <2>2. QED
    BY <2>1 DEF Good, NumbersOK, UsedUpTo
<1>11. Good(r, {})
  BY <1>4, <1>6, <1>7, <1>8, <1>9, <1>10 DEF Good
<1>12. QED
  BY <1>4, <1>11 DEF r, b

LEMMA SockClosedGood ==
    ASSUME NEW st, NEW p \in Places, Good(st, {p}), Lives(st, p), "CLOSED" \in FlagsOf(st, p)
    PROVE  LET r == SockClosed(st, p) IN Good(r, {}) /\ Beside(r, st, p) /\ r.cons = st.cons \ {p}
<1>1. st \in ServerState
  BY DEF Good
<1>2. CASE p \notin st.cons
  <2>1. SockClosed(st, p) = st
    BY <1>2 DEF SockClosed
  <2>2. ConsOK(st, {})
    BY <1>2 DEF Good, ConsOK
  <2>3. st.cons = st.cons \ {p}
    BY <1>2
  <2>4. QED
    BY <2>1, <2>2, <2>3 DEF Good, Beside
<1>3. CASE p \in st.cons
  <2> DEFINE a == Arm(st, p, st.cons \ {p}, {})
  <2>1. SockClosed(st, p) = SockFree(Called(a, p, "disconnected"), p)
    BY <1>3 DEF SockClosed, Arm
  <2>2. /\ a \in ServerState
        /\ a.heap = st.heap /\ a.cons = st.cons \ {p} /\ a.relay = st.relay
        /\ a.freed = st.freed /\ a.undefined = st.undefined /\ a.sess = st.sess
        /\ a.armed[p] = {} /\ \A q \in Places \ {p} : a.armed[q] = st.armed[q]
    <3> DEFINE c == st.cons \ {p}
    <3> DEFINE none == {}
    <3>1. c \in SUBSET Places
      BY <1>1 DEF ServerState
    <3>2. none \in SUBSET {"READ", "WRITE"}
      OBVIOUS
    <3> HIDE DEF c, none
    <3>3. /\ Arm(st, p, c, none) \in ServerState
          /\ Arm(st, p, c, none).heap = st.heap /\ Arm(st, p, c, none).cons = c
          /\ Arm(st, p, c, none).relay = st.relay
          /\ Arm(st, p, c, none).freed = st.freed /\ Arm(st, p, c, none).undefined = st.undefined
          /\ Arm(st, p, c, none).sess = st.sess
          /\ Arm(st, p, c, none).armed[p] = none
          /\ \A q \in Places \ {p} : Arm(st, p, c, none).armed[q] = st.armed[q]
      BY <1>1, <3>1, <3>2, ArmedFields
    <3>4. QED
      BY <3>3 DEF c, none
  <2> HIDE DEF a
  <2>3. ConsOK(a, {p})
    BY <2>2 DEF Good, ConsOK, Lives, FlagsOf
  <2>4. HeapOK(a) /\ SessOK(a) /\ NumbersOK(a)
    BY <2>2 DEF Good, HeapOK, SessOK, NumbersOK, UsedUpTo, Lives
  <2>5. RelayOK(a) /\ \A k \in 1 .. Len(a.relay) : a.relay[k].place # p
    BY <1>3, <2>2 DEF Good, RelayOK, Lives
  <2>6. Good(a, {p}) /\ Lives(a, p) /\ "CLOSED" \in FlagsOf(a, p) /\ p \notin a.cons
    BY <2>2, <2>3, <2>4, <2>5 DEF Good, Lives, FlagsOf
  <2>7. LET r == SockFree(Called(a, p, "disconnected"), p)
        IN  Good(r, {}) /\ r.cons = a.cons /\ r.relay = a.relay
    BY <2>2, <2>5, <2>6, EndGood
  <2>8. QED
    BY <2>1, <2>2, <2>7 DEF Beside
<1>4. QED
  BY <1>2, <1>3

LEMMA SockErrorGood ==
    ASSUME NEW st, NEW p \in Places, Good(st, {p}), Lives(st, p)
    PROVE  LET r == SockError(st, p) IN Good(r, {}) /\ Beside(r, st, p) /\ r.cons = st.cons \ {p}
<1> DEFINE a == Called(st, p, "error")
<1> DEFINE b == WithFlags(a, p, {"CLOSED"})
<1>1. SockError(st, p) = SockClosed(b, p)
  BY DEF SockError
<1>2. Good(a, {p}) /\ Beside(a, st, p) /\ a.heap = st.heap /\ a.cons = st.cons
  BY CalledGood
<1> HIDE DEF a
<1>3. Lives(a, p) /\ {"CLOSED"} \in SUBSET SockFlags
  BY <1>2 DEF Lives, SockFlags
<1>4. /\ Good(b, {p}) /\ Beside(b, a, p) /\ Lives(b, p) /\ b.cons = a.cons
      /\ FlagsOf(b, p) = FlagsOf(a, p) \cup {"CLOSED"}
  BY <1>2, <1>3, WithFlagsGood
<1> HIDE DEF b
<1>5. LET r == SockClosed(b, p) IN Good(r, {}) /\ Beside(r, b, p) /\ r.cons = b.cons \ {p}
  BY <1>4, SockClosedGood
<1>6. QED
  BY <1>1, <1>2, <1>4, <1>5 DEF Beside

LEMMA SockCheckGood ==
    ASSUME NEW st, NEW p \in Places, Good(st, {p}), Lives(st, p), NEW rearm \in BOOLEAN,
           NEW want \in SUBSET {"READ", "WRITE"}, FlagsOf(st, p) = {} => p \in st.cons
    PROVE  LET r == SockCheck(st, p, rearm, want) IN Good(r, {}) /\ Beside(r, st, p)
<1> DEFINE g == FlagsOf(st, p)
<1> DEFINE b == WithFlags(st, p, {"CLOSED"})
<1>1. st \in ServerState /\ g \in SUBSET SockFlags
  BY IdOf DEF Good, FlagsOf
<1>2. {"CLOSED"} \in SUBSET SockFlags
  BY DEF SockFlags
<1>3. /\ Good(b, {p}) /\ Beside(b, st, p) /\ Lives(b, p) /\ b.cons = st.cons
      /\ FlagsOf(b, p) = FlagsOf(st, p) \cup {"CLOSED"}
  <2> DEFINE c == {"CLOSED"}
  <2>1. c \in SUBSET SockFlags
    BY <1>2
  <2> HIDE DEF c
  <2>2. /\ Good(WithFlags(st, p, c), {p}) /\ Beside(WithFlags(st, p, c), st, p)
        /\ Lives(WithFlags(st, p, c), p) /\ WithFlags(st, p, c).cons = st.cons
        /\ FlagsOf(WithFlags(st, p, c), p) = FlagsOf(st, p) \cup c
    BY <2>1, WithFlagsGood, SMTT(60)
  <2>3. QED
    BY <2>2 DEF c
<1> HIDE DEF b
<1> DEFINE r == SockCheck(st, p, rearm, want)
<1>4. LET c == SockClosed(b, p) IN Good(c, {}) /\ Beside(c, st, p)
  BY <1>3, SockClosedGood DEF Beside
<1>5. CASE "ERR" \in g
  BY <1>5, SockErrorGood DEF SockCheck
<1>6. CASE "ERR" \notin g /\ "CLOSED" \in g
  BY <1>6, SockClosedGood DEF SockCheck
<1>7. CASE "ERR" \notin g /\ "CLOSED" \notin g /\ ("HUP" \in g \/ (rearm /\ want = {}))
  BY <1>4, <1>7 DEF SockCheck, b
<1>8. CASE g \cap {"ERR", "CLOSED", "HUP"} = {} /\ ~rearm
  <2>1. r = st
    BY <1>8 DEF SockCheck
  <2>2. g = {}
    BY <1>1, <1>8 DEF SockFlags
  <2>3. ConsOK(st, {})
    BY <2>2 DEF Good, ConsOK
  <2>4. QED
    BY <2>1, <2>3 DEF Good, Beside
<1>9. CASE g \cap {"ERR", "CLOSED", "HUP"} = {} /\ rearm /\ want # {}
  <2>1. r = [st EXCEPT !.armed[p] = want]
    BY <1>9 DEF SockCheck
  <2>2. g = {}
    BY <1>1, <1>9 DEF SockFlags
  <2>3. st.cons \in SUBSET Places /\ [st EXCEPT !.armed[p] = want] = Arm(st, p, st.cons, want)
    BY <1>1 DEF ServerState, Arm
  <2>4. /\ r \in ServerState
        /\ r.heap = st.heap /\ r.cons = st.cons /\ r.relay = st.relay
        /\ r.freed = st.freed /\ r.undefined = st.undefined /\ r.sess = st.sess
        /\ r.armed[p] = want /\ \A q \in Places \ {p} : r.armed[q] = st.armed[q]
    <3>1. r = Arm(st, p, st.cons, want)
      BY <2>1, <2>3
    <3> DEFINE c == st.cons
    <3>2. c \in SUBSET Places
      BY <2>3
    <3> HIDE DEF r, c
    <3>3. /\ Arm(st, p, c, want) \in ServerState
          /\ Arm(st, p, c, want).heap = st.heap /\ Arm(st, p, c, want).cons = c
          /\ Arm(st, p, c, want).relay = st.relay
          /\ Arm(st, p, c, want).freed = st.freed /\ Arm(st, p, c, want).undefined = st.undefined
          /\ Arm(st, p, c, want).sess = st.sess
          /\ Arm(st, p, c, want).armed[p] = want
          /\ \A q \in Places \ {p} : Arm(st, p, c, want).armed[q] = st.armed[q]
      BY <1>1, <3>2, ArmedFields
    <3>4. QED
      BY <3>1, <3>3, Zenon DEF c
  <2> HIDE DEF r
  <2>5. ConsOK(r, {})
    BY <2>2, <2>4 DEF Good, ConsOK, Lives, FlagsOf
  <2>6. HeapOK(r) /\ RelayOK(r) /\ SessOK(r) /\ NumbersOK(r)
    BY <2>4 DEF Good, HeapOK, RelayOK, SessOK, NumbersOK, UsedUpTo, Lives
  <2>7. Good(r, {}) /\ Beside(r, st, p)
    BY <2>4, <2>5, <2>6 DEF Good, Beside
  <2>8. QED
    BY <2>7 DEF r
<1>10. QED
  BY <1>1, <1>5, <1>6, <1>7, <1>8, <1>9 DEF SockFlags

\* A read or write event of one socket whose callback keeps to it.
LEMMA ServedGood ==
    ASSUME NEW st, NEW p \in Places, Good(st, {}), p \in st.cons, NEW own \in Results,
           NEW want \in SUBSET {"READ", "WRITE"}
    PROVE  LET r == Served(st, p, own, NoOther, want) IN Good(r, {}) /\ Beside(r, st, p)
<1> DEFINE a == Called(st, p, "data")
<1> DEFINE b == WithFlags(a, p, own)
<1>1. Served(st, p, own, NoOther, want) = SockCheck(b, p, TRUE, want)
  BY DEF Served, Callback
<1>2. Lives(st, p)
  BY DEF Good, ConsOK
<1>3. Good(a, {}) /\ Beside(a, st, p) /\ a.heap = st.heap /\ a.cons = st.cons
  BY <1>2, CalledGood
<1> HIDE DEF a
<1>4. Lives(a, p) /\ own \in SUBSET SockFlags
  BY <1>2, <1>3 DEF Lives, SockFlags, Results
<1>5. Good(b, {p}) /\ Beside(b, a, p) /\ Lives(b, p) /\ b.cons = a.cons
  BY <1>3, <1>4, WithFlagsGood
<1> HIDE DEF b
<1>6. LET r == SockCheck(b, p, TRUE, want) IN Good(r, {}) /\ Beside(r, b, p)
  BY <1>3, <1>5, SockCheckGood
<1>7. QED
  BY <1>1, <1>3, <1>5, <1>6 DEF Beside

-----------------------------------------------------------------------------
(* Accepting a connection.                                                 *)

LEMMA RelayAddGood ==
    ASSUME NEW st, NEW p \in Places, Good(st, {p}), Lives(st, p), p \notin st.cons, NEW type \in {"error", "closed"}
    PROVE  LET r == [st EXCEPT !.relay = Append(@, [type |-> type, place |-> p, id |-> st.heap[p].id])]
           IN  Good(r, {p}) /\ r.cons = st.cons /\ Lives(r, p) /\ FlagsOf(r, p) = FlagsOf(st, p)
<1> DEFINE R == [type : {"error", "closed"}, place : Places, id : 0 .. MaxSessions]
<1> DEFINE e == [type |-> type, place |-> p, id |-> st.heap[p].id]
<1> DEFINE q == Append(st.relay, e)
<1> DEFINE r == [st EXCEPT !.relay = q]
<1>1. st \in ServerState /\ st.relay \in Seq(R)
  BY RelayPlaces DEF Good
<1>2. e \in R /\ e.place = p
  BY <1>1, IdOf
<1> HIDE DEF e, R
<1>3. /\ q \in Seq(R) /\ Len(q) = Len(st.relay) + 1 /\ q[Len(st.relay) + 1] = e
      /\ \A k \in 1 .. Len(st.relay) : q[k] = st.relay[k]
  BY <1>1, <1>2, AppendProperties
<1>4. Len(st.relay) \in Nat
  BY <1>1, LenProperties
<1> HIDE DEF q
<1>5. /\ r \in ServerState
      /\ r.cons = st.cons /\ r.armed = st.armed /\ r.relay = q /\ r.heap = st.heap
      /\ r.freed = st.freed /\ r.undefined = st.undefined /\ r.sess = st.sess
  BY <1>1, <1>3 DEF ServerState, R
<1> HIDE DEF r
<1>6. HeapOK(r) /\ SessOK(r) /\ NumbersOK(r) /\ ConsOK(r, {p})
  BY <1>5 DEF Good, HeapOK, SessOK, NumbersOK, UsedUpTo, ConsOK, Lives, FlagsOf
<1>7. RelayOK(r)
  <2>1. ASSUME NEW k \in 1 .. Len(q)
        PROVE  Lives(st, q[k].place) /\ q[k].place \notin st.cons
    <3>1. CASE k \in 1 .. Len(st.relay)
      BY <1>3, <3>1 DEF Good, RelayOK
    <3>2. CASE k = Len(st.relay) + 1
      BY <1>2, <1>3, <3>2
    <3>3. QED
      BY <1>3, <1>4, <3>1, <3>2
  <2>2. QED
    BY <1>5, <2>1 DEF RelayOK, Lives
<1>8. Good(r, {p})
  BY <1>5, <1>6, <1>7 DEF Good
<1>9. Lives(r, p) /\ FlagsOf(r, p) = FlagsOf(st, p)
  BY <1>5 DEF Lives, FlagsOf
<1>10. QED
  BY <1>5, <1>8, <1>9 DEF r, q, e

LEMMA ReportGood ==
    ASSUME NEW st, NEW p \in Places, Good(st, {p}), Lives(st, p), p \notin st.cons
    PROVE  LET r == Report(st, p)
           IN  Good(r, {p}) /\ r.cons = st.cons /\ Lives(r, p) /\ FlagsOf(st, p) \subseteq FlagsOf(r, p)
<1> DEFINE c == {"CLOSED"}
<1> DEFINE b == WithFlags(st, p, c)
<1>1. c \in SUBSET SockFlags
  BY DEF SockFlags
<1> HIDE DEF c
<1>2. /\ Good(b, {p}) /\ Beside(b, st, p) /\ Lives(b, p) /\ b.cons = st.cons
      /\ FlagsOf(b, p) = FlagsOf(st, p) \cup c
  BY <1>1, WithFlagsGood
<1>3. b.heap[p].id = st.heap[p].id
  BY <1>1, WithFlagsFields DEF Good
<1> HIDE DEF b
<1> DEFINE On(s, type) == [s EXCEPT !.relay = Append(@, [type |-> type, place |-> p, id |-> s.heap[p].id])]
<1>4. \A type \in {"error", "closed"} :
         /\ Good(On(st, type), {p}) /\ On(st, type).cons = st.cons /\ Lives(On(st, type), p)
         /\ FlagsOf(On(st, type), p) = FlagsOf(st, p)
  BY RelayAddGood
<1>5. /\ Good(On(b, "closed"), {p}) /\ On(b, "closed").cons = b.cons /\ Lives(On(b, "closed"), p)
      /\ FlagsOf(On(b, "closed"), p) = FlagsOf(b, p)
  <2>1. p \notin b.cons
    BY <1>2
  <2>2. QED
    BY <1>2, <2>1, RelayAddGood
<1>6. Report(st, p) = IF "ERR" \in FlagsOf(st, p) THEN On(st, "error")
                      ELSE IF "CLOSED" \in FlagsOf(st, p) THEN On(st, "closed")
                      ELSE IF "HUP" \in FlagsOf(st, p) THEN On(b, "closed")
                      ELSE st
  <2>1. b.relay = st.relay
    BY <1>2 DEF Beside
  <2>2. On(b, "closed") = [b EXCEPT !.relay = Append(st.relay, [type |-> "closed", place |-> p, id |-> st.heap[p].id])]
    BY <1>3, <2>1
  <2>3. On(st, "error") = [st EXCEPT !.relay = Append(st.relay, [type |-> "error", place |-> p, id |-> st.heap[p].id])]
    OBVIOUS
  <2>4. On(st, "closed") = [st EXCEPT !.relay = Append(st.relay, [type |-> "closed", place |-> p, id |-> st.heap[p].id])]
    OBVIOUS
  <2> HIDE DEF On
  <2>5. QED
    BY <2>2, <2>3, <2>4 DEF Report, b, c
<1> HIDE DEF On
<1>7. QED
  BY <1>2, <1>4, <1>5, <1>6

\* What vtm_socket_accept makes: a new session n + 1 at a free place.
Fresh(st, p, n) == [st EXCEPT !.heap[p] = [id |-> n + 1, flags |-> {}]]

LEMMA FreshFields ==
    ASSUME NEW st, Good(st, {}), NEW p \in Places, ~Lives(st, p),
           NEW n \in 0 .. MaxSessions, UsedUpTo(st, n), n + 1 <= MaxSessions
    PROVE  LET r == Fresh(st, p, n)
           IN  /\ r \in ServerState /\ n + 1 \in Ids
               /\ r.cons = st.cons /\ r.armed = st.armed /\ r.relay = st.relay
               /\ r.freed = st.freed /\ r.undefined = st.undefined /\ r.sess = st.sess
               /\ r.heap[p].id = n + 1 /\ r.heap[p].flags = {}
               /\ \A q \in Places \ {p} : r.heap[q] = st.heap[q]
               /\ p \notin st.cons /\ st.armed[p] = {}
               /\ \A k \in 1 .. Len(st.relay) : st.relay[k].place # p
               /\ \A q \in Places : st.heap[q].id # n + 1
               /\ ~st.sess[n + 1].connected /\ ~st.sess[n + 1].ended /\ ~st.sess[n + 1].late
               /\ st.freed[n + 1] = "no"
<1> DEFINE hh == [st.heap EXCEPT ![p] = [id |-> n + 1, flags |-> {}]]
<1>1. st \in ServerState /\ n + 1 \in Ids /\ n + 1 # 0 /\ n + 1 \in 0 .. MaxSessions /\ ~(n + 1 <= n)
  BY DirectAssumption DEF Good, Ids
<1>2. Fresh(st, p, n) = [st EXCEPT !.heap = hh]
  BY DEF Fresh
<1>3. /\ hh \in [Places -> [id : 0 .. MaxSessions, flags : SUBSET SockFlags]]
      /\ hh[p].id = n + 1 /\ hh[p].flags = {} /\ \A q \in Places \ {p} : hh[q] = st.heap[q]
  BY <1>1 DEF ServerState
<1> HIDE DEF hh
<1>4. p \notin st.cons /\ st.armed[p] = {} /\ \A k \in 1 .. Len(st.relay) : st.relay[k].place # p
  BY DEF Good, ConsOK, RelayOK
<1>5. ~st.sess[n + 1].connected /\ st.freed[n + 1] = "no"
  BY <1>1 DEF UsedUpTo
<1>6. ~st.sess[n + 1].ended /\ ~st.sess[n + 1].late
  BY <1>1, <1>5 DEF Good, SessOK
<1>7. \A q \in Places : st.heap[q].id # n + 1
  BY <1>1, <1>5 DEF Good, HeapOK, Lives
<1>8. /\ Fresh(st, p, n) \in ServerState
      /\ Fresh(st, p, n).heap = hh
      /\ Fresh(st, p, n).cons = st.cons /\ Fresh(st, p, n).armed = st.armed /\ Fresh(st, p, n).relay = st.relay
      /\ Fresh(st, p, n).freed = st.freed /\ Fresh(st, p, n).undefined = st.undefined
      /\ Fresh(st, p, n).sess = st.sess
  BY <1>1, <1>2, <1>3 DEF ServerState
<1>9. QED
  BY <1>1, <1>3, <1>4, <1>5, <1>6, <1>7, <1>8

\* After its connected callback a new socket is not referred to from anywhere.
Connected(r, st, p) ==
    /\ Good(r, {p}) /\ Lives(r, p) /\ FlagsOf(r, p) = {}
    /\ r.cons = st.cons /\ r.relay = st.relay /\ r.armed[p] = {} /\ p \notin r.cons
    /\ \A k \in 1 .. Len(r.relay) : r.relay[k].place # p

LEMMA ConnectedGood ==
    ASSUME NEW st, Good(st, {}), NEW p \in Places, ~Lives(st, p),
           NEW n \in 0 .. MaxSessions, UsedUpTo(st, n), n + 1 <= MaxSessions
    PROVE  Connected(Called(Fresh(st, p, n), p, "connected"), st, p)
<1> DEFINE a == Fresh(st, p, n)
<1> DEFINE r == Called(a, p, "connected")
<1>1. st \in ServerState
  BY DEF Good
<1>2. /\ a \in ServerState /\ n + 1 \in Ids
      /\ a.cons = st.cons /\ a.armed = st.armed /\ a.relay = st.relay
      /\ a.freed = st.freed /\ a.undefined = st.undefined /\ a.sess = st.sess
      /\ a.heap[p].id = n + 1 /\ a.heap[p].flags = {}
      /\ \A q \in Places \ {p} : a.heap[q] = st.heap[q]
      /\ p \notin st.cons /\ st.armed[p] = {}
      /\ \A k \in 1 .. Len(st.relay) : st.relay[k].place # p
      /\ \A q \in Places : st.heap[q].id # n + 1
      /\ ~st.sess[n + 1].connected /\ ~st.sess[n + 1].ended /\ ~st.sess[n + 1].late
      /\ st.freed[n + 1] = "no"
  BY FreshFields
<1> HIDE DEF a
<1> DEFINE i == n + 1
<1>3. /\ r \in ServerState
      /\ r.heap = a.heap /\ r.cons = st.cons /\ r.armed = st.armed /\ r.relay = st.relay
      /\ r.freed = st.freed /\ r.undefined = st.undefined
      /\ \A j \in Ids \ {i} : r.sess[j] = st.sess[j]
      /\ r.sess[i].connected /\ ~r.sess[i].ended /\ ~r.sess[i].late
  <2>1. a.heap[p].id = i
    BY <1>2
  <2>2. /\ r \in ServerState
        /\ r.heap = a.heap /\ r.cons = a.cons /\ r.armed = a.armed /\ r.relay = a.relay
        /\ r.freed = a.freed /\ r.undefined = a.undefined
        /\ \A j \in Ids \ {i} : r.sess[j] = a.sess[j]
        /\ r.sess[i].connected = (a.sess[i].connected \/ "connected" = "connected")
        /\ r.sess[i].ended = (a.sess[i].ended \/ "connected" = "disconnected")
        /\ r.sess[i].late = (a.sess[i].late \/ a.sess[i].ended)
    BY <1>2, <2>1, CalledFields
  <2> HIDE DEF r
  <2>3. QED
    BY <1>2, <2>2
<1>4. i # 0 /\ i \in Ids /\ a.heap[p].id = i
  BY <1>2, DirectAssumption DEF Ids
<1> HIDE DEF r
<1>5. HeapOK(r)
  <2>1. HeapOK(st) /\ \A q \in Places : Lives(st, q) => st.heap[q].id \in Ids \ {i}
    BY <1>1, <1>2, IdOf DEF Good
  <2>2. ASSUME NEW q \in Places, Lives(r, q), q # p
        PROVE  /\ r.heap[q] = st.heap[q] /\ Lives(st, q) /\ r.heap[q].id # i
               /\ r.sess[r.heap[q].id].connected /\ r.freed[r.heap[q].id] = "no"
    <3>1. r.heap[q] = st.heap[q] /\ Lives(st, q)
      BY <1>2, <1>3, <2>2 DEF Lives
    <3> DEFINE j == st.heap[q].id
    <3>2. j \in Ids \ {i} /\ st.sess[j].connected /\ st.freed[j] = "no"
      BY <2>1, <3>1 DEF HeapOK
    <3> HIDE DEF j
    <3>3. r.sess[j].connected /\ r.freed[j] = "no" /\ j # i
      BY <1>3, <3>2
    <3>4. QED
      BY <3>1, <3>3, Zenon DEF j
  <2>3. r.heap[p].id = i
    BY <1>3, <1>4
  <2>4. r.sess[r.heap[p].id].connected /\ r.freed[r.heap[p].id] = "no"
    BY <1>2, <1>3, <2>3
  <2>5. \A q, s \in Places : Lives(r, q) /\ r.heap[q].id = r.heap[s].id => q = s
    <3>1. SUFFICES ASSUME NEW q \in Places, NEW s \in Places, Lives(r, q), r.heap[q].id = r.heap[s].id
                   PROVE  q = s
      OBVIOUS
    <3>2. Lives(r, s)
      BY <3>1 DEF Lives
    <3>3. QED
      BY <2>1, <2>2, <2>3, <3>1, <3>2 DEF HeapOK
  <2>6. QED
    BY <2>2, <2>4, <2>5 DEF HeapOK
<1>6. ConsOK(r, {p})
  <2>1. st.cons \subseteq Places /\ ConsOK(st, {})
    BY <1>1 DEF ServerState, Good
  <2>2. QED
    BY <1>2, <1>3, <2>1 DEF ConsOK, Lives, FlagsOf
<1>7. RelayOK(r) /\ \A k \in 1 .. Len(r.relay) : r.relay[k].place # p
  <2>1. ASSUME NEW k \in 1 .. Len(st.relay)
        PROVE  /\ st.relay[k].place \in Places \ {p} /\ st.heap[st.relay[k].place].id # 0
               /\ st.relay[k].place \notin st.cons
    BY <1>1, <1>2, <2>1, RelayPlaces DEF Good, RelayOK, Lives
  <2>2. ASSUME NEW q \in Places \ {p}, st.heap[q].id # 0
        PROVE  Lives(r, q)
    BY <1>2, <1>3, <2>2 DEF Lives
  <2>3. r.relay = st.relay /\ r.cons = st.cons
    BY <1>3
  <2>4. QED
    BY <2>1, <2>2, <2>3 DEF RelayOK
<1>8. SessOK(r)
  <2>1. SessOK(st)
    BY DEF Good
  <2>2. ASSUME NEW j \in Ids
        PROVE  /\ r.freed[j] # "open" /\ ~r.sess[j].late
               /\ r.sess[j].connected => (r.sess[j].ended <=> r.freed[j] = "closed")
               /\ ~r.sess[j].connected => ~r.sess[j].ended
    <3>1. CASE j = i
      BY <1>2, <1>3, <3>1
    <3>2. CASE j # i
      <4>1. r.sess[j] = st.sess[j] /\ r.freed[j] = st.freed[j]
        BY <1>3, <3>2
      <4>2. QED
        BY <2>1, <4>1 DEF SessOK
    <3>3. QED
      BY <3>1, <3>2
  <2>3. QED
    BY <2>2 DEF SessOK
<1>9. NumbersOK(r)
  <2>1. ASSUME NEW j \in Ids
        PROVE  (r.sess[j].connected \/ r.freed[j] # "no") <=> j <= i
    <3>1. CASE j = i
      BY <1>3, <1>4, <3>1 DEF Ids
    <3>2. CASE j # i
      <4>1. r.sess[j] = st.sess[j] /\ r.freed[j] = st.freed[j]
        BY <1>3, <3>2
      <4>2. j <= n <=> j <= i
        BY <3>2 DEF Ids
      <4>3. QED
        BY <4>1, <4>2 DEF UsedUpTo
    <3>3. QED
      BY <3>1, <3>2
  <2>2. i \in 0 .. MaxSessions
    OBVIOUS
  <2>3. UsedUpTo(r, i)
    BY <2>1 DEF UsedUpTo
  <2>4. QED
    BY <2>2, <2>3 DEF NumbersOK
<1>10. Good(r, {p})
  BY <1>3, <1>5, <1>6, <1>7, <1>8, <1>9 DEF Good
<1>11. Lives(r, p) /\ FlagsOf(r, p) = {} /\ r.armed[p] = {} /\ p \notin r.cons
  BY <1>2, <1>3, <1>4 DEF Lives, FlagsOf
<1>12. QED
  <2>1. Connected(r, st, p)
    BY <1>3, <1>7, <1>10, <1>11 DEF Connected
  <2>2. QED
    BY <2>1 DEF r, a

\* set_nonblocking fails: the socket is closed and freed without a callback.
LEMMA RefusedGood ==
    ASSUME NEW st, Good(st, {}), NEW p \in Places, ~Lives(st, p),
           NEW n \in 0 .. MaxSessions, UsedUpTo(st, n), n + 1 <= MaxSessions
    PROVE  LET r == SockFree(WithFlags(Fresh(st, p, n), p, {"CLOSED"}), p)
           IN  Good(r, {}) /\ r.cons = st.cons
<1> DEFINE a == Fresh(st, p, n)
<1> DEFINE c == {"CLOSED"}
<1> DEFINE b == WithFlags(a, p, c)
<1> DEFINE r == SockFree(b, p)
<1> DEFINE i == n + 1
<1>1. st \in ServerState
  BY DEF Good
<1>2. /\ a \in ServerState /\ n + 1 \in Ids
      /\ a.cons = st.cons /\ a.armed = st.armed /\ a.relay = st.relay
      /\ a.freed = st.freed /\ a.undefined = st.undefined /\ a.sess = st.sess
      /\ a.heap[p].id = n + 1 /\ a.heap[p].flags = {}
      /\ \A q \in Places \ {p} : a.heap[q] = st.heap[q]
      /\ p \notin st.cons /\ st.armed[p] = {}
      /\ \A k \in 1 .. Len(st.relay) : st.relay[k].place # p
      /\ \A q \in Places : st.heap[q].id # n + 1
      /\ ~st.sess[n + 1].connected /\ ~st.sess[n + 1].ended /\ ~st.sess[n + 1].late
      /\ st.freed[n + 1] = "no"
  BY FreshFields
<1> HIDE DEF a
<1>3. c \in SUBSET SockFlags /\ "CLOSED" \in c
  BY DEF SockFlags
<1> HIDE DEF c
<1>4. /\ b \in ServerState
      /\ b.cons = a.cons /\ b.armed = a.armed /\ b.relay = a.relay
      /\ b.freed = a.freed /\ b.undefined = a.undefined /\ b.sess = a.sess
      /\ \A q \in Places : b.heap[q].id = a.heap[q].id
      /\ \A q \in Places \ {p} : b.heap[q] = a.heap[q]
      /\ b.heap[p].flags = a.heap[p].flags \cup c
  BY <1>2, <1>3, WithFlagsFields
<1> HIDE DEF b
<1>5. /\ r \in ServerState
      /\ r.cons = st.cons /\ r.armed = st.armed /\ r.relay = st.relay
      /\ r.undefined = st.undefined /\ r.sess = st.sess
      /\ \A q \in Places \ {p} : r.heap[q] = st.heap[q]
      /\ r.heap[p].id = 0
      /\ \A j \in Ids \ {i} : r.freed[j] = st.freed[j]
      /\ r.freed[i] = "closed"
  <2>1. b.heap[p].id = i /\ i \in Ids /\ "CLOSED" \in b.heap[p].flags
    BY <1>2, <1>3, <1>4
  <2>2. /\ r \in ServerState
        /\ r.cons = b.cons /\ r.armed = b.armed /\ r.relay = b.relay
        /\ r.undefined = b.undefined /\ r.sess = b.sess
        /\ \A q \in Places \ {p} : r.heap[q] = b.heap[q]
        /\ r.heap[p].id = 0
        /\ \A j \in Ids \ {i} : r.freed[j] = b.freed[j]
        /\ r.freed[i] = "closed"
    BY <1>4, <2>1, SockFreeFields
  <2> HIDE DEF r
  <2>3. QED
    BY <1>2, <1>4, <2>2
<1> HIDE DEF r
<1>6. HeapOK(r)
  <2>1. HeapOK(st) /\ \A q \in Places : Lives(st, q) => st.heap[q].id \in Ids \ {i}
    BY <1>1, <1>2, IdOf DEF Good
  <2>2. ASSUME NEW q \in Places, Lives(r, q)
        PROVE  /\ q # p /\ r.heap[q] = st.heap[q] /\ Lives(st, q)
               /\ r.sess[r.heap[q].id].connected /\ r.freed[r.heap[q].id] = "no"
    <3>1. q # p
      BY <1>5, <2>2 DEF Lives
    <3>2. r.heap[q] = st.heap[q] /\ Lives(st, q)
      BY <1>5, <2>2, <3>1 DEF Lives
    <3> DEFINE j == st.heap[q].id
    <3>3. j \in Ids \ {i} /\ st.sess[j].connected /\ st.freed[j] = "no"
      BY <2>1, <3>2 DEF HeapOK
    <3> HIDE DEF j
    <3>4. r.sess[j].connected /\ r.freed[j] = "no"
      BY <1>5, <3>3
    <3>5. QED
      BY <3>1, <3>2, <3>4, Zenon DEF j
  <2>3. \A q, s \in Places : Lives(r, q) /\ r.heap[q].id = r.heap[s].id => q = s
    BY <2>1, <2>2 DEF HeapOK, Lives
  <2>4. QED
    BY <2>2, <2>3 DEF HeapOK
<1>7. ConsOK(r, {})
  <2>1. st.cons \subseteq Places /\ ConsOK(st, {})
    BY <1>1 DEF ServerState, Good
  <2>2. QED
    BY <1>2, <1>5, <2>1 DEF ConsOK, Lives, FlagsOf
<1>8. RelayOK(r)
  <2>1. ASSUME NEW k \in 1 .. Len(st.relay)
        PROVE  /\ st.relay[k].place \in Places \ {p} /\ st.heap[st.relay[k].place].id # 0
               /\ st.relay[k].place \notin st.cons
    BY <1>1, <1>2, <2>1, RelayPlaces DEF Good, RelayOK, Lives
  <2>2. ASSUME NEW q \in Places \ {p}, st.heap[q].id # 0
        PROVE  Lives(r, q)
    BY <1>5, <2>2 DEF Lives
  <2>3. r.relay = st.relay /\ r.cons = st.cons
    BY <1>5
  <2>4. QED
    BY <2>1, <2>2, <2>3 DEF RelayOK
<1>9. SessOK(r)
  <2>1. SessOK(st)
    BY DEF Good
  <2>2. ASSUME NEW j \in Ids
        PROVE  /\ r.freed[j] # "open" /\ ~r.sess[j].late
               /\ r.sess[j].connected => (r.sess[j].ended <=> r.freed[j] = "closed")
               /\ ~r.sess[j].connected => ~r.sess[j].ended
    <3>1. CASE j = i
      BY <1>2, <1>5, <3>1
    <3>2. CASE j # i
      <4>1. r.sess[j] = st.sess[j] /\ r.freed[j] = st.freed[j]
        BY <1>5, <3>2
      <4>2. QED
        BY <2>1, <4>1 DEF SessOK
    <3>3. QED
      BY <3>1, <3>2
  <2>3. QED
    BY <2>2 DEF SessOK
<1>10. NumbersOK(r)
  <2>1. ASSUME NEW j \in Ids
        PROVE  (r.sess[j].connected \/ r.freed[j] # "no") <=> j <= i
    <3>1. CASE j = i
      BY <1>5, <3>1 DEF Ids
    <3>2. CASE j # i
      <4>1. r.sess[j] = st.sess[j] /\ r.freed[j] = st.freed[j]
        BY <1>5, <3>2
      <4>2. j <= n <=> j <= i
        BY <3>2 DEF Ids
      <4>3. QED
        BY <4>1, <4>2 DEF UsedUpTo
    <3>3. QED
      BY <3>1, <3>2
  <2>2. i \in 0 .. MaxSessions
    OBVIOUS
  <2>3. UsedUpTo(r, i)
    BY <2>1 DEF UsedUpTo
  <2>4. QED
    BY <2>2, <2>3 DEF NumbersOK
<1>11. Good(r, {})
  BY <1>5, <1>6, <1>7, <1>8, <1>9, <1>10 DEF Good
<1>12. QED
  BY <1>5, <1>11 DEF r, a, b, c

-----------------------------------------------------------------------------
(* The steps.                                                              *)

LEMMA GoodBeside ==
    ASSUME NEW st, Good(st, {}), NEW p
    PROVE  Good(st, {p})
  BY DEF Good, ConsOK

\* One event of the batch is done; its socket may have left cons.
LEMMA BatchRest ==
    ASSUME NEW b, NEW cons, NEW rest, BatchOK(b, cons), b # <<>>, cons \ {Head(b).place} \subseteq rest
    PROVE  BatchOK(Tail(b), rest) /\ Head(b) \in Events /\ (Head(b).place # "server" => Head(b).place \in cons)
<1>1. b \in Seq(Events) /\ Len(b) \in Nat /\ Len(b) >= 1
  BY EmptySeq, LenProperties DEF BatchOK
<1>2. /\ Tail(b) \in Seq(Events) /\ Len(Tail(b)) = Len(b) - 1
      /\ \A k \in 1 .. Len(Tail(b)) : Tail(b)[k] = b[k + 1]
      /\ Head(b) = b[1] /\ Head(b) \in Events
  BY <1>1, HeadTailProperties, ElementOfSeq
<1>3. ASSUME NEW k \in 1 .. Len(Tail(b))
      PROVE  /\ Tail(b)[k].place # "server" => Tail(b)[k].place \in rest
             /\ \A l \in 1 .. Len(Tail(b)) :
                  Tail(b)[k].place = Tail(b)[l].place /\ Tail(b)[k].place # "server" => k = l
  <2>1. k + 1 \in 1 .. Len(b) /\ 1 \in 1 .. Len(b) /\ k + 1 # 1
    BY <1>1, <1>2
  <2>2. b[k + 1].place # "server" => b[k + 1].place \in cons /\ b[k + 1].place # b[1].place
    BY <2>1 DEF BatchOK
  <2>3. \A l \in 1 .. Len(Tail(b)) : l + 1 \in 1 .. Len(b) /\ (k + 1 = l + 1 => k = l)
    BY <1>1, <1>2
  <2>4. QED
    BY <1>2, <2>1, <2>2, <2>3 DEF BatchOK
<1>4. 1 \in 1 .. Len(b)
  BY <1>1
<1>5. QED
  BY <1>2, <1>3, <1>4 DEF BatchOK

LEMMA PolledEvents ==
    ASSUME Good(S, {}), NEW p \in Watched, NEW e \in EventsAt(p)
    PROVE  e \in Events /\ e.place = p /\ p \in S.cons
<1>1. p \in Places /\ S.armed[p] # {} /\ S.armed[p] \in SUBSET {"READ", "WRITE"} /\ S.heap[p].id \in 0 .. MaxSessions
  BY IdOf DEF Watched, Good, ServerState
<1>2. p \in S.cons
  BY <1>1 DEF Good, ConsOK
<1>3. e.place = p /\ e.id = S.heap[p].id /\ e.what \in ((SUBSET S.armed[p]) \ {{}}) \cup {{"HANGUP"}, {"ERROR"}}
      /\ e = [place |-> e.place, id |-> e.id, what |-> e.what]
  BY DEF EventsAt
<1>4. e.what \in {{"READ"}, {"WRITE"}, {"READ", "WRITE"}, {"HANGUP"}, {"ERROR"}}
  <2>1. CASE e.what \in (SUBSET S.armed[p]) \ {{}}
    <3> DEFINE w == e.what
    <3> DEFINE d == S.armed[p]
    <3>1. w # {} /\ \A x \in w : x \in {"READ", "WRITE"}
      <4>1. w \in (SUBSET d) \ {{}} /\ d \in SUBSET {"READ", "WRITE"}
        BY <1>1, <2>1
      <4> HIDE DEF w, d
      <4>2. QED
        BY <4>1
    <3>2. CASE "READ" \in e.what /\ "WRITE" \in e.what
      <4>1. e.what = {"READ", "WRITE"}
        BY <3>1, <3>2
      <4>2. QED
        BY <4>1
    <3>3. CASE "READ" \in e.what /\ "WRITE" \notin e.what
      <4>1. e.what = {"READ"}
        BY <3>1, <3>3
      <4>2. QED
        BY <4>1
    <3>4. CASE "READ" \notin e.what
      <4>1. e.what = {"WRITE"}
        BY <3>1, <3>4
      <4>2. QED
        BY <4>1
    <3>5. QED
      BY <3>2, <3>3, <3>4
  <2>2. CASE e.what \in {{"HANGUP"}, {"ERROR"}}
    BY <2>2
  <2>3. QED
    BY <1>3, <2>1, <2>2
<1>5. QED
  BY <1>1, <1>2, <1>3, <1>4 DEF Events

LEMMA ServerEventOK == ServerEvent \in Events /\ ServerEvent.place = "server"
  BY DirectAssumption DEF ServerEvent, Events

LEMMA SingleBatch ==
    ASSUME NEW e \in Events, NEW cons, e.place # "server" => e.place \in cons
    PROVE  BatchOK(<<e>>, cons)
<1>1. <<e>> \in Seq(Events) /\ Len(<<e>>) = 1 /\ <<e>>[1] = e
  OBVIOUS
<1>2. QED
  BY <1>1 DEF BatchOK

LEMMA PairBatch ==
    ASSUME NEW e \in Events, NEW f \in Events, NEW cons, e.place = f.place => e.place = "server",
           e.place # "server" => e.place \in cons, f.place # "server" => f.place \in cons
    PROVE  BatchOK(<<e, f>>, cons)
<1>1. <<e, f>> \in Seq(Events) /\ Len(<<e, f>>) = 2 /\ <<e, f>>[1] = e /\ <<e, f>>[2] = f
  OBVIOUS
<1> DEFINE b == <<e, f>>
<1> HIDE DEF b
<1>2. b \in Seq(Events) /\ Len(b) = 2 /\ b[1] = e /\ b[2] = f
  BY <1>1 DEF b
<1>3. \A k \in 1 .. 2 : k = 1 \/ k = 2
  OBVIOUS
<1>4. BatchOK(b, cons)
  BY <1>2, <1>3 DEF BatchOK
<1>5. QED
  BY <1>4 DEF b

LEMMA PolledBatch ==
    ASSUME Good(S, {}), NEW b \in Batches
    PROVE  BatchOK(b, S.cons)
<1> DEFINE events == UNION {EventsAt(p) : p \in Watched}
<1>1. \A e \in events : e \in Events /\ e.place \in S.cons
  <2>1. SUFFICES ASSUME NEW e \in events
                 PROVE  e \in Events /\ e.place \in S.cons
    OBVIOUS
  <2>2. PICK p \in Watched : e \in EventsAt(p)
    OBVIOUS
  <2>3. QED
    BY <2>2, PolledEvents
<1>2. \/ b = <<>> \/ b = <<ServerEvent>>
      \/ \E e \in events : b = <<e>>
      \/ \E e \in events : b = <<e, ServerEvent>>
      \/ \E x \in {y \in events \X events : y[1].place # y[2].place} : b = <<x[1], x[2]>>
  BY Zenon DEF Batches
<1> HIDE DEF events
<1>3. CASE b = <<>>
  BY <1>3 DEF BatchOK
<1>4. CASE b = <<ServerEvent>>
  BY <1>4, ServerEventOK, SingleBatch
<1>5. CASE \E e \in events : b = <<e>>
  BY <1>1, <1>5, SingleBatch
<1>6. CASE \E e \in events : b = <<e, ServerEvent>>
  <2>1. PICK e \in events : b = <<e, ServerEvent>>
    BY <1>6
  <2>2. e \in Events /\ e.place \in S.cons
    BY <1>1
  <2>3. e.place = ServerEvent.place => e.place = "server"
    BY ServerEventOK
  <2>4. BatchOK(<<e, ServerEvent>>, S.cons)
    BY <2>2, <2>3, ServerEventOK, PairBatch
  <2>5. QED
    BY <2>1, <2>4
<1>7. CASE \E x \in {y \in events \X events : y[1].place # y[2].place} : b = <<x[1], x[2]>>
  <2>1. PICK x \in {y \in events \X events : y[1].place # y[2].place} : b = <<x[1], x[2]>>
    BY <1>7
  <2>2. x[1] \in events /\ x[2] \in events /\ x[1].place # x[2].place
    OBVIOUS
  <2>3. BatchOK(<<x[1], x[2]>>, S.cons)
    BY <1>1, <2>2, PairBatch
  <2>4. QED
    BY <2>1, <2>3
<1>8. QED
  BY <1>2, <1>3, <1>4, <1>5, <1>6, <1>7

LEMMA PollInv ==
    ASSUME DirectInv, NEW b \in Batches, Poll(b)
    PROVE  DirectInv'
<1>1. SUFFICES ASSUME Orderly' PROVE Good(S, {})' /\ BatchOK(batch, S.cons)' /\ StageOK'
  BY DEF DirectInv, Poll
<1>2. Good(S, {}) /\ stage = "listen" /\ S \in ServerState
  BY <1>1 DEF DirectInv, Orderly, Poll, Good
<1> DEFINE aa == [p \in Places |-> IF \E i \in DOMAIN b : b[i].place = p THEN {} ELSE S.armed[p]]
<1>3. S' = [S EXCEPT !.armed = aa]
  BY DEF Poll
<1>4. aa \in [Places -> SUBSET {"READ", "WRITE"}] /\ \A p \in Places : aa[p] # {} => S.armed[p] # {}
  BY <1>2 DEF ServerState
<1> HIDE DEF aa
<1>5. /\ S' \in ServerState
      /\ S'.cons = S.cons /\ S'.armed = aa /\ S'.relay = S.relay /\ S'.heap = S.heap
      /\ S'.freed = S.freed /\ S'.undefined = S.undefined /\ S'.sess = S.sess
  BY <1>2, <1>3, <1>4 DEF ServerState
<1> DEFINE r == S'
<1> HIDE DEF r
<1>6. Good(r, {})
  <2>1. /\ r \in ServerState
        /\ r.cons = S.cons /\ r.armed = aa /\ r.relay = S.relay /\ r.heap = S.heap
        /\ r.freed = S.freed /\ r.undefined = S.undefined /\ r.sess = S.sess
    BY <1>5 DEF r
  <2>2. HeapOK(r) /\ SessOK(r) /\ NumbersOK(r) /\ RelayOK(r)
    BY <1>2, <2>1 DEF Good, HeapOK, SessOK, NumbersOK, UsedUpTo, RelayOK, Lives
  <2>3. ConsOK(r, {})
    BY <1>2, <1>4, <2>1 DEF Good, ConsOK, Lives, FlagsOf
  <2>4. QED
    BY <1>2, <2>1, <2>2, <2>3 DEF Good
<1>7. Good(S, {})'
  BY <1>6 DEF r
<1>8. BatchOK(b, S.cons)
  BY <1>2, PolledBatch
<1>9. batch' = b /\ stage' = "relay"
  BY DEF Poll
<1>10. BatchOK(batch, S.cons)'
  BY <1>5, <1>8, <1>9
<1>11. QED
  BY <1>7, <1>9, <1>10 DEF StageOK

LEMMA RelayInv ==
    ASSUME DirectInv, HandleRelay
    PROVE  DirectInv'
<1>1. SUFFICES ASSUME Orderly' PROVE Good(S, {})' /\ BatchOK(batch, S.cons)' /\ StageOK'
  BY DEF DirectInv, HandleRelay
<1>2. /\ Good(S, {}) /\ BatchOK(batch, S.cons) /\ StageOK /\ S \in ServerState
      /\ stage = "relay" /\ S.relay # <<>>
      /\ batch' = batch /\ stage' = stage
  BY <1>1 DEF DirectInv, Orderly, HandleRelay, Good
<1> DEFINE R == [type : {"error", "closed"}, place : Places, id : 0 .. MaxSessions]
<1> DEFINE e == Head(S.relay)
<1> DEFINE tl == Tail(S.relay)
<1> DEFINE a == [S EXCEPT !.relay = tl]
<1> DEFINE p == e.place
<1>3. S' = IF e.type = "closed" THEN SockClosed(a, p) ELSE SockError(a, p)
  BY DEF HandleRelay
<1>4. S.relay \in Seq(R)
  BY <1>2, RelayPlaces
<1>5. p \in Places
  <2>1. \A x \in R : x.place \in Places
    OBVIOUS
  <2> HIDE DEF R
  <2>2. e \in R
    BY <1>2, <1>4, HeadTailProperties
  <2>3. QED
    BY <2>1, <2>2
<1> HIDE DEF R
<1>6. /\ tl \in Seq(R) /\ Len(tl) = Len(S.relay) - 1 /\ Len(S.relay) \in Nat /\ Len(S.relay) >= 1
      /\ \A k \in 1 .. Len(tl) : tl[k] = S.relay[k + 1]
      /\ e = S.relay[1]
  BY <1>2, <1>4, HeadTailProperties, LenProperties, EmptySeq
<1> HIDE DEF e, tl
<1>7. Lives(S, p) /\ p \notin S.cons /\ "CLOSED" \in FlagsOf(S, p)
  <2>1. 1 \in 1 .. Len(S.relay)
    BY <1>6
  <2>2. Lives(S, p) /\ p \notin S.cons
    BY <1>2, <1>6, <2>1 DEF Good, RelayOK
  <2>3. QED
    BY <1>2, <1>5, <2>2 DEF Good, ConsOK
<1> HIDE DEF p
<1>8. /\ a \in ServerState
      /\ a.cons = S.cons /\ a.armed = S.armed /\ a.relay = tl /\ a.heap = S.heap
      /\ a.freed = S.freed /\ a.undefined = S.undefined /\ a.sess = S.sess
  BY <1>2, <1>6 DEF ServerState, R
<1> HIDE DEF a
<1>9. Good(a, {}) /\ Lives(a, p) /\ p \notin a.cons /\ "CLOSED" \in FlagsOf(a, p)
  <2>1. HeapOK(a) /\ SessOK(a) /\ NumbersOK(a) /\ ConsOK(a, {})
    BY <1>2, <1>8 DEF Good, HeapOK, SessOK, NumbersOK, UsedUpTo, ConsOK, Lives, FlagsOf
  <2>2. RelayOK(a)
    <3>1. \A k \in 1 .. Len(tl) : k + 1 \in 1 .. Len(S.relay)
      BY <1>6
    <3>2. \A k \in 1 .. Len(tl) : Lives(S, tl[k].place) /\ tl[k].place \notin S.cons
      BY <1>2, <1>6, <3>1 DEF Good, RelayOK
    <3>3. QED
      BY <1>8, <3>2 DEF RelayOK, Lives
  <2>3. QED
    BY <1>2, <1>7, <1>8, <2>1, <2>2 DEF Good, Lives, FlagsOf
<1>10. Good(a, {p})
  BY <1>9, GoodBeside
<1>11. LET r == SockClosed(a, p) IN Good(r, {}) /\ r.cons = a.cons \ {p}
  BY <1>5, <1>9, <1>10, SockClosedGood
<1>12. LET r == SockError(a, p) IN Good(r, {}) /\ r.cons = a.cons \ {p}
  BY <1>5, <1>9, <1>10, SockErrorGood
<1>13. Good(S', {}) /\ S'.cons = S.cons
  BY <1>3, <1>8, <1>9, <1>11, <1>12
<1>14. QED
  BY <1>2, <1>13 DEF StageOK

LEMMA EventInv ==
    ASSUME DirectInv, NEW own \in Results, NEW other, NEW want \in SUBSET {"READ", "WRITE"},
           HandleEvent(own, other, want)
    PROVE  DirectInv'
<1>1. seen \in [other : Nat, both : BOOLEAN]
  BY DEF DirectInv
<1>2. seen' \in [other : Nat, both : BOOLEAN] /\ (Orderly' => Orderly /\ other = NoOther /\ Head(batch).what # {"READ", "WRITE"})
  <2> DEFINE s == Seen(other)
  <2>1. s \in [other : Nat, both : BOOLEAN] /\ s.both = seen.both /\ (s.other = 0 => seen.other = 0 /\ other = NoOther)
    BY <1>1 DEF Seen
  <2>2. seen' = IF Head(batch).what = {"READ", "WRITE"} THEN [s EXCEPT !.both = TRUE] ELSE s
    BY DEF HandleEvent
  <2> HIDE DEF s
  <2>3. QED
    BY <2>1, <2>2 DEF Orderly
<1>3. SUFFICES ASSUME Orderly' PROVE Good(S, {})' /\ BatchOK(batch, S.cons)' /\ StageOK'
  BY <1>2 DEF DirectInv
<1> DEFINE e == Head(batch)
<1> DEFINE p == e.place
<1>4. /\ Good(S, {}) /\ BatchOK(batch, S.cons) /\ StageOK /\ other = NoOther /\ e.what # {"READ", "WRITE"}
      /\ stage = "batch" /\ batch # <<>> /\ p # "server" /\ batch' = Tail(batch) /\ stage' = stage
  BY <1>2, <1>3 DEF DirectInv, HandleEvent
<1>5. e \in Events /\ p \in S.cons
  BY <1>4, BatchRest
<1>6. e.what \in {{"READ"}, {"WRITE"}, {"HANGUP"}, {"ERROR"}}
  BY <1>4, <1>5 DEF Events
<1>7. p \in Places /\ Lives(S, p)
  BY <1>4, <1>5 DEF Good, ConsOK, ServerState
<1>8. \/ S' = SockClosed(WithFlags(S, p, {"CLOSED"}), p)
      \/ S' = SockError(S, p)
      \/ S' = Served(S, p, own, NoOther, want)
  <2>1. S' = IF ~Lives(S, p) THEN Undefined(S)
             ELSE IF e.what = {"HANGUP"} THEN SockClosed(WithFlags(S, p, {"CLOSED"}), p)
             ELSE IF e.what = {"ERROR"} THEN SockError(S, p)
             ELSE IF e.what = {"WRITE"} THEN Served(S, p, own, other, want)
             ELSE IF "WRITE" \in e.what
                  THEN IF Lives(IF "READ" \in e.what THEN Served(S, p, own, other, want) ELSE S, p)
                       THEN Served(IF "READ" \in e.what THEN Served(S, p, own, other, want) ELSE S, p, {}, NoOther, want)
                       ELSE Undefined(IF "READ" \in e.what THEN Served(S, p, own, other, want) ELSE S)
                  ELSE IF "READ" \in e.what THEN Served(S, p, own, other, want) ELSE S
    BY DEF HandleEvent
  <2>2. CASE e.what = {"READ"}
    BY <1>4, <1>7, <2>1, <2>2
  <2>3. CASE e.what = {"WRITE"}
    BY <1>4, <1>7, <2>1, <2>3
  <2>4. CASE e.what = {"HANGUP"}
    BY <1>7, <2>1, <2>4
  <2>5. CASE e.what = {"ERROR"}
    BY <1>7, <2>1, <2>5
  <2>6. QED
    BY <1>6, <2>2, <2>3, <2>4, <2>5
<1> HIDE DEF p, e
<1>9. Good(S', {}) /\ S.cons \ {p} \subseteq S'.cons
  <2>1. Good(S, {p})
    BY <1>4, GoodBeside
  <2>2. CASE S' = SockClosed(WithFlags(S, p, {"CLOSED"}), p)
    <3> DEFINE c == {"CLOSED"}
    <3> DEFINE b == WithFlags(S, p, c)
    <3>1. c \in SUBSET SockFlags /\ "CLOSED" \in c
      BY DEF SockFlags
    <3> HIDE DEF c
    <3>2. Good(b, {p}) /\ Lives(b, p) /\ b.cons = S.cons /\ FlagsOf(b, p) = FlagsOf(S, p) \cup c
      BY <1>7, <2>1, <3>1, WithFlagsGood
    <3> HIDE DEF b
    <3>3. "CLOSED" \in FlagsOf(b, p)
      BY <3>1, <3>2
    <3>4. LET r == SockClosed(b, p) IN Good(r, {}) /\ r.cons = b.cons \ {p}
      BY <1>7, <3>2, <3>3, SockClosedGood
    <3>5. QED
      BY <2>2, <3>2, <3>4 DEF b, c
  <2>3. CASE S' = SockError(S, p)
    BY <1>7, <2>1, <2>3, SockErrorGood
  <2>4. CASE S' = Served(S, p, own, NoOther, want)
    BY <1>4, <1>5, <1>7, <2>4, ServedGood DEF Beside
  <2>5. QED
    BY <1>8, <2>2, <2>3, <2>4
<1>10. BatchOK(Tail(batch), S'.cons)
  BY <1>4, <1>9, BatchRest DEF p, e
<1>11. QED
  BY <1>4, <1>9, <1>10 DEF StageOK

\* A new socket that goes into cons and is watched for reading.
LEMMA ArmedGood ==
    ASSUME NEW st, NEW p \in Places, Good(st, {p}), Lives(st, p), FlagsOf(st, p) = {},
           \A k \in 1 .. Len(st.relay) : st.relay[k].place # p
    PROVE  LET r == Arm(st, p, st.cons \cup {p}, {"READ"}) IN Good(r, {}) /\ r.cons = st.cons \cup {p}
<1> DEFINE c == st.cons \cup {p}
<1> DEFINE w == {"READ"}
<1> DEFINE r == Arm(st, p, c, w)
<1>1. st \in ServerState
  BY DEF Good
<1>2. c \in SUBSET Places /\ w \in SUBSET {"READ", "WRITE"}
  BY <1>1 DEF ServerState
<1> HIDE DEF c, w
<1>3. /\ r \in ServerState
      /\ r.heap = st.heap /\ r.cons = c /\ r.relay = st.relay
      /\ r.freed = st.freed /\ r.undefined = st.undefined /\ r.sess = st.sess
      /\ r.armed[p] = w /\ \A q \in Places \ {p} : r.armed[q] = st.armed[q]
  BY <1>1, <1>2, ArmedFields
<1> HIDE DEF r
<1>4. HeapOK(r) /\ SessOK(r) /\ NumbersOK(r)
  BY <1>3 DEF Good, HeapOK, SessOK, NumbersOK, UsedUpTo, Lives
<1>5. ConsOK(r, {})
  <2>1. ConsOK(st, {p})
    BY DEF Good
  <2>2. QED
    BY <1>3, <2>1 DEF ConsOK, Lives, FlagsOf, c
<1>6. RelayOK(r)
  BY <1>3 DEF Good, RelayOK, Lives, c
<1>7. Good(r, {})
  BY <1>3, <1>4, <1>5, <1>6 DEF Good
<1>8. QED
  BY <1>3, <1>7 DEF r, c, w

LEMMA AcceptedIs ==
    ASSUME Good(S, {})
    PROVE  Accepted \in 0 .. MaxSessions /\ UsedUpTo(S, Accepted)
<1>1. PICK n \in 0 .. MaxSessions : UsedUpTo(S, n)
  BY DEF Good, NumbersOK
<1>2. {i \in Ids : S.sess[i].connected \/ S.freed[i] # "no"} = 1 .. n
  BY <1>1, DirectAssumption DEF UsedUpTo, Ids
<1>3. Cardinality(1 .. n) = n
  BY <1>1, DirectAssumption, FS_Interval
<1>4. Accepted = n
  BY <1>2, <1>3 DEF Accepted
<1>5. QED
  BY <1>1, <1>4

LEMMA BatchGrows ==
    ASSUME NEW b, NEW cons, NEW more, BatchOK(b, cons), cons \subseteq more
    PROVE  BatchOK(b, more)
  BY DEF BatchOK

LEMMA AcceptInv ==
    ASSUME DirectInv, NEW p \in Places, NEW own \in Results, NEW report \in BOOLEAN,
           NEW step \in {"nonblocking", "listener", "ok"}, AcceptOne(p, own, report, step)
    PROVE  DirectInv'
<1>1. SUFFICES ASSUME Orderly' PROVE Good(S, {})' /\ BatchOK(batch, S.cons)' /\ StageOK'
  BY DEF DirectInv, AcceptOne
<1>2. /\ Good(S, {}) /\ BatchOK(batch, S.cons) /\ StageOK
      /\ batch' = batch /\ stage' = stage /\ stage = "accept" /\ ~Lives(S, p)
  BY <1>1 DEF DirectInv, Orderly, AcceptOne
<1> DEFINE n == Accepted
<1>3. n \in 0 .. MaxSessions /\ UsedUpTo(S, n) /\ n + 1 <= MaxSessions
  BY <1>2, AcceptedIs DEF AcceptOne
<1> DEFINE a == Fresh(S, p, n)
<1> DEFINE c == Called(a, p, "connected")
<1> DEFINE d == WithFlags(c, p, own)
<1> DEFINE after == IF report THEN Report(d, p) ELSE d
<1>4. /\ step = "nonblocking" => S' = SockFree(WithFlags(a, p, {"CLOSED"}), p)
      /\ step = "listener" => S' = SockFree(Called(WithFlags(d, p, {"CLOSED"}), p, "disconnected"), p)
      /\ step = "ok" /\ own # {} => S' = SockCheck(after, p, FALSE, {})
      /\ step = "ok" /\ own = {} => S' = [after EXCEPT !.cons = @ \cup {p}, !.armed[p] = {"READ"}]
  BY DEF AcceptOne, Fresh
<1> HIDE DEF n
<1>5. LET r == SockFree(WithFlags(a, p, {"CLOSED"}), p) IN Good(r, {}) /\ r.cons = S.cons
  BY <1>2, <1>3, RefusedGood
<1>6. /\ Good(c, {p}) /\ Lives(c, p) /\ FlagsOf(c, p) = {}
      /\ c.cons = S.cons /\ c.relay = S.relay /\ c.armed[p] = {} /\ p \notin c.cons
      /\ \A k \in 1 .. Len(c.relay) : c.relay[k].place # p
  <2>1. Connected(c, S, p)
    BY <1>2, <1>3, ConnectedGood
  <2> HIDE DEF c
  <2>2. QED
    BY <2>1 DEF Connected
<1> HIDE DEF c
<1>7. own \in SUBSET SockFlags
  BY DEF Results, SockFlags
<1>8. /\ Good(d, {p}) /\ Lives(d, p) /\ FlagsOf(d, p) = own /\ d.cons = S.cons
      /\ d.armed[p] = {} /\ p \notin d.cons
      /\ \A k \in 1 .. Len(d.relay) : d.relay[k].place # p
  <2>1. /\ Good(d, {p}) /\ Beside(d, c, p) /\ Lives(d, p) /\ d.cons = c.cons
        /\ FlagsOf(d, p) = FlagsOf(c, p) \cup own
    BY <1>6, <1>7, WithFlagsGood, ZenonT(60)
  <2>2. d.armed = c.armed
    BY <1>6, <1>7, WithFlagsFields DEF Good
  <2> HIDE DEF d
  <2>3. QED
    BY <1>6, <2>1, <2>2 DEF Beside
<1> HIDE DEF d, a
<1>9. Good(S', {}) /\ S.cons \subseteq S'.cons
  <2>1. CASE step = "nonblocking"
    BY <1>4, <1>5, <2>1
  <2>2. CASE step = "listener"
    <3> DEFINE f == {"CLOSED"}
    <3> DEFINE g == WithFlags(d, p, f)
    <3>1. f \in SUBSET SockFlags /\ "CLOSED" \in f
      BY DEF SockFlags
    <3> HIDE DEF f
    <3>2. /\ Good(g, {p}) /\ Beside(g, d, p) /\ Lives(g, p) /\ g.cons = d.cons
          /\ FlagsOf(g, p) = FlagsOf(d, p) \cup f
      BY <1>8, <3>1, WithFlagsGood, ZenonT(60)
    <3>3. g.armed = d.armed
      BY <1>8, <3>1, WithFlagsFields DEF Good
    <3> HIDE DEF g
    <3>4. /\ "CLOSED" \in FlagsOf(g, p) /\ p \notin g.cons /\ g.armed[p] = {}
          /\ \A k \in 1 .. Len(g.relay) : g.relay[k].place # p
      BY <1>8, <3>1, <3>2, <3>3 DEF Beside
    <3>5. LET r == SockFree(Called(g, p, "disconnected"), p) IN Good(r, {}) /\ r.cons = g.cons
      BY <3>2, <3>4, EndGood
    <3>6. S' = SockFree(Called(g, p, "disconnected"), p)
      BY <1>4, <2>2 DEF g, f
    <3>7. QED
      BY <1>8, <3>2, <3>5, <3>6
  <2>3. CASE step = "ok" /\ own # {}
    <3>1. /\ Good(after, {p}) /\ after.cons = S.cons /\ Lives(after, p)
          /\ own \subseteq FlagsOf(after, p)
      <4>1. LET r == Report(d, p)
            IN  Good(r, {p}) /\ r.cons = d.cons /\ Lives(r, p) /\ FlagsOf(d, p) \subseteq FlagsOf(r, p)
        BY <1>8, ReportGood
      <4>2. QED
        BY <1>8, <4>1
    <3> HIDE DEF after
    <3> DEFINE none == {}
    <3>2. none \in SUBSET {"READ", "WRITE"} /\ FlagsOf(after, p) # {}
      BY <2>3, <3>1
    <3> HIDE DEF none
    <3>3. LET r == SockCheck(after, p, FALSE, none) IN Good(r, {}) /\ Beside(r, after, p)
      BY <3>1, <3>2, SockCheckGood
    <3>4. S' = SockCheck(after, p, FALSE, none)
      BY <1>4, <2>3 DEF none
    <3>5. QED
      BY <1>8, <3>1, <3>3, <3>4 DEF Beside
  <2>4. CASE step = "ok" /\ own = {}
    <3>1. after = d
      BY <1>8, <2>4 DEF Report
    <3>2. S' = Arm(d, p, d.cons \cup {p}, {"READ"})
      BY <1>4, <2>4, <3>1 DEF Arm
    <3>3. LET r == Arm(d, p, d.cons \cup {p}, {"READ"}) IN Good(r, {}) /\ r.cons = d.cons \cup {p}
      BY <1>8, <2>4, ArmedGood
    <3>4. QED
      BY <1>8, <3>2, <3>3
  <2>5. QED
    BY <2>1, <2>2, <2>3, <2>4
<1>10. BatchOK(batch, S'.cons)
  BY <1>2, <1>9, BatchGrows
<1>11. QED
  BY <1>2, <1>9, <1>10 DEF StageOK

LEMMA DrainOneInv ==
    ASSUME DirectInv, NEW p \in Places, DrainOne(p)
    PROVE  DirectInv'
<1>1. SUFFICES ASSUME Orderly' PROVE Good(S, {})' /\ BatchOK(batch, S.cons)' /\ StageOK'
  BY DEF DirectInv, DrainOne
<1>2. /\ Good(S, {}) /\ StageOK /\ batch' = batch /\ stage' = stage /\ stage = "drain" /\ p \in S.cons
      /\ S' = SockClosed(WithFlags(S, p, {"CLOSED"}), p)
  BY <1>1 DEF DirectInv, Orderly, DrainOne
<1> DEFINE c == {"CLOSED"}
<1> DEFINE b == WithFlags(S, p, c)
<1>3. c \in SUBSET SockFlags /\ "CLOSED" \in c /\ Good(S, {p}) /\ Lives(S, p)
  BY <1>2, GoodBeside DEF SockFlags, Good, ConsOK
<1> HIDE DEF c
<1>4. Good(b, {p}) /\ Lives(b, p) /\ b.cons = S.cons /\ FlagsOf(b, p) = FlagsOf(S, p) \cup c
  BY <1>3, WithFlagsGood
<1> HIDE DEF b
<1>5. "CLOSED" \in FlagsOf(b, p)
  BY <1>3, <1>4
<1>6. LET r == SockClosed(b, p) IN Good(r, {})
  BY <1>4, <1>5, SockClosedGood
<1>7. Good(S', {})
  BY <1>2, <1>6 DEF b, c
<1>8. batch' = <<>>
  BY <1>2 DEF StageOK
<1>9. BatchOK(<<>>, S'.cons)
  BY DEF BatchOK
<1>10. QED
  BY <1>2, <1>7, <1>8, <1>9 DEF StageOK

LEMMA DirectInitInv == DirectInit => DirectInv
<1> SUFFICES ASSUME DirectInit PROVE DirectInv
  OBVIOUS
<1>1. seen \in [other : Nat, both : BOOLEAN] /\ stage = "listen" /\ batch = <<>>
  BY DEF DirectInit
<1>2. /\ S.heap = [p \in Places |-> [id |-> 0, flags |-> {}]] /\ S.cons = {}
      /\ S.armed = [p \in Places |-> {}] /\ S.relay = <<>>
      /\ S.sess = [i \in Ids |-> NoCallbacks] /\ S.freed = [i \in Ids |-> "no"] /\ ~S.undefined
      /\ S \in ServerState
  <2>1. /\ [p \in Places |-> [id |-> 0, flags |-> {}]] \in [Places -> [id : 0 .. MaxSessions, flags : SUBSET SockFlags]]
        /\ [i \in Ids |-> NoCallbacks] \in [Ids -> [connected : BOOLEAN, ended : BOOLEAN, late : BOOLEAN]]
        /\ [p \in Places |-> {}] \in [Places -> SUBSET {"READ", "WRITE"}]
        /\ [i \in Ids |-> "no"] \in [Ids -> {"no", "closed", "open"}]
    BY DirectAssumption DEF NoCallbacks
  <2>2. QED
    BY <2>1 DEF DirectInit, ServerState
<1>3. \A p \in Places : ~Lives(S, p)
  BY <1>2 DEF Lives
<1>4. \A i \in Ids : ~S.sess[i].connected /\ ~S.sess[i].ended /\ ~S.sess[i].late /\ S.freed[i] = "no"
  BY <1>2 DEF NoCallbacks
<1>5. NumbersOK(S)
  <2>1. 0 \in 0 .. MaxSessions /\ \A i \in Ids : ~(i <= 0)
    BY DirectAssumption DEF Ids
  <2>2. UsedUpTo(S, 0)
    BY <1>4, <2>1 DEF UsedUpTo
  <2>3. QED
    BY <2>1, <2>2 DEF NumbersOK
<1>6. HeapOK(S) /\ ConsOK(S, {}) /\ RelayOK(S) /\ SessOK(S)
  BY <1>2, <1>3, <1>4 DEF HeapOK, ConsOK, RelayOK, SessOK
<1>7. BatchOK(batch, S.cons) /\ StageOK
  BY <1>1 DEF BatchOK, StageOK
<1>8. QED
  BY <1>1, <1>2, <1>5, <1>6, <1>7 DEF DirectInv, Good

LEMMA DirectStepInv == DirectInv /\ [DirectNext]_directVars => DirectInv'
<1> SUFFICES ASSUME DirectInv, [DirectNext]_directVars PROVE DirectInv'
  OBVIOUS
<1>1. ASSUME S' = S, seen' = seen, BatchOK(batch, S.cons) => BatchOK(batch', S.cons), Orderly /\ StageOK => StageOK'
      PROVE  DirectInv'
  BY <1>1 DEF DirectInv, Orderly
<1>2. ASSUME NEW b \in Batches, Poll(b) PROVE DirectInv'
  BY <1>2, PollInv
<1>3. CASE Interrupt
  BY <1>1, <1>3 DEF Interrupt, StageOK
<1>4. CASE HandleRelay
  BY <1>4, RelayInv
<1>5. CASE RelayDone
  BY <1>1, <1>5 DEF RelayDone, StageOK
<1>6. CASE AcceptEvent
  <2>1. BatchOK(batch, S.cons) => BatchOK(batch', S.cons)
    BY <1>6, BatchRest DEF AcceptEvent
  <2>2. QED
    BY <1>1, <1>6, <2>1 DEF AcceptEvent, StageOK
<1>7. CASE BatchDone
  BY <1>1, <1>7 DEF BatchDone, StageOK
<1>8. CASE AcceptDone
  BY <1>1, <1>8 DEF AcceptDone, StageOK
<1>9. CASE RearmFails
  <2>1. BatchOK(<<>>, S.cons)
    BY DEF BatchOK
  <2>2. QED
    BY <1>1, <1>9, <2>1 DEF RearmFails, StageOK
<1>10. CASE DrainDone
  BY <1>1, <1>10 DEF DrainDone, StageOK
<1>11. ASSUME NEW own \in Results, NEW other \in [place : Places \cup {"none"}, flags : Results],
              NEW want \in SUBSET {"READ", "WRITE"}, HandleEvent(own, other, want)
       PROVE  DirectInv'
  BY <1>11, EventInv
<1>12. ASSUME NEW p \in Places, NEW own \in Results, NEW report \in BOOLEAN,
              NEW step \in {"nonblocking", "listener", "ok"}, AcceptOne(p, own, report, step)
       PROVE  DirectInv'
  BY <1>12, AcceptInv
<1>13. ASSUME NEW failed \in BOOLEAN, LeaveLoop(failed) PROVE DirectInv'
  BY <1>1, <1>13 DEF LeaveLoop, StageOK
<1>14. ASSUME NEW p \in Places, DrainOne(p) PROVE DirectInv'
  BY <1>14, DrainOneInv
<1>15. CASE UNCHANGED directVars
  BY <1>1, <1>15 DEF StageOK
<1>16. QED
  BY <1>2, <1>3, <1>4, <1>5, <1>6, <1>7, <1>8, <1>9, <1>10, <1>11, <1>12, <1>13, <1>14, <1>15
     DEF DirectNext

LEMMA DirectInvGives == DirectInv => DirectSessions
<1>1. SUFFICES ASSUME DirectInv, Orderly PROVE DirectSessions
  BY DEF DirectSessions, Orderly
<1>2. Good(S, {}) /\ StageOK /\ S \in ServerState
  BY <1>1 DEF DirectInv, Good
<1>3. ASSUME NEW i \in Ids
      PROVE  /\ S.freed[i] # "open" /\ ~S.sess[i].late
             /\ S.sess[i].connected => (S.sess[i].ended <=> S.freed[i] = "closed")
             /\ stage = "done" /\ S.sess[i].connected => Orphan(i) \/ S.freed[i] = "closed"
  <2>1. /\ S.freed[i] # "open" /\ ~S.sess[i].late
        /\ S.sess[i].connected => (S.sess[i].ended <=> S.freed[i] = "closed")
    BY <1>2 DEF Good, SessOK
  <2>2. ASSUME stage = "done", S.sess[i].connected, S.freed[i] # "closed"
        PROVE  Orphan(i)
    <3>1. S.freed[i] = "no" /\ ~S.sess[i].ended
      BY <1>2, <2>1, <2>2 DEF ServerState
    <3>2. S.cons = {}
      BY <1>2, <2>2 DEF StageOK
    <3>3. ASSUME NEW p \in Places, S.heap[p].id = i
          PROVE  p \notin S.cons /\ "CLOSED" \in FlagsOf(S, p)
      <4>1. Lives(S, p)
        BY <3>3, DirectAssumption DEF Lives, Ids
      <4>2. QED
        BY <1>2, <3>2, <4>1 DEF Good, ConsOK
    <3>4. QED
      BY <2>2, <3>1, <3>3 DEF Orphan
  <2>3. QED
    BY <2>1, <2>2
<1>4. QED
  BY <1>2, <1>3 DEF DirectSessions, Good

\* The stream server without worker threads, for any number of connections and of
\* places malloc gives them: while callbacks keep to their own socket and an event has
\* one direction, handle_direct never uses a freed socket, although it frees sockets
\* in the middle of a batch; a socket is closed before it is freed, disconnected comes
\* once, last, and exactly when it is freed; and after drain_direct nothing is left but
\* sockets that were closed in their connected callback.
THEOREM DirectSessionsEnd == DirectSpec => []DirectSessions
<1>1. QED
  BY DirectInitInv, DirectStepInv, DirectInvGives, PTL DEF DirectSpec

-----------------------------------------------------------------------------
(* The listeners.                                                          *)

Listener ==
    [watch : [LSocks -> SUBSET Dirs], on : SUBSET LSocks, known : SUBSET LSocks,
     buf : [LSocks -> SUBSET Dirs], cnt : [Dirs -> Int], num : Int, poked : BOOLEAN]

ListenerTypeOK ==
    /\ backend \in {"epoll", "kqueue", "select"} /\ limit \in EventLimits
    /\ li \in Listener /\ added \in SUBSET LSocks /\ shut \in SUBSET LSocks
    /\ asked \in [LSocks -> SUBSET Dirs]
    /\ pick \in [at : {"idle", "wait", "ready"}, dirs : [LSocks -> SUBSET Dirs]]

\* epoll: an enabled entry is of an open registered socket and as it was last armed.
EpollOK ==
    backend = "epoll" => \A s \in li.on : s \in added /\ s \notin shut /\ li.watch[s] = asked[s]
\* kqueue: filters are of open registered sockets.
KqueueOK ==
    backend = "kqueue" => \A s \in LSocks : li.watch[s] # {} => s \in added /\ s \notin shut
\* select: the counters count the buffered sets; only sockets of the mapping are
\* buffered, and while select works nothing is.
InBuf(l, d) == {s \in l.known : d \in l.buf[s]}
SelectOK ==
    backend = "select" =>
        /\ \A d \in Dirs : li.cnt[d] = Cardinality(InBuf(li, d))
        /\ \A s \in LSocks : li.buf[s] # {} => s \in li.known
        /\ li.known \subseteq added /\ li.num = Cardinality(added)
PickOK == pick.at # "idle" => backend = "select" /\ \A s \in LSocks : li.buf[s] = {}
AskedOK == \A s \in added \ shut : asked[s] \subseteq Held(s)
ToldOK ==
    /\ Len(told) <= limit
    /\ \A i \in DOMAIN told :
         /\ told[i].sock \in added
         /\ backend = "epoll" => told[i].what \cap Dirs \subseteq told[i].was
         /\ \A j \in DOMAIN told : told[i].sock = told[j].sock /\ i # j =>
              backend = "kqueue" /\ told[i].what \cap told[j].what \cap Dirs = {}
ListenerInv ==
    /\ ListenerTypeOK /\ EpollOK /\ KqueueOK /\ SelectOK /\ PickOK /\ AskedOK /\ ToldOK

LEMMA LimitIs == ASSUME ListenerTypeOK PROVE limit \in Nat /\ limit >= 1
  BY LimitsInRange DEF ListenerTypeOK

LEMMA NothingTold == ASSUME ListenerTypeOK, UNCHANGED limit, told' = <<>> PROVE ToldOK'
<1>1. Len(told') = 0 /\ DOMAIN told' = {}
  OBVIOUS
<1>2. QED
  BY <1>1, LimitIs DEF ToldOK

\* What filling and removing do to the fields of a listener.
FilledTo(r, l, s, want) ==
    /\ r \in Listener
    /\ r.buf = l.buf /\ r.cnt = l.cnt /\ r.num = l.num
    /\ \A t \in LSocks \ {s} : r.watch[t] = l.watch[t]
    /\ r.watch[s] = IF backend = "epoll" THEN want ELSE l.watch[s] \cup want
    /\ r.on = IF backend = "epoll" THEN l.on \cup {s} ELSE l.on
    /\ r.known = IF backend = "select" THEN l.known \cup {s} ELSE l.known
RemovedTo(r, l, s) ==
    /\ r \in Listener
    /\ \A t \in LSocks \ {s} : r.watch[t] = l.watch[t] /\ r.buf[t] = l.buf[t]
    /\ r.watch[s] = IF backend = "kqueue" /\ "READ" \notin l.watch[s] THEN l.watch[s] ELSE {}
    /\ r.on = IF backend = "epoll" THEN l.on \ {s} ELSE l.on
    /\ r.known = IF backend = "select" THEN l.known \ {s} ELSE l.known
    /\ backend # "select" => r.buf = l.buf
    /\ backend = "select" =>
         /\ r.buf[s] = {} /\ r.num = l.num - 1
         /\ \A d \in Dirs : r.cnt[d] = IF d \in l.buf[s] THEN l.cnt[d] - 1 ELSE l.cnt[d]

LEMMA FilledFields ==
    ASSUME backend \in {"epoll", "kqueue", "select"}, NEW l \in Listener, NEW s \in LSocks, NEW want \in SUBSET Dirs
    PROVE  FilledTo(Filled(l, s, want), l, s, want)
<1> DEFINE r == Filled(l, s, want)
<1> DEFINE new == IF backend = "epoll" THEN want ELSE l.watch[s] \cup want
<1> DEFINE ww == [l.watch EXCEPT ![s] = new]
<1> DEFINE on == l.on \cup {s}
<1> DEFINE kk == l.known \cup {s}
<1>1. l.watch \in [LSocks -> SUBSET Dirs] /\ new \in SUBSET Dirs
  BY DEF Listener
<1>2. on \in SUBSET LSocks /\ kk \in SUBSET LSocks
  BY DEF Listener
<1>3. r = CASE backend = "epoll" -> [l EXCEPT !.watch = ww, !.on = on]
            [] backend = "kqueue" -> [l EXCEPT !.watch = ww]
            [] backend = "select" -> [l EXCEPT !.watch = ww, !.known = kk]
  BY DEF Filled, Listener
<1> HIDE DEF r, new
<1>4. ww \in [LSocks -> SUBSET Dirs] /\ ww[s] = new /\ \A t \in LSocks \ {s} : ww[t] = l.watch[t]
  BY <1>1
<1> HIDE DEF ww, on, kk
<1>5. /\ r \in Listener /\ r.watch = ww
      /\ r.buf = l.buf /\ r.cnt = l.cnt /\ r.num = l.num /\ r.poked = l.poked
      /\ r.on = IF backend = "epoll" THEN on ELSE l.on
      /\ r.known = IF backend = "select" THEN kk ELSE l.known
  <2>1. CASE backend = "epoll"
    BY <1>2, <1>3, <1>4, <2>1 DEF Listener
  <2>2. CASE backend = "kqueue"
    BY <1>2, <1>3, <1>4, <2>2 DEF Listener
  <2>3. CASE backend = "select"
    BY <1>2, <1>3, <1>4, <2>3 DEF Listener
  <2>4. QED
    BY <2>1, <2>2, <2>3
<1>6. QED
  BY <1>4, <1>5 DEF r, new, on, kk, FilledTo

LEMMA RemovedFields ==
    ASSUME backend \in {"epoll", "kqueue", "select"}, NEW l \in Listener, NEW s \in LSocks
    PROVE  RemovedTo(Removed(l, s), l, s)
<1> DEFINE r == Removed(l, s)
<1> DEFINE new == IF backend = "kqueue" /\ "READ" \notin l.watch[s] THEN l.watch[s] ELSE {}
<1> DEFINE ww == [l.watch EXCEPT ![s] = new]
<1> DEFINE on == l.on \ {s}
<1> DEFINE kk == l.known \ {s}
<1> DEFINE bb == [l.buf EXCEPT ![s] = {}]
<1> DEFINE cc == [d \in Dirs |-> IF d \in l.buf[s] THEN l.cnt[d] - 1 ELSE l.cnt[d]]
<1> DEFINE nn == l.num - 1
<1>1. l.watch \in [LSocks -> SUBSET Dirs] /\ new \in SUBSET Dirs
  BY DEF Listener
<1>2. on \in SUBSET LSocks /\ kk \in SUBSET LSocks /\ nn \in Int
  BY DEF Listener
<1>3. r = CASE backend = "epoll" -> [l EXCEPT !.watch = ww, !.on = on]
            [] backend = "kqueue" -> [l EXCEPT !.watch = ww]
            [] backend = "select" -> [l EXCEPT !.num = nn, !.watch = ww, !.buf = bb, !.known = kk, !.cnt = cc]
  BY DEF Removed, Listener
<1> HIDE DEF r, new
<1>4. ww \in [LSocks -> SUBSET Dirs] /\ ww[s] = new /\ \A t \in LSocks \ {s} : ww[t] = l.watch[t]
  BY <1>1
<1>5. bb \in [LSocks -> SUBSET Dirs] /\ bb[s] = {} /\ \A t \in LSocks \ {s} : bb[t] = l.buf[t]
  BY DEF Listener
<1>6. cc \in [Dirs -> Int] /\ \A d \in Dirs : cc[d] = IF d \in l.buf[s] THEN l.cnt[d] - 1 ELSE l.cnt[d]
  BY DEF Listener
<1> HIDE DEF ww, on, kk, bb, cc, nn
<1>7. /\ r \in Listener /\ r.watch = ww
      /\ r.on = IF backend = "epoll" THEN on ELSE l.on
      /\ r.known = IF backend = "select" THEN kk ELSE l.known
      /\ backend # "select" => r.buf = l.buf
      /\ backend = "select" => r.buf = bb /\ r.num = nn /\ r.cnt = cc
  <2>1. CASE backend = "epoll"
    BY <1>2, <1>3, <1>4, <2>1 DEF Listener
  <2>2. CASE backend = "kqueue"
    BY <1>2, <1>3, <1>4, <2>2 DEF Listener
  <2>3. CASE backend = "select"
    BY <1>2, <1>3, <1>4, <1>5, <1>6, <2>3 DEF Listener
  <2>4. QED
    BY <2>1, <2>2, <2>3
<1>8. QED
  BY <1>4, <1>5, <1>6, <1>7 DEF r, new, on, kk, nn, RemovedTo
\* Nothing but finite sets is counted.
LEMMA Finite ==
    ASSUME ListenerTypeOK
    PROVE  /\ IsFiniteSet(added) /\ IsFiniteSet(li.known)
           /\ \A d \in Dirs : IsFiniteSet(InBuf(li, d)) /\ Cardinality(InBuf(li, d)) \in Nat
<1>1. IsFiniteSet(added) /\ IsFiniteSet(li.known)
  BY SocksAssumption, FS_Subset DEF ListenerTypeOK, Listener
<1>2. ASSUME NEW d \in Dirs
      PROVE  IsFiniteSet(InBuf(li, d)) /\ Cardinality(InBuf(li, d)) \in Nat
  <2>1. InBuf(li, d) \subseteq li.known
    BY DEF InBuf
  <2>2. QED
    BY <1>1, <2>1, FS_Subset, FS_CardinalityType
<1>3. QED
  BY <1>1, <1>2

LEMMA AddKeeps ==
    ASSUME ListenerInv, NEW s \in LSocks, NEW want \in SUBSET Dirs, ListenerAdd(s, want)
    PROVE  ListenerInv'
<1> DEFINE n == IF backend = "select" THEN li.num + 1 ELSE li.num
<1> DEFINE l == [li EXCEPT !.num = n]
<1>1. ListenerTypeOK /\ li \in Listener /\ backend \in {"epoll", "kqueue", "select"}
  BY DEF ListenerInv, ListenerTypeOK
<1>2. n \in Int
  BY <1>1 DEF Listener
<1>3. li' = Filled(l, s, want)
  BY <1>1 DEF ListenerAdd, Listener
<1>4. s \notin added /\ added' = added \cup {s} /\ shut' = shut \ {s} /\ asked' = [asked EXCEPT ![s] = want]
      /\ told' = <<>> /\ backend' = backend /\ limit' = limit /\ pick' = pick
  BY DEF ListenerAdd
<1> HIDE DEF n
<1>5. /\ l \in Listener /\ l.num = n /\ l.watch = li.watch /\ l.on = li.on /\ l.known = li.known
      /\ l.buf = li.buf /\ l.cnt = li.cnt
  BY <1>1, <1>2 DEF Listener
<1> HIDE DEF l
<1>6. /\ li' \in Listener
      /\ li'.buf = li.buf /\ li'.cnt = li.cnt /\ li'.num = n
      /\ \A t \in LSocks \ {s} : li'.watch[t] = li.watch[t]
      /\ li'.watch[s] = IF backend = "epoll" THEN want ELSE li.watch[s] \cup want
      /\ li'.on = IF backend = "epoll" THEN li.on \cup {s} ELSE li.on
      /\ li'.known = IF backend = "select" THEN li.known \cup {s} ELSE li.known
  <2>1. FilledTo(li', l, s, want)
    BY <1>1, <1>3, <1>5, FilledFields
  <2>2. QED
    BY <1>5, <2>1 DEF FilledTo
<1>7. asked' \in [LSocks -> SUBSET Dirs] /\ asked'[s] = want /\ \A t \in LSocks \ {s} : asked'[t] = asked[t]
  BY <1>1, <1>4 DEF ListenerTypeOK
<1>8. ListenerTypeOK'
  BY <1>1, <1>4, <1>6, <1>7 DEF ListenerTypeOK
<1>9. EpollOK' /\ KqueueOK'
  BY <1>1, <1>4, <1>6, <1>7 DEF ListenerInv, EpollOK, KqueueOK, ListenerTypeOK, Listener
<1>10. SelectOK'
  <2>1. CASE backend = "select"
    <3>1. s \notin li.known /\ li.buf[s] = {}
      BY <1>4, <2>1 DEF ListenerInv, SelectOK
    <3>2. \A d \in Dirs : InBuf(li', d) = InBuf(li, d)
      BY <1>6, <2>1, <3>1 DEF InBuf
    <3>3. Cardinality(added') = Cardinality(added) + 1
      BY <1>1, <1>4, Finite, FS_AddElement
    <3>4. QED
      BY <1>1, <1>4, <1>6, <2>1, <3>2, <3>3 DEF ListenerInv, SelectOK, n
  <2>2. QED
    BY <1>4, <2>1 DEF SelectOK
<1>11. PickOK' /\ AskedOK'
  BY <1>1, <1>4, <1>6, <1>7 DEF ListenerInv, PickOK, AskedOK, Held, ListenerTypeOK
<1>12. QED
  BY <1>1, <1>4, <1>8, <1>9, <1>10, <1>11, NothingTold DEF ListenerInv

LEMMA RearmKeeps ==
    ASSUME ListenerInv, NEW s \in LSocks, NEW want \in SUBSET Dirs, ListenerRearm(s, want)
    PROVE  ListenerInv'
<1>1. ListenerTypeOK /\ li \in Listener /\ backend \in {"epoll", "kqueue", "select"}
  BY DEF ListenerInv, ListenerTypeOK
<1>2. /\ s \in added /\ added' = added /\ shut' = shut /\ asked' = [asked EXCEPT ![s] = want]
      /\ told' = <<>> /\ backend' = backend /\ limit' = limit /\ pick' = pick
      /\ s \in shut => backend = "select"
  BY DEF ListenerRearm
<1>3. /\ li' \in Listener
      /\ li'.buf = li.buf /\ li'.cnt = li.cnt /\ li'.num = li.num
      /\ \A t \in LSocks \ {s} : li'.watch[t] = li.watch[t]
      /\ li'.watch[s] = IF backend = "epoll" THEN want ELSE li.watch[s] \cup want
      /\ li'.on = IF backend = "epoll" THEN li.on \cup {s} ELSE li.on
      /\ li'.known = IF backend = "select" THEN li.known \cup {s} ELSE li.known
  <2>1. li' = Filled(li, s, want)
    BY DEF ListenerRearm
  <2>2. FilledTo(li', li, s, want)
    BY <1>1, <2>1, FilledFields
  <2>3. QED
    BY <2>2 DEF FilledTo
<1>4. asked' \in [LSocks -> SUBSET Dirs] /\ asked'[s] = want /\ \A t \in LSocks \ {s} : asked'[t] = asked[t]
  BY <1>1, <1>2 DEF ListenerTypeOK
<1>5. ListenerTypeOK'
  BY <1>1, <1>2, <1>3, <1>4 DEF ListenerTypeOK
<1>6. EpollOK' /\ KqueueOK'
  BY <1>1, <1>2, <1>3, <1>4 DEF ListenerInv, EpollOK, KqueueOK, ListenerTypeOK, Listener
<1>7. SelectOK'
  <2>1. CASE backend = "select"
    <3>1. \A d \in Dirs : InBuf(li', d) = InBuf(li, d)
      BY <1>1, <1>3, <2>1 DEF InBuf, ListenerInv, SelectOK
    <3>2. QED
      BY <1>1, <1>2, <1>3, <2>1, <3>1 DEF ListenerInv, SelectOK
  <2>2. QED
    BY <1>2, <2>1 DEF SelectOK
<1>8. PickOK' /\ AskedOK'
  BY <1>1, <1>2, <1>3, <1>4 DEF ListenerInv, PickOK, AskedOK, Held, ListenerTypeOK
<1>9. QED
  BY <1>1, <1>2, <1>5, <1>6, <1>7, <1>8, NothingTold DEF ListenerInv

LEMMA CloseKeeps ==
    ASSUME ListenerInv, NEW s \in LSocks, CloseListened(s)
    PROVE  ListenerInv'
<1>1. ListenerTypeOK /\ li \in Listener /\ backend \in {"epoll", "kqueue", "select"}
  BY DEF ListenerInv, ListenerTypeOK
<1>2. /\ s \in added \ shut /\ added' = added /\ shut' = shut \cup {s} /\ asked' = asked
      /\ told' = <<>> /\ backend' = backend /\ limit' = limit /\ pick' = pick
  BY DEF CloseListened
<1>3. /\ li' \in Listener
      /\ li'.buf = li.buf /\ li'.cnt = li.cnt /\ li'.num = li.num /\ li'.known = li.known
      /\ \A t \in LSocks \ {s} : li'.watch[t] = li.watch[t]
      /\ li'.watch[s] = IF backend = "select" THEN li.watch[s] ELSE {}
      /\ li'.on = IF backend = "select" THEN li.on ELSE li.on \ {s}
  <2> DEFINE ww == [li.watch EXCEPT ![s] = {}]
  <2> DEFINE on == li.on \ {s}
  <2>1. ww \in [LSocks -> SUBSET Dirs] /\ on \in SUBSET LSocks /\ ww[s] = {}
        /\ \A t \in LSocks \ {s} : ww[t] = li.watch[t]
    BY <1>1 DEF Listener
  <2>2. li' = IF backend = "select" THEN li ELSE [li EXCEPT !.watch = ww, !.on = on]
    BY DEF CloseListened
  <2> HIDE DEF ww
  <2>3. CASE backend = "select"
    BY <1>1, <2>2, <2>3
  <2>4. CASE backend # "select"
    <3> HIDE DEF on
    <3>1. /\ li' \in Listener
          /\ li'.buf = li.buf /\ li'.cnt = li.cnt /\ li'.num = li.num /\ li'.known = li.known
          /\ li'.watch = ww /\ li'.on = on
      BY <1>1, <2>1, <2>2, <2>4 DEF Listener
    <3>2. QED
      BY <2>1, <2>4, <3>1 DEF on
  <2>5. QED
    BY <2>3, <2>4
<1>4. ListenerTypeOK'
  BY <1>1, <1>2, <1>3 DEF ListenerTypeOK
<1>5. EpollOK' /\ KqueueOK'
  BY <1>1, <1>2, <1>3 DEF ListenerInv, EpollOK, KqueueOK, ListenerTypeOK, Listener
<1>6. SelectOK' /\ PickOK'
  BY <1>1, <1>2, <1>3 DEF ListenerInv, SelectOK, PickOK, InBuf
<1>7. AskedOK'
  BY <1>1, <1>2, <1>3 DEF ListenerInv, AskedOK, Held, ListenerTypeOK
<1>8. QED
  BY <1>1, <1>2, <1>4, <1>5, <1>6, <1>7, NothingTold DEF ListenerInv

LEMMA RemoveKeeps ==
    ASSUME ListenerInv, NEW s \in LSocks, ListenerRemove(s)
    PROVE  ListenerInv'
<1>1. ListenerTypeOK /\ li \in Listener /\ backend \in {"epoll", "kqueue", "select"}
  BY DEF ListenerInv, ListenerTypeOK
<1> DEFINE left == IF RemoveFails(s) THEN asked[s] \cap li'.watch[s] ELSE {}
<1>2. /\ s \in added /\ shut' = shut /\ asked' = [asked EXCEPT ![s] = left]
      /\ added' = IF RemoveFails(s) THEN added ELSE added \ {s}
      /\ told' = <<>> /\ backend' = backend /\ limit' = limit /\ pick' = pick
  BY <1>1 DEF ListenerRemove, ListenerTypeOK
<1>3. RemovedTo(li', li, s)
  BY <1>1, RemovedFields DEF ListenerRemove
<1>4. /\ li' \in Listener
      /\ \A t \in LSocks \ {s} : li'.watch[t] = li.watch[t] /\ li'.buf[t] = li.buf[t]
      /\ li'.watch[s] = IF backend = "kqueue" /\ "READ" \notin li.watch[s] THEN li.watch[s] ELSE {}
      /\ li'.on = IF backend = "epoll" THEN li.on \ {s} ELSE li.on
      /\ li'.known = IF backend = "select" THEN li.known \ {s} ELSE li.known
      /\ backend # "select" => li'.buf = li.buf
      /\ backend = "select" =>
           /\ li'.buf[s] = {} /\ li'.num = li.num - 1
           /\ \A d \in Dirs : li'.cnt[d] = IF d \in li.buf[s] THEN li.cnt[d] - 1 ELSE li.cnt[d]
  BY <1>3 DEF RemovedTo
<1>5. left \in SUBSET Dirs /\ left \subseteq li'.watch[s]
  BY <1>1, <1>4 DEF ListenerTypeOK, Listener
<1>6. RemoveFails(s) => backend = "kqueue"
  BY DEF RemoveFails
<1>7. ~RemoveFails(s) /\ backend = "kqueue" => li'.watch[s] = {}
  BY <1>1, <1>2, <1>4 DEF RemoveFails, ListenerInv, KqueueOK, Dirs
<1> HIDE DEF left
<1>8. asked' \in [LSocks -> SUBSET Dirs] /\ asked'[s] = left /\ \A t \in LSocks \ {s} : asked'[t] = asked[t]
  BY <1>1, <1>2, <1>5 DEF ListenerTypeOK
<1>9. ListenerTypeOK'
  BY <1>1, <1>2, <1>4, <1>8 DEF ListenerTypeOK
<1>10. EpollOK' /\ KqueueOK'
  BY <1>1, <1>2, <1>4, <1>6, <1>7, <1>8 DEF ListenerInv, EpollOK, KqueueOK, ListenerTypeOK, Listener
<1>11. SelectOK'
  <2>1. CASE backend = "select"
    <3>1. added' = added \ {s} /\ Cardinality(added') = Cardinality(added) - 1
      BY <1>1, <1>2, <1>6, <2>1, Finite, FS_RemoveElement
    <3>2. ASSUME NEW d \in Dirs
          PROVE  li'.cnt[d] = Cardinality(InBuf(li', d))
      <4>1. InBuf(li', d) = InBuf(li, d) \ {s}
        BY <1>1, <1>4, <2>1 DEF InBuf, Listener
      <4>2. li.cnt[d] = Cardinality(InBuf(li, d)) /\ IsFiniteSet(InBuf(li, d))
        BY <1>1, <2>1, Finite DEF ListenerInv, SelectOK
      <4>3. CASE d \in li.buf[s]
        <5>1. s \in InBuf(li, d)
          BY <2>1, <4>3 DEF InBuf, ListenerInv, SelectOK
        <5>2. Cardinality(InBuf(li, d) \ {s}) = Cardinality(InBuf(li, d)) - 1
          BY <4>2, <5>1, FS_RemoveElement
        <5>3. QED
          BY <1>4, <2>1, <4>1, <4>2, <4>3, <5>2
      <4>4. CASE d \notin li.buf[s]
        <5>1. InBuf(li, d) \ {s} = InBuf(li, d)
          BY <4>4 DEF InBuf
        <5>2. QED
          BY <1>4, <2>1, <4>1, <4>2, <4>4, <5>1
      <4>5. QED
        BY <4>3, <4>4
    <3>3. li.known \subseteq added /\ li.num = Cardinality(added)
          /\ \A t \in LSocks : li.buf[t] # {} => t \in li.known
      BY <2>1 DEF ListenerInv, SelectOK
    <3>4. QED
      BY <1>2, <1>4, <2>1, <3>1, <3>2, <3>3 DEF SelectOK
  <2>2. QED
    BY <1>2, <2>1 DEF SelectOK
<1>12. PickOK'
  BY <1>2, <1>4 DEF ListenerInv, PickOK
<1>13. AskedOK'
  BY <1>1, <1>2, <1>4, <1>5, <1>6, <1>8 DEF ListenerInv, AskedOK, Held, ListenerTypeOK
<1>14. QED
  BY <1>1, <1>2, <1>9, <1>10, <1>11, <1>12, <1>13, NothingTold DEF ListenerInv

LEMMA InterruptKeeps ==
    ASSUME ListenerInv, ListenerInterrupt
    PROVE  ListenerInv'
<1>1. ListenerTypeOK /\ li \in Listener
  BY DEF ListenerInv, ListenerTypeOK
<1>2. /\ li' \in Listener /\ li'.watch = li.watch /\ li'.on = li.on /\ li'.known = li.known
      /\ li'.buf = li.buf /\ li'.cnt = li.cnt /\ li'.num = li.num
  BY <1>1 DEF ListenerInterrupt, Listener
<1>3. /\ added' = added /\ shut' = shut /\ asked' = asked
      /\ told' = <<>> /\ backend' = backend /\ limit' = limit /\ pick' = pick
  BY DEF ListenerInterrupt
<1>4. QED
  BY <1>1, <1>2, <1>3, NothingTold
     DEF ListenerInv, ListenerTypeOK, EpollOK, KqueueOK, SelectOK, InBuf, PickOK, AskedOK, Held

\* No counter is positive: nothing is buffered.
LEMMA NotBuffered ==
    ASSUME ListenerInv, backend = "select", ~Buffered
    PROVE  \A s \in LSocks : li.buf[s] = {}
<1>1. ListenerTypeOK
  BY DEF ListenerInv
<1>2. ASSUME NEW d \in Dirs
      PROVE  InBuf(li, d) = {}
  <2>1. Cardinality(InBuf(li, d)) = 0
    BY <1>1, Finite DEF ListenerInv, SelectOK, Buffered
  <2>2. QED
    BY <1>1, <2>1, Finite, FS_EmptySet
<1>3. ASSUME NEW s \in LSocks, li.buf[s] # {}
      PROVE  FALSE
  <2>1. s \in li.known
    BY <1>3 DEF ListenerInv, SelectOK
  <2>2. PICK d \in Dirs : d \in li.buf[s]
    BY <1>1, <1>3 DEF ListenerTypeOK, Listener
  <2>3. QED
    BY <1>2, <2>1, <2>2 DEF InBuf
<1>4. QED
  BY <1>3

LEMMA WaitKeeps ==
    ASSUME ListenerInv, SelectCopy \/ \E ready \in [LSocks -> SUBSET Dirs] : SelectReturns(ready)
    PROVE  ListenerInv'
<1>1. ListenerTypeOK /\ li \in Listener
  BY DEF ListenerInv, ListenerTypeOK
<1>2. /\ UNCHANGED <<backend, limit, li, added, shut, asked>> /\ told' = <<>>
  BY DEF SelectCopy, SelectReturns
<1>3. pick' \in [at : {"idle", "wait", "ready"}, dirs : [LSocks -> SUBSET Dirs]]
  <2>1. CASE SelectCopy
    BY <1>1, <2>1 DEF SelectCopy, Listener
  <2>2. CASE \E ready \in [LSocks -> SUBSET Dirs] : SelectReturns(ready)
    BY <2>2 DEF SelectReturns, AtRest, NoDirs
  <2>3. QED
    BY <2>1, <2>2
<1>4. PickOK'
  <2>1. CASE SelectCopy
    BY <1>2, <2>1, NotBuffered DEF SelectCopy, PickOK
  <2>2. CASE \E ready \in [LSocks -> SUBSET Dirs] : SelectReturns(ready)
    BY <1>2, <2>2 DEF SelectReturns, ListenerInv, PickOK
  <2>3. QED
    BY <2>1, <2>2
<1>5. QED
  BY <1>1, <1>2, <1>3, <1>4, NothingTold
     DEF ListenerInv, ListenerTypeOK, EpollOK, KqueueOK, SelectOK, AskedOK, Held

-----------------------------------------------------------------------------
(* What run returns.                                                       *)

\* A list of events that run may return.
MayReturn(evs, n) ==
    /\ n \in Nat /\ n <= limit /\ DOMAIN evs = 1 .. n
    /\ \A i \in 1 .. n :
         /\ evs[i].sock \in added
         /\ backend = "epoll" => evs[i].what \cap Dirs \subseteq asked[evs[i].sock]
         /\ \A j \in 1 .. n : evs[i].sock = evs[j].sock /\ i # j =>
              backend = "kqueue" /\ evs[i].what \cap evs[j].what \cap Dirs = {}

LEMMA ReportsTold ==
    ASSUME ListenerTypeOK, UNCHANGED <<backend, limit, added>>, NEW evs, NEW n, MayReturn(evs, n), Reports(evs)
    PROVE  /\ ToldOK' /\ asked' \in [LSocks -> SUBSET Dirs]
           /\ \A s \in LSocks : asked'[s] = IF \E i \in 1 .. n : evs[i].sock = s THEN {} ELSE asked[s]
<1>1. n \in Nat /\ n <= limit /\ DOMAIN evs = 1 .. n
  BY DEF MayReturn
<1>2. told' = [i \in 1 .. n |-> [sock |-> evs[i].sock, what |-> evs[i].what,
                                 was |-> IF evs[i].sock \in LSocks THEN asked[evs[i].sock] ELSE {}]]
  BY <1>1 DEF Reports, Told
<1>3. Len(told') = n /\ DOMAIN told' = 1 .. n
  BY <1>1, <1>2
<1>4. ASSUME NEW i \in 1 .. n
      PROVE  /\ told'[i].sock = evs[i].sock /\ told'[i].what = evs[i].what
             /\ evs[i].sock \in added /\ told'[i].was = asked[evs[i].sock]
  <2>1. evs[i].sock \in added /\ evs[i].sock \in LSocks
    BY <1>4 DEF MayReturn, ListenerTypeOK
  <2>2. QED
    BY <1>2, <1>4, <2>1
<1>5. ToldOK'
  BY <1>1, <1>3, <1>4 DEF ToldOK, MayReturn
<1>6. QED
  BY <1>1, <1>5 DEF Reports, Reported, ListenerTypeOK

-----------------------------------------------------------------------------
(* select.                                                                 *)

\* SetToSeq lists every element of a finite set once.
LEMMA SetListed ==
    ASSUME NEW c, IsFiniteSet(c)
    PROVE  LET q == SetToSeq(c)
           IN  /\ q \in [1 .. Cardinality(c) -> c]
               /\ \A i, j \in 1 .. Cardinality(c) : q[i] = q[j] => i = j
               /\ \A x \in c : \E i \in 1 .. Cardinality(c) : q[i] = x
<1> DEFINE n == Cardinality(c)
<1> DEFINE q == SetToSeq(c)
<1>1. n \in Nat /\ ExistsBijection(1 .. n, c)
  BY FS_CardinalityType
<1>2. \E f \in [1 .. n -> c] : IsInjective(f)
  BY <1>1 DEF ExistsBijection, Bijection, Injection
<1>3. q \in [1 .. n -> c] /\ IsInjective(q)
  BY <1>2 DEF SetToSeq
<1> HIDE DEF q
<1>4. q \in Injection(1 .. n, c)
  BY <1>3 DEF Injection
<1>5. IsFiniteSet(1 .. n) /\ Cardinality(1 .. n) = n
  BY <1>1, FS_Interval
<1>6. q \in Surjection(1 .. n, c)
  BY <1>4, <1>5, FS_Injection
<1>7. QED
  BY <1>3, <1>6 DEF Surjection, IsInjective, q

LEMMA CardDifference ==
    ASSUME NEW A, IsFiniteSet(A), NEW B, B \subseteq A
    PROVE  /\ IsFiniteSet(B) /\ Cardinality(B) \in Nat /\ Cardinality(A) \in Nat
           /\ Cardinality(A \ B) = Cardinality(A) - Cardinality(B)
<1> DEFINE C == A \ B
<1>1. IsFiniteSet(B) /\ IsFiniteSet(C)
  BY FS_Subset
<1>2. C \cup B = A /\ C \cap B = {}
  OBVIOUS
<1> HIDE DEF C
<1>3. Cardinality(C \cup B) = Cardinality(C) + Cardinality(B) - Cardinality(C \cap B)
  BY <1>1, FS_Union
<1>4. Cardinality(A) \in Nat /\ Cardinality(B) \in Nat /\ Cardinality(C) \in Nat
  BY <1>1, FS_CardinalityType
<1>5. Cardinality(C) = Cardinality(A) - Cardinality(B)
  BY <1>2, <1>3, <1>4, FS_EmptySet
<1>6. QED
  BY <1>1, <1>4, <1>5 DEF C

\* The sockets that select's run chose are what it may return.
LEMMA ChosenReturned ==
    ASSUME ListenerInv, backend = "select", NEW handled, handled \subseteq li.known,
           NEW c \in Chosen(handled), NEW dirs
    PROVE  LET evs == EventsOf(c, dirs)
           IN  /\ MayReturn(evs, Cardinality(c))
               /\ \A s : (\E i \in 1 .. Cardinality(c) : evs[i].sock = s) <=> s \in c
<1> DEFINE n == Cardinality(c)
<1> DEFINE q == SetToSeq(c)
<1> DEFINE evs == EventsOf(c, dirs)
<1>1. ListenerTypeOK /\ li.known \subseteq added
  BY DEF ListenerInv, SelectOK
<1>2. c \subseteq handled /\ IsFiniteSet(handled)
  BY <1>1, Finite, FS_Subset DEF Chosen
<1>3. IsFiniteSet(c) /\ n \in Nat /\ Cardinality(handled) \in Nat
  BY <1>2, FS_Subset, FS_CardinalityType
<1>4. n <= limit
  BY <1>1, <1>3, LimitIs DEF Chosen
<1>5. q \in [1 .. n -> c] /\ (\A i, j \in 1 .. n : q[i] = q[j] => i = j) /\ \A x \in c : \E i \in 1 .. n : q[i] = x
  BY <1>3, SetListed
<1> HIDE DEF n
<1>6. evs = [i \in 1 .. n |-> [sock |-> q[i], what |-> dirs[q[i]]]]
  BY <1>5 DEF EventsOf
<1> HIDE DEF q, evs
<1>7. DOMAIN evs = 1 .. n /\ \A i \in 1 .. n : evs[i].sock = q[i] /\ q[i] \in c
  BY <1>5, <1>6
<1>8. MayReturn(evs, n)
  BY <1>1, <1>2, <1>3, <1>4, <1>5, <1>7 DEF MayReturn
<1>9. QED
  BY <1>5, <1>7, <1>8 DEF n, evs

LEMMA BufferedKeeps ==
    ASSUME ListenerInv, NEW c \in SUBSET LSocks, SelectBuffered(c)
    PROVE  ListenerInv'
<1> DEFINE handled == {s \in li.known : li.buf[s] # {}}
<1> DEFINE evs == EventsOf(c, li.buf)
<1>1. ListenerTypeOK /\ li \in Listener /\ backend = "select" /\ pick.at = "idle" /\ SelectOK
  BY DEF ListenerInv, ListenerTypeOK, SelectBuffered
<1>2. /\ c \in Chosen(handled) /\ Reports(evs)
      /\ backend' = backend /\ limit' = limit /\ added' = added /\ shut' = shut /\ pick' = pick
  BY DEF SelectBuffered
<1>3. MayReturn(evs, Cardinality(c)) /\ \A s : (\E i \in 1 .. Cardinality(c) : evs[i].sock = s) <=> s \in c
  BY <1>1, <1>2, ChosenReturned
<1> HIDE DEF evs
<1>4. /\ ToldOK' /\ asked' \in [LSocks -> SUBSET Dirs]
      /\ \A s \in LSocks : asked'[s] = IF s \in c THEN {} ELSE asked[s]
  BY <1>1, <1>2, <1>3, ReportsTold
<1> DEFINE bb == [s \in LSocks |-> IF s \in c THEN {} ELSE li.buf[s]]
<1> DEFINE kk == li.known \ c
<1> DEFINE cc == Less(li.cnt, li.buf, c)
<1> DEFINE took(d) == {s \in c : d \in li.buf[s]}
<1>5. c \subseteq handled
  BY <1>2 DEF Chosen
<1>6. /\ \A d \in Dirs : took(d) \subseteq InBuf(li, d) /\ Cardinality(took(d)) \in Nat
      /\ \A d \in Dirs : Cardinality(InBuf(li, d) \ took(d)) = Cardinality(InBuf(li, d)) - Cardinality(took(d))
  <2>1. ASSUME NEW d \in Dirs PROVE took(d) \subseteq InBuf(li, d)
    BY <1>5 DEF InBuf
  <2>2. QED
    BY <1>1, <2>1, Finite, CardDifference
<1>7. bb \in [LSocks -> SUBSET Dirs] /\ kk \in SUBSET LSocks
  BY <1>1 DEF Listener
<1>8. cc \in [Dirs -> Int] /\ \A d \in Dirs : cc[d] = li.cnt[d] - Cardinality(took(d))
  BY <1>1, <1>6 DEF Less, Listener
<1>9. li' = [li EXCEPT !.known = kk, !.cnt = cc, !.buf = bb]
  BY DEF SelectBuffered
<1> HIDE DEF cc, kk, bb
<1>10. /\ li' \in Listener /\ li'.known = kk /\ li'.cnt = cc /\ li'.buf = bb
       /\ li'.watch = li.watch /\ li'.num = li.num
  BY <1>1, <1>7, <1>8, <1>9 DEF Listener
<1>11. ListenerTypeOK'
  BY <1>1, <1>2, <1>4, <1>10 DEF ListenerTypeOK
<1>12. SelectOK'
  <2>1. ASSUME NEW d \in Dirs
        PROVE  InBuf(li', d) = InBuf(li, d) \ took(d)
    BY <1>1, <1>10 DEF InBuf, kk, bb, Listener
  <2>2. \A d \in Dirs : li'.cnt[d] = Cardinality(InBuf(li', d))
    BY <1>1, <1>6, <1>8, <1>10, <2>1 DEF SelectOK
  <2>3. (\A s \in LSocks : li'.buf[s] # {} => s \in li'.known) /\ li'.known \subseteq added'
    BY <1>1, <1>2, <1>10 DEF SelectOK, bb, kk
  <2>4. QED
    BY <1>1, <1>2, <1>10, <2>2, <2>3 DEF SelectOK
<1>13. EpollOK' /\ KqueueOK' /\ PickOK'
  BY <1>1, <1>2 DEF EpollOK, KqueueOK, PickOK
<1>14. AskedOK'
  <2>1. ASSUME NEW s \in added \ shut, s \notin c
        PROVE  Held(s)' = Held(s)
    BY <1>1, <1>2, <1>10, <2>1 DEF Held, kk, bb, ListenerTypeOK
  <2>2. QED
    BY <1>1, <1>2, <1>4, <2>1 DEF AskedOK, ListenerInv, ListenerTypeOK
<1>15. QED
  BY <1>4, <1>11, <1>12, <1>13, <1>14 DEF ListenerInv

LEMMA HandleKeeps ==
    ASSUME ListenerInv, NEW c \in SUBSET LSocks, SelectHandle(c)
    PROVE  ListenerInv'
<1> DEFINE handled == {s \in li.known : pick.dirs[s] # {}}
<1> DEFINE one == [s \in LSocks |-> IF "WRITE" \in pick.dirs[s] THEN {"WRITE"} ELSE pick.dirs[s]]
<1> DEFINE evs == EventsOf(c, one)
<1>1. /\ ListenerTypeOK /\ li \in Listener /\ SelectOK /\ pick.dirs \in [LSocks -> SUBSET Dirs]
      /\ backend = "select" /\ \A s \in LSocks : li.buf[s] = {}
  BY DEF ListenerInv, ListenerTypeOK, PickOK, SelectHandle
<1>2. /\ c \in Chosen(handled) /\ Reports(evs) /\ pick' = AtRest
      /\ backend' = backend /\ limit' = limit /\ added' = added /\ shut' = shut
  BY DEF SelectHandle
<1>3. MayReturn(evs, Cardinality(c)) /\ \A s : (\E i \in 1 .. Cardinality(c) : evs[i].sock = s) <=> s \in c
  <2> HIDE DEF one
  <2>1. handled \subseteq li.known
    OBVIOUS
  <2> HIDE DEF handled
  <2>2. QED
    BY <1>1, <1>2, <2>1, ChosenReturned
<1> HIDE DEF evs
<1>4. /\ ToldOK' /\ asked' \in [LSocks -> SUBSET Dirs]
      /\ \A s \in LSocks : asked'[s] = IF s \in c THEN {} ELSE asked[s]
  BY <1>1, <1>2, <1>3, ReportsTold
<1> DEFINE ww == [s \in LSocks |-> IF s \in handled THEN li.watch[s] \ pick.dirs[s] ELSE li.watch[s]]
<1> DEFINE bb == [s \in LSocks |-> IF s \in handled \ c THEN li.buf[s] \cup pick.dirs[s] ELSE li.buf[s]]
<1> DEFINE kk == li.known \ c
<1> DEFINE cc == More(li.cnt, pick.dirs, handled \ c)
<1> DEFINE kept(d) == {s \in handled \ c : d \in pick.dirs[s]}
<1>5. c \subseteq handled
  BY <1>2 DEF Chosen
<1>6. \A d \in Dirs : Cardinality(kept(d)) \in Nat
  <2>1. \A d \in Dirs : kept(d) \subseteq li.known
    OBVIOUS
  <2>2. QED
    BY <1>1, <2>1, Finite, FS_Subset, FS_CardinalityType
<1>7. ww \in [LSocks -> SUBSET Dirs] /\ bb \in [LSocks -> SUBSET Dirs] /\ kk \in SUBSET LSocks
  BY <1>1 DEF Listener
<1>8. cc \in [Dirs -> Int] /\ \A d \in Dirs : cc[d] = li.cnt[d] + Cardinality(kept(d))
  <2> HIDE DEF handled
  <2>1. \A d \in Dirs : li.cnt[d] + Cardinality(kept(d)) \in Int
    BY <1>1, <1>6 DEF Listener
  <2>2. cc = [d \in Dirs |-> li.cnt[d] + Cardinality(kept(d))]
    BY DEF More
  <2>3. QED
    BY <2>1, <2>2
<1>9. li' = [li EXCEPT !.known = kk, !.cnt = cc, !.watch = ww, !.buf = bb]
  BY DEF SelectHandle
<1> HIDE DEF cc, kk, bb, ww
<1>10. /\ li' \in Listener /\ li'.known = kk /\ li'.cnt = cc /\ li'.buf = bb
       /\ li'.watch = ww /\ li'.num = li.num
  BY <1>1, <1>7, <1>8, <1>9 DEF Listener
<1>11. ListenerTypeOK'
  BY <1>1, <1>2, <1>4, <1>10 DEF ListenerTypeOK, AtRest, NoDirs
<1>12. SelectOK'
  <2>1. ASSUME NEW d \in Dirs
        PROVE  InBuf(li', d) = kept(d) /\ InBuf(li, d) = {}
    BY <1>1, <1>10 DEF InBuf, kk, bb, Listener
  <2>2. \A d \in Dirs : li'.cnt[d] = Cardinality(InBuf(li', d))
    <3>1. \A d \in Dirs : li.cnt[d] = 0
      BY <1>1, <2>1, FS_EmptySet DEF SelectOK
    <3> HIDE DEF kept
    <3>2. QED
      BY <1>6, <1>8, <1>10, <2>1, <3>1
  <2>3. (\A s \in LSocks : li'.buf[s] # {} => s \in li'.known) /\ li'.known \subseteq added'
    BY <1>1, <1>2, <1>10 DEF SelectOK, bb, kk
  <2>4. QED
    BY <1>1, <1>2, <1>10, <2>2, <2>3 DEF SelectOK
<1>13. EpollOK' /\ KqueueOK' /\ PickOK'
  BY <1>1, <1>2 DEF EpollOK, KqueueOK, PickOK, AtRest
<1>14. AskedOK'
  <2>1. ASSUME NEW s \in added \ shut, s \notin c
        PROVE  Held(s) \subseteq Held(s)'
    <3>1. s \in LSocks
      BY <1>1 DEF ListenerTypeOK
    <3>2. Held(s) = (IF s \in li.known THEN li.watch[s] \cup li.buf[s] ELSE {})
          /\ Held(s)' = (IF s \in kk THEN ww[s] \cup bb[s] ELSE {})
      BY <1>1, <1>2, <1>10 DEF Held
    <3>3. QED
      BY <2>1, <3>1, <3>2 DEF kk, ww, bb
  <2>2. QED
    BY <1>1, <1>2, <1>4, <2>1 DEF AskedOK, ListenerInv, ListenerTypeOK
<1>15. QED
  BY <1>4, <1>11, <1>12, <1>13, <1>14 DEF ListenerInv

-----------------------------------------------------------------------------
(* epoll and kqueue.                                                       *)

\* What an event of the kernel can be.
MayHappen(e) ==
    /\ DOMAIN e = {"sock", "what"} /\ e = [sock |-> e.sock, what |-> e.what]
    /\ e.sock = Closer => e.what = {"READ"}
    /\ e.sock # Closer =>
         /\ e.sock \in LSocks /\ e.what \cap Dirs \subseteq li.watch[e.sock]
         /\ backend = "epoll" => e.sock \in li.on
         /\ backend = "kqueue" => e.what \cap Dirs # {}

LEMMA KernelEventIs ==
    ASSUME backend \in {"epoll", "kqueue"}, li \in Listener, NEW e \in KernelEvents
    PROVE  MayHappen(e)
<1>1. CASE e = [sock |-> Closer, what |-> {"READ"}]
  BY <1>1 DEF MayHappen
<1>2. CASE e # [sock |-> Closer, what |-> {"READ"}] /\ backend = "epoll"
  <2>1. PICK s \in li.on : e \in [sock : {s}, what : ((SUBSET li.watch[s]) \ {{}}) \cup {{"HUP"}, {"ERR"}}]
    BY <1>2 DEF KernelEvents
  <2>2. s \in LSocks
    BY DEF Listener
  <2>3. /\ e = [sock |-> e.sock, what |-> e.what] /\ DOMAIN e = {"sock", "what"}
        /\ e.sock = s /\ e.what \in ((SUBSET li.watch[s]) \ {{}}) \cup {{"HUP"}, {"ERR"}}
    BY <2>1
  <2>4. e.what \cap Dirs \subseteq li.watch[s]
    BY <2>3 DEF Dirs
  <2>5. QED
    BY <1>2, <2>2, <2>3, <2>4, SocksAssumption DEF MayHappen
<1>3. CASE e # [sock |-> Closer, what |-> {"READ"}] /\ backend = "kqueue"
  <2>1. PICK s \in LSocks : e \in [sock : {s}, what : UNION {{{d}, {d, "HUP"}} : d \in li.watch[s]}]
    BY <1>3 DEF KernelEvents
  <2>2. /\ e = [sock |-> e.sock, what |-> e.what] /\ DOMAIN e = {"sock", "what"}
        /\ e.sock = s /\ e.what \in UNION {{{d}, {d, "HUP"}} : d \in li.watch[s]}
    BY <2>1
  <2>3. PICK d \in li.watch[s] : e.what \in {{d}, {d, "HUP"}}
    BY <2>2
  <2>4. d \in Dirs
    BY DEF Listener
  <2>5. e.what \cap Dirs = {d}
    BY <2>3, <2>4 DEF Dirs
  <2>6. QED
    BY <1>3, <2>2, <2>3, <2>5, SocksAssumption DEF MayHappen
<1>4. QED
  BY <1>1, <1>2, <1>3

\* What run makes of an event: its directions stay what they are.
LEMMA NamedIs ==
    ASSUME NEW e, MayHappen(e)
    PROVE  Named(e).sock = e.sock /\ Named(e).what \cap Dirs = e.what \cap Dirs
<1>1. CASE e.sock = Closer
  BY <1>1 DEF Named
<1>2. CASE e.sock # Closer
  <2>1. Named(e).sock = e.sock /\ Named(e).what = Types(e)
    BY <1>2 DEF Named, MayHappen
  <2>2. Types(e) \cap Dirs = e.what \cap Dirs
    BY DEF Types, Dirs
  <2>3. QED
    BY <2>1, <2>2
<1>3. QED
  BY <1>1, <1>2

\* The slot that only one event goes to.
LEMMA OneSlot ==
    ASSUME NEW slots, NEW raw, NEW k \in DOMAIN slots, NEW i,
           {x \in DOMAIN raw : raw[x].sock # Closer /\ x - Off(raw, x) = k} = {i}
    PROVE  Scattered(slots, raw)[k] = raw[i]
<1>1. (CHOOSE x \in {i} : TRUE) = i
  OBVIOUS
<1>2. QED
  BY <1>1 DEF Scattered

\* What the kernel reports of registered sockets, one event or two.
LEMMA FromKernel ==
    ASSUME ListenerInv, backend \in {"epoll", "kqueue"}, NEW e, MayHappen(e), e.sock # Closer
    PROVE  /\ e.sock \in added /\ Named(e).sock = e.sock /\ Named(e).what \cap Dirs = e.what \cap Dirs
           /\ backend = "epoll" => Named(e).what \cap Dirs \subseteq asked[e.sock]
  BY NamedIs DEF ListenerInv, EpollOK, KqueueOK, MayHappen

LEMMA OneReturned ==
    ASSUME ListenerInv, backend \in {"epoll", "kqueue"}, NEW evs, NEW e, MayHappen(e), e.sock # Closer,
           DOMAIN evs = 1 .. 1, evs[1] = Named(e)
    PROVE  MayReturn(evs, 1) /\ \A s : (\E i \in 1 .. 1 : evs[i].sock = s) <=> e.sock = s
<1>1. 1 <= limit
  BY LimitIs DEF ListenerInv
<1>2. /\ evs[1].sock \in added /\ evs[1].sock = e.sock
      /\ backend = "epoll" => evs[1].what \cap Dirs \subseteq asked[evs[1].sock]
  BY FromKernel
<1> DEFINE R == 1 .. 1
<1>3. R = {1}
  OBVIOUS
<1> HIDE DEF R
<1>4. ASSUME NEW i \in R
      PROVE  /\ evs[i].sock \in added
             /\ backend = "epoll" => evs[i].what \cap Dirs \subseteq asked[evs[i].sock]
             /\ \A k \in R : i = k
  BY <1>2, <1>3
<1>5. MayReturn(evs, 1)
  BY <1>1, <1>4 DEF MayReturn, R
<1>6. \A s : (\E i \in R : evs[i].sock = s) <=> e.sock = s
  BY <1>2, <1>3
<1>7. QED
  BY <1>5, <1>6 DEF R

LEMMA TwoReturned ==
    ASSUME ListenerInv, backend \in {"epoll", "kqueue"}, limit >= 2, NEW evs,
           NEW e, MayHappen(e), e.sock # Closer, NEW f, MayHappen(f), f.sock # Closer,
           Origin(e) \cap Origin(f) = {}, DOMAIN evs = 1 .. 2, evs[1] = Named(e), evs[2] = Named(f)
    PROVE  MayReturn(evs, 2) /\ \A s : (\E i \in 1 .. 2 : evs[i].sock = s) <=> e.sock = s \/ f.sock = s
<1>1. 2 <= limit
  BY LimitIs DEF ListenerInv
<1>2. /\ evs[1].sock \in added /\ evs[1].sock = e.sock
      /\ backend = "epoll" => evs[1].what \cap Dirs \subseteq asked[evs[1].sock]
      /\ evs[1].what \cap Dirs = e.what \cap Dirs
  BY FromKernel
<1>3. /\ evs[2].sock \in added /\ evs[2].sock = f.sock
      /\ backend = "epoll" => evs[2].what \cap Dirs \subseteq asked[evs[2].sock]
      /\ evs[2].what \cap Dirs = f.what \cap Dirs
  BY FromKernel
<1>4. ASSUME e.sock = f.sock
      PROVE  backend = "kqueue" /\ (e.what \cap Dirs) \cap (f.what \cap Dirs) = {}
  <2>1. CASE backend = "epoll"
    <3>1. <<e.sock, "entry">> \in Origin(e) /\ <<e.sock, "entry">> \in Origin(f)
      BY <1>4, <2>1 DEF Origin
    <3>2. QED
      BY <3>1
  <2>2. CASE backend = "kqueue"
    <3>1. ASSUME NEW d \in (e.what \cap Dirs) \cap (f.what \cap Dirs)
          PROVE  FALSE
      <4>1. <<e.sock, d>> \in Origin(e) /\ <<e.sock, d>> \in Origin(f)
        BY <1>4, <2>2 DEF Origin
      <4>2. QED
        BY <4>1
    <3>2. QED
      BY <2>2, <3>1
  <2>3. QED
    BY <2>1, <2>2
<1>5. evs[1].sock = evs[2].sock => backend = "kqueue" /\ evs[1].what \cap evs[2].what \cap Dirs = {}
  BY <1>2, <1>3, <1>4
<1>6. evs[2].sock = evs[1].sock => backend = "kqueue" /\ evs[2].what \cap evs[1].what \cap Dirs = {}
  BY <1>5
<1>7. \A i \in 1 .. 2 : i = 1 \/ i = 2
  OBVIOUS
<1>8. ASSUME NEW i \in 1 .. 2
      PROVE  /\ evs[i].sock \in added
             /\ backend = "epoll" => evs[i].what \cap Dirs \subseteq asked[evs[i].sock]
             /\ \A k \in 1 .. 2 : evs[i].sock = evs[k].sock /\ i # k =>
                  backend = "kqueue" /\ evs[i].what \cap evs[k].what \cap Dirs = {}
  BY <1>2, <1>3, <1>5, <1>6, <1>7
<1>9. MayReturn(evs, 2)
  BY <1>1, <1>8 DEF MayReturn
<1>10. QED
  BY <1>2, <1>3, <1>7, <1>9

\* What run does with the events the kernel gave it.
NamedAll(raw) == [i \in DOMAIN raw |-> Named(raw[i])]
Passed(raw) == Returned(Scattered([k \in 1 .. limit |-> NoSlot], NamedAll(raw)), raw)

LEMMA PassedIs ==
    ASSUME ListenerInv, backend \in {"epoll", "kqueue"}, NEW raw \in RawBatches
    PROVE  \E n : /\ MayReturn(Passed(raw), n)
                  /\ \A s \in LSocks : (\E i \in 1 .. n : Passed(raw)[i].sock = s) <=> Reported(raw, s)
<1> DEFINE slots == [k \in 1 .. limit |-> NoSlot]
<1> DEFINE sc == Scattered(slots, NamedAll(raw))
<1> DEFINE evs == Passed(raw)
<1>1. ListenerTypeOK /\ li \in Listener /\ limit \in Nat /\ limit >= 1
  BY LimitIs DEF ListenerInv, ListenerTypeOK
<1>2. \A e \in KernelEvents : MayHappen(e)
  BY <1>1, KernelEventIs
<1>3. \A n \in Nat : SubSeq(sc, 1, n) = [k \in 1 .. n |-> sc[k]]
  OBVIOUS
<1>4. evs = SubSeq(sc, 1, Len(raw) - Off(raw, Len(raw)))
  BY DEF Passed, Returned
<1>5. DOMAIN slots = 1 .. limit
  OBVIOUS
<1> HIDE DEF slots, sc, evs
<1>6. CASE raw = <<>>
  <2>1. Len(raw) = 0 /\ DOMAIN raw = {} /\ Off(raw, 0) = 0
    BY <1>6 DEF Off
  <2>2. evs = [k \in 1 .. 0 |-> sc[k]]
    BY <1>3, <1>4, <2>1
  <2>3. MayReturn(evs, 0)
    BY <1>1, <2>2 DEF MayReturn
  <2>4. QED
    BY <2>1, <2>3 DEF Reported, evs
<1>7. ASSUME NEW e \in KernelEvents, raw = <<e>>
      PROVE  \E n : MayReturn(evs, n) /\ \A s \in LSocks : (\E i \in 1 .. n : evs[i].sock = s) <=> Reported(raw, s)
  <2>1. Len(raw) = 1 /\ DOMAIN raw = 1 .. 1 /\ raw[1] = e
    BY <1>7
  <2>2. \A s : Reported(raw, s) <=> e.sock = s
    BY <2>1 DEF Reported
  <2>3. CASE e.sock = Closer
    <3>1. Off(raw, 1) = 1
      BY <2>1, <2>3 DEF Off
    <3>2. evs = [k \in 1 .. 0 |-> sc[k]]
      BY <1>3, <1>4, <2>1, <3>1
    <3>3. MayReturn(evs, 0)
      BY <1>1, <3>2 DEF MayReturn
    <3>4. QED
      BY <2>2, <2>3, <3>3, SocksAssumption
  <2>4. CASE e.sock # Closer
    <3>1. Off(raw, 1) = 0
      BY <2>1, <2>4 DEF Off
    <3> DEFINE nr == NamedAll(raw)
    <3>2. DOMAIN nr = 1 .. 1 /\ nr[1] = Named(e) /\ nr[1].sock # Closer
      BY <1>2, <2>1, <2>4, NamedIs DEF NamedAll
    <3> HIDE DEF nr
    <3>3. Off(nr, 1) = 0
      BY <3>2 DEF Off
    <3>4. {x \in DOMAIN nr : nr[x].sock # Closer /\ x - Off(nr, x) = 1} = {1}
      BY <3>2, <3>3
    <3>5. sc[1] = Named(e)
      BY <1>1, <1>5, <3>2, <3>4, OneSlot DEF sc, nr
    <3>6. DOMAIN evs = 1 .. 1 /\ evs[1] = Named(e)
      BY <1>3, <1>4, <2>1, <3>1, <3>5
    <3>7. MayReturn(evs, 1) /\ \A s : (\E i \in 1 .. 1 : evs[i].sock = s) <=> e.sock = s
      BY <1>2, <2>4, <3>6, OneReturned
    <3>8. QED
      BY <2>2, <3>7
  <2>5. QED
    BY <2>3, <2>4
<1>8. ASSUME NEW e \in KernelEvents, NEW f \in KernelEvents, raw = <<e, f>>, limit >= 2, Origin(e) \cap Origin(f) = {}
      PROVE  \E n : MayReturn(evs, n) /\ \A s \in LSocks : (\E i \in 1 .. n : evs[i].sock = s) <=> Reported(raw, s)
  <2>1. Len(raw) = 2 /\ DOMAIN raw = 1 .. 2 /\ raw[1] = e /\ raw[2] = f
    BY <1>8
  <2>2. \A s : Reported(raw, s) <=> e.sock = s \/ f.sock = s
    BY <2>1 DEF Reported
  <2> DEFINE nr == NamedAll(raw)
  <2>3. DOMAIN nr = 1 .. 2 /\ nr[1] = Named(e) /\ nr[2] = Named(f) /\ nr[1].sock = e.sock /\ nr[2].sock = f.sock
    BY <1>2, <2>1, NamedIs DEF NamedAll
  <2>4. sc = Scattered(slots, nr)
    BY DEF sc
  <2> HIDE DEF nr
  <2>5. /\ Off(nr, 1) = (IF e.sock = Closer THEN 1 ELSE 0)
        /\ Off(nr, 2) = (IF e.sock = Closer \/ f.sock = Closer THEN 1 ELSE 0)
        /\ Off(raw, 2) = (IF e.sock = Closer \/ f.sock = Closer THEN 1 ELSE 0)
    BY <2>1, <2>3 DEF Off
  <2>6. CASE e.sock # Closer /\ f.sock # Closer
    <3>1. {x \in DOMAIN nr : nr[x].sock # Closer /\ x - Off(nr, x) = 1} = {1}
      BY <2>3, <2>5, <2>6
    <3>2. {x \in DOMAIN nr : nr[x].sock # Closer /\ x - Off(nr, x) = 2} = {2}
      BY <2>3, <2>5, <2>6
    <3>3. sc[1] = Named(e) /\ sc[2] = Named(f)
      BY <1>1, <1>5, <1>8, <2>3, <2>4, <3>1, <3>2, OneSlot
    <3>4. DOMAIN evs = 1 .. 2 /\ evs[1] = Named(e) /\ evs[2] = Named(f)
      BY <1>3, <1>4, <2>1, <2>5, <2>6, <3>3
    <3>5. MayReturn(evs, 2) /\ \A s : (\E i \in 1 .. 2 : evs[i].sock = s) <=> e.sock = s \/ f.sock = s
      BY <1>2, <1>8, <2>6, <3>4, TwoReturned
    <3>6. QED
      BY <2>2, <3>5
  <2>7. CASE e.sock # Closer /\ f.sock = Closer
    <3>1. {x \in DOMAIN nr : nr[x].sock # Closer /\ x - Off(nr, x) = 1} = {1}
      BY <2>3, <2>5, <2>7
    <3>2. sc[1] = Named(e)
      BY <1>1, <1>5, <2>3, <2>4, <3>1, OneSlot
    <3>3. DOMAIN evs = 1 .. 1 /\ evs[1] = Named(e)
      BY <1>3, <1>4, <2>1, <2>5, <2>7, <3>2
    <3>4. MayReturn(evs, 1) /\ \A s : (\E i \in 1 .. 1 : evs[i].sock = s) <=> e.sock = s
      BY <1>2, <2>7, <3>3, OneReturned
    <3>5. QED
      BY <2>2, <2>7, <3>4, SocksAssumption
  <2>8. CASE e.sock = Closer
    <3>1. f.sock # Closer
      <4>1. ASSUME f.sock = Closer
            PROVE  FALSE
        <5>1. e.what = {"READ"} /\ f.what = {"READ"}
          BY <1>2, <2>8, <4>1 DEF MayHappen
        <5>2. Origin(e) = Origin(f) /\ <<Closer, IF backend = "kqueue" THEN "READ" ELSE "entry">> \in Origin(e)
          BY <2>8, <4>1, <5>1 DEF Origin, Dirs
        <5>3. QED
          BY <1>8, <5>2
      <4>2. QED
        BY <4>1
    <3>2. {x \in DOMAIN nr : nr[x].sock # Closer /\ x - Off(nr, x) = 1} = {2}
      BY <2>3, <2>5, <2>8, <3>1
    <3>3. sc[1] = Named(f)
      BY <1>1, <1>5, <2>3, <2>4, <3>2, OneSlot
    <3>4. DOMAIN evs = 1 .. 1 /\ evs[1] = Named(f)
      BY <1>3, <1>4, <2>1, <2>5, <2>8, <3>3
    <3>5. MayReturn(evs, 1) /\ \A s : (\E i \in 1 .. 1 : evs[i].sock = s) <=> f.sock = s
      BY <1>2, <3>1, <3>4, OneReturned
    <3>6. QED
      BY <2>2, <2>8, <3>5, SocksAssumption
  <2>9. QED
    BY <2>6, <2>7, <2>8
<1>9. \/ raw = <<>>
      \/ \E e \in KernelEvents : raw = <<e>>
      \/ \E e, f \in KernelEvents : raw = <<e, f>> /\ limit >= 2 /\ Origin(e) \cap Origin(f) = {}
  BY <1>1 DEF RawBatches
<1>10. QED
  BY <1>6, <1>7, <1>8, <1>9 DEF evs

LEMMA KernelRunKeeps ==
    ASSUME ListenerInv, backend # "select", NEW raw \in RawBatches, KernelRun(raw)
    PROVE  ListenerInv'
<1> DEFINE gone(s) == UNION {raw[i].what : i \in {j \in DOMAIN raw : raw[j].sock = s}}
<1> DEFINE ww == [s \in LSocks |-> IF backend = "epoll" /\ Reported(raw, s) THEN {} ELSE li.watch[s] \ gone(s)]
<1> DEFINE on == {s \in li.on : ~Reported(raw, s)}
<1> DEFINE pp == li.poked /\ (backend = "kqueue" \/ ~Reported(raw, Closer))
<1>1. ListenerTypeOK /\ li \in Listener /\ backend \in {"epoll", "kqueue"}
  BY DEF ListenerInv, ListenerTypeOK
<1>2. /\ Reports(Passed(raw))
      /\ backend' = backend /\ limit' = limit /\ added' = added /\ shut' = shut /\ pick' = pick
  BY DEF KernelRun, Passed, NamedAll
<1>3. PICK n : /\ MayReturn(Passed(raw), n)
               /\ \A s \in LSocks : (\E i \in 1 .. n : Passed(raw)[i].sock = s) <=> Reported(raw, s)
  BY <1>1, PassedIs
<1>4. /\ ToldOK' /\ asked' \in [LSocks -> SUBSET Dirs]
      /\ \A s \in LSocks : asked'[s] = IF Reported(raw, s) THEN {} ELSE asked[s]
  BY <1>1, <1>2, <1>3, ReportsTold
<1>5. ww \in [LSocks -> SUBSET Dirs] /\ on \in SUBSET LSocks /\ pp \in BOOLEAN
  BY <1>1 DEF Listener
<1>6. ASSUME NEW s \in LSocks
      PROVE  /\ ww[s] \subseteq li.watch[s]
             /\ ~Reported(raw, s) => ww[s] = li.watch[s]
  <2>1. ~Reported(raw, s) => gone(s) = {}
    BY DEF Reported
  <2>2. QED
    BY <2>1
<1>7. li' = [li EXCEPT !.poked = pp, !.on = on, !.watch = ww]
  BY <1>1 DEF KernelRun, Listener
<1> HIDE DEF ww, on, pp
<1>8. li' \in Listener /\ li'.on = on /\ li'.watch = ww
  BY <1>1, <1>5, <1>7 DEF Listener
<1>9. ListenerTypeOK'
  BY <1>1, <1>2, <1>4, <1>8 DEF ListenerTypeOK
<1>10. EpollOK'
  <2>1. ASSUME NEW s \in on, backend = "epoll"
        PROVE  s \in added /\ s \notin shut /\ ww[s] = asked'[s]
    <3>1. s \in li.on /\ ~Reported(raw, s) /\ s \in LSocks
      BY <1>1, <2>1 DEF on, Listener
    <3>2. QED
      BY <1>4, <1>6, <2>1, <3>1 DEF ListenerInv, EpollOK
  <2>2. QED
    BY <1>2, <1>8, <2>1 DEF EpollOK
<1>11. KqueueOK'
  <2>1. ASSUME NEW s \in LSocks, ww[s] # {}
        PROVE  li.watch[s] # {}
    BY <1>6, <2>1
  <2>2. QED
    BY <1>2, <1>8, <2>1 DEF ListenerInv, KqueueOK
<1>12. SelectOK' /\ PickOK'
  BY <1>1, <1>2 DEF ListenerInv, SelectOK, PickOK
<1>13. AskedOK'
  <2>1. ASSUME NEW s \in added \ shut, ~Reported(raw, s)
        PROVE  Held(s)' = Held(s)
    <3>1. s \in LSocks /\ ww[s] = li.watch[s]
      BY <1>1, <1>6, <2>1 DEF ListenerTypeOK
    <3>2. s \in on <=> s \in li.on
      BY <2>1 DEF on
    <3>3. QED
      BY <1>1, <1>2, <1>8, <3>1, <3>2 DEF Held
  <2>2. QED
    BY <1>1, <1>2, <1>4, <2>1 DEF AskedOK, ListenerInv, ListenerTypeOK
<1>14. QED
  BY <1>4, <1>9, <1>10, <1>11, <1>12, <1>13 DEF ListenerInv

\* For any number of sockets and any max_events, whatever the other threads add,
\* rearm, close and remove while run waits: run never returns more than it was asked
\* for, nor an event of a socket that is not registered, nor one socket (kqueue: one
\* direction of it) twice in a call; what a socket was armed for and was not told stays
\* in the kernel's sets or in select's buffers, and the counters of those are right.
THEOREM ListenersKeep == ListenerSpec => []ListenerKeeps
<1>1. ListenerInit => ListenerInv
  <2> SUFFICES ASSUME ListenerInit PROVE ListenerInv
    OBVIOUS
  <2>1. li \in Listener /\ ListenerTypeOK
    BY DEF ListenerInit, NewListener, NoDirs, Listener, ListenerTypeOK, AtRest
  <2>2. EpollOK /\ KqueueOK /\ PickOK /\ AskedOK
    BY DEF ListenerInit, NewListener, NoDirs, EpollOK, KqueueOK, PickOK, AskedOK, AtRest
  <2>3. SelectOK
    <3>1. ASSUME NEW d \in Dirs PROVE InBuf(li, d) = {} /\ li.cnt[d] = 0
      BY DEF InBuf, ListenerInit, NewListener
    <3>2. QED
      BY <3>1, FS_EmptySet DEF SelectOK, ListenerInit, NewListener, NoDirs
  <2>4. ToldOK
    <3>1. told = <<>> /\ Len(told) = 0 /\ DOMAIN told = {}
      BY DEF ListenerInit
    <3>2. QED
      BY <2>1, <3>1, LimitIs DEF ToldOK
  <2>5. QED
    BY <2>1, <2>2, <2>3, <2>4 DEF ListenerInv
<1>2. ListenerInv /\ [ListenerNext]_liVars => ListenerInv'
  <2> SUFFICES ASSUME ListenerInv, [ListenerNext]_liVars PROVE ListenerInv'
    OBVIOUS
  <2>1. CASE UNCHANGED liVars
    BY <2>1 DEF liVars, ListenerInv, ListenerTypeOK, EpollOK, KqueueOK, SelectOK, InBuf, PickOK, AskedOK, Held, ToldOK
  <2>2. CASE \E s \in LSocks, want \in SUBSET Dirs : ListenerAdd(s, want) \/ ListenerRearm(s, want)
    BY <2>2, AddKeeps, RearmKeeps
  <2>3. CASE \E s \in LSocks : CloseListened(s) \/ ListenerRemove(s)
    BY <2>3, CloseKeeps, RemoveKeeps
  <2>4. CASE ListenerInterrupt
    BY <2>4, InterruptKeeps
  <2>5. CASE \E raw \in IF backend = "select" THEN {} ELSE RawBatches : KernelRun(raw)
    BY <2>5, KernelRunKeeps
  <2>6. CASE \E c \in SUBSET LSocks : SelectBuffered(c) \/ SelectHandle(c)
    BY <2>6, BufferedKeeps, HandleKeeps
  <2>7. CASE SelectCopy \/ \E ready \in [LSocks -> SUBSET Dirs] : SelectReturns(ready)
    BY <2>7, WaitKeeps
  <2>8. QED
    BY <2>1, <2>2, <2>3, <2>4, <2>5, <2>6, <2>7 DEF ListenerNext
<1>3. ListenerInv => ListenerKeeps
  BY DEF ListenerInv, ListenerKeeps, AskedOK, ToldOK, SelectOK, InBuf
<1>4. QED
  BY <1>1, <1>2, <1>3, PTL DEF ListenerSpec
=============================================================================
