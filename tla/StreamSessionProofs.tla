------------------------- MODULE StreamSessionProofs -------------------------
(***************************************************************************)
(* The life of a connection of the threaded stream server: when every      *)
(* connection waits for one direction at a time, nothing that will be      *)
(* dereferenced points to a freed socket, and the callbacks of a           *)
(* connection keep their order.                                            *)
(***************************************************************************)
EXTENDS StreamServerProofs

USE DEF sockVars, netVars, mainVars, listVars, ctlVars, lockVars, workVars,
        appVars

\* The premise of the theorems: connections are used by their own callbacks
\* only, and the connected callback neither asks for write events nor writes,
\* so that a connection waits for one direction at a time.  The NM and HTTP
\* servers use the stream server in this way; stream_greeting shows what
\* happens when the connected callback writes.
OneDirection ==
    /\ Apps = {}
    /\ "write" \notin ConnectResults
    /\ \A n \in ConnectFlags : "NBL_WRITE" \notin n

-----------------------------------------------------------------------------
(* The invariant.                                                          *)
(*                                                                         *)
(* A connection in service has one token, and it is in one place: its      *)
(* interest in the listener, an event of the batch, an event of the queue, *)
(* or a worker that handles such an event.  Ending a connection takes its  *)
(* token out of the game; then its socket passes from the worker to the    *)
(* release list and to main, and the last reference frees it.              *)

Elems(q) == {q[i] : i \in DOMAIN q}

NoDuplicates(q) == \A i, j \in DOMAIN q : q[i] = q[j] => i = j

OnceIn(q) == \A i, j \in DOMAIN q : q[i].sock = q[j].sock => i = j

\* Points where a worker holds the token of its socket.
ActivePcs == EventPcs \ {"unlock", "unref"}

Active(w) == wpc[w] \in ActivePcs

OneToken ==
    /\ OnceIn(events)
    /\ \A b, c \in batch : b.sock = c.sock => b = c
    /\ \A w, v \in Workers : Active(w) /\ Active(v) /\ S(w) = S(v) => w = v
    /\ \A w \in Workers : Active(w) =>
         /\ armed[S(w)] = {}
         /\ \A e \in Elems(events) : e.sock # S(w)
         /\ \A b \in batch : b.sock # S(w)
    /\ \A e \in Elems(events) :
         armed[e.sock] = {} /\ \A b \in batch : b.sock # e.sock
    /\ \A b \in batch : armed[b.sock] = {}

BothWays(f) == {"NBL_READ", "NBL_WRITE"} \subseteq f

\* No connection waits for both directions.
OneWay ==
    /\ \A s \in Socks : ~BothWays(flags[s]) /\ ~({"IN", "OUT"} \subseteq armed[s])
    /\ \A b \in batch : {"READ", "WRITE"} \subseteq b.types => "CLOSED" \in b.types

\* Not yet on its way to be freed.
Held(s) ==
    life[s] = "live" /\ s \notin Elems(release) /\ "FREE_ON_UNREF" \notin flags[s]

\* Just accepted, or in service.
Handed(e) ==
    IF e.type = "ACCEPTED"
    THEN /\ Held(e.sock) /\ flags[e.sock] = {}
         /\ sess[e.sock] = "none" /\ e.sock \notin cons
    ELSE e.sock \in cons

\* What a worker knows of its socket at each point.
Phase(w) ==
    LET s == S(w)
        pc == wpc[w]
    IN  /\ pc # "abort"
        /\ pc = "trylock" => Handed(wev[w])
        /\ pc \in {"state", "requeue"} => wev[w].type # "ACCEPTED"
        /\ pc \in {"state", "requeue", "canread", "canwrite", "check", "rearm"} =>
             s \in cons
        /\ pc \in {"accept", "connected"} =>
             Held(s) /\ sess[s] = "none" /\ s \notin cons /\ "NBL_WRITE" \notin flags[s]
        /\ pc \in {"acheck", "add"} =>
             Held(s) /\ sess[s] = "open" /\ s \notin cons /\ "NBL_WRITE" \notin flags[s]
        /\ pc \in {"error", "closed"} => Held(s) /\ sess[s] = "open"
        /\ pc = "disc" => Held(s) /\ sess[s] = "open" /\ s \notin cons
        /\ pc = "free" => Held(s) /\ sess[s] # "open" /\ s \notin cons

Places ==
    /\ main # "done" => \A s \in Socks : armed[s] # {} => s \in cons
    /\ \A b \in batch : b.sock \in cons
    /\ \A e \in Elems(events) : Handed(e)
    /\ \A w \in Workers : Phase(w)

\* Connections in service, sockets in the release list, and after it.
Fates ==
    /\ \A s \in cons : Held(s) /\ sess[s] = "open"
    /\ NoDuplicates(release)
    /\ \A s \in Elems(release) :
         /\ life[s] = "live" /\ sess[s] # "open" /\ s \notin cons
         /\ "FREE_ON_UNREF" \notin flags[s]
    /\ \A s \in Socks :
         /\ life[s] \in {"none", "pending"} => flags[s] = {} /\ sess[s] = "none"
         /\ "FREE_ON_UNREF" \in flags[s] =>
              sess[s] # "open" /\ (life[s] = "freed" <=> ref[s] = 0)
         /\ life[s] = "freed" =>
              sess[s] # "open" /\ (main # "done" => "FREE_ON_UNREF" \in flags[s])

\* How far main and the workers are with the shutdown.
Stages ==
    /\ batch # {} => main \in {"queued", "release", "dispatch"}
    /\ relay = <<>>
    /\ drainRun <=> main \in {"join", "clean", "done"}
    /\ main \in {"dclose", "join", "clean", "done"} => prepared = Workers
    /\ \A w \in Workers :
         IF w \in prepared
         THEN IF drainRun THEN wpc[w] \in EventPcs \cup {"await", "drain", "end"}
              ELSE wpc[w] = "await"
         ELSE wpc[w] \notin {"await", "drain", "end"}
    /\ main \in {"clean", "done"} => \A w \in Workers : wpc[w] = "end"
    /\ main = "done" => events = <<>> /\ release = <<>> /\ cons = {}

SessionInv == OneToken /\ OneWay /\ Places /\ Fates /\ Stages

-----------------------------------------------------------------------------
(* Lists *)

LEMMA ElemsType ==
    ASSUME NEW T, NEW q \in Seq(T)
    PROVE  Elems(q) \subseteq T
BY DEF Elems

LEMMA ElemsEmpty == Elems(<<>>) = {} /\ OnceIn(<<>>)
BY DEF Elems, OnceIn

LEMMA ElemsAppend ==
    ASSUME NEW T, NEW q \in Seq(T), NEW e \in T
    PROVE  Elems(Append(q, e)) = Elems(q) \cup {e}
<1>1. /\ DOMAIN q = 1 .. Len(q) /\ Len(q) \in Nat
      /\ DOMAIN Append(q, e) = 1 .. (Len(q) + 1)
      /\ \A i \in 1 .. Len(q) : Append(q, e)[i] = q[i]
      /\ Append(q, e)[Len(q) + 1] = e
  OBVIOUS
<1>2. \A i \in 1 .. (Len(q) + 1) : i \in 1 .. Len(q) \/ i = Len(q) + 1
  BY <1>1
<1>3. \A i \in 1 .. Len(q) : i \in 1 .. (Len(q) + 1)
  BY <1>1
<1>4. Len(q) + 1 \in 1 .. (Len(q) + 1)
  BY <1>1
<1>5. Elems(Append(q, e)) \subseteq Elems(q) \cup {e}
  BY <1>1, <1>2 DEF Elems
<1>6. Elems(q) \cup {e} \subseteq Elems(Append(q, e))
  BY <1>1, <1>3, <1>4 DEF Elems
<1>7. QED
  BY <1>5, <1>6

LEMMA OnceAppend ==
    ASSUME NEW q \in Seq(Event), NEW e \in Event, OnceIn(q),
           \A d \in Elems(q) : d.sock # e.sock
    PROVE  OnceIn(Append(q, e))
<1>1. /\ DOMAIN q = 1 .. Len(q) /\ Len(q) \in Nat
      /\ DOMAIN Append(q, e) = 1 .. (Len(q) + 1)
      /\ \A i \in 1 .. Len(q) : Append(q, e)[i] = q[i]
      /\ Append(q, e)[Len(q) + 1] = e
  OBVIOUS
<1>2. \A i \in 1 .. (Len(q) + 1) : i \in 1 .. Len(q) \/ i = Len(q) + 1
  BY <1>1
<1>3. \A i \in 1 .. Len(q) : q[i].sock # e.sock
  BY <1>1 DEF Elems
<1>4. QED
  BY <1>1, <1>2, <1>3 DEF OnceIn

LEMMA ElemsTail ==
    ASSUME NEW T, NEW q \in Seq(T), q # <<>>
    PROVE  /\ Elems(q) = Elems(Tail(q)) \cup {Head(q)}
           /\ Head(q) \in Elems(q)
           /\ Elems(Tail(q)) \subseteq Elems(q)
<1>1. /\ DOMAIN q = 1 .. Len(q) /\ Len(q) \in Nat \ {0}
      /\ DOMAIN Tail(q) = 1 .. (Len(q) - 1)
      /\ \A i \in 1 .. (Len(q) - 1) : Tail(q)[i] = q[i + 1]
      /\ Head(q) = q[1]
  OBVIOUS
<1>2. \A i \in 1 .. Len(q) : i = 1 \/ (i - 1 \in 1 .. (Len(q) - 1) /\ (i - 1) + 1 = i)
  BY <1>1
<1>3. 1 \in 1 .. Len(q) /\ \A i \in 1 .. (Len(q) - 1) : i + 1 \in 1 .. Len(q)
  BY <1>1
<1>4. Elems(q) \subseteq Elems(Tail(q)) \cup {Head(q)}
  <2>1. ASSUME NEW i \in 1 .. Len(q) PROVE q[i] \in Elems(Tail(q)) \cup {Head(q)}
    <3>1. CASE i = 1
      BY <1>1, <3>1
    <3>2. CASE i - 1 \in 1 .. (Len(q) - 1) /\ (i - 1) + 1 = i
      <4>1. Tail(q)[i - 1] = q[i]
        BY <1>1, <3>2
      <4>2. QED
        BY <1>1, <3>2, <4>1 DEF Elems
    <3>3. QED
      BY <1>2, <3>1, <3>2
  <2>2. QED
    BY <1>1, <2>1 DEF Elems
<1>5. Elems(Tail(q)) \subseteq Elems(q) /\ Head(q) \in Elems(q)
  BY <1>1, <1>3 DEF Elems
<1>6. QED
  BY <1>4, <1>5

\* The events left in the queue are not of the socket of the polled one.
LEMMA OnceTail ==
    ASSUME NEW q \in Seq(Event), q # <<>>, OnceIn(q)
    PROVE  OnceIn(Tail(q)) /\ \A e \in Elems(Tail(q)) : e.sock # Head(q).sock
<1>1. /\ DOMAIN q = 1 .. Len(q) /\ Len(q) \in Nat \ {0}
      /\ DOMAIN Tail(q) = 1 .. (Len(q) - 1)
      /\ \A i \in 1 .. (Len(q) - 1) : Tail(q)[i] = q[i + 1]
      /\ Head(q) = q[1]
  OBVIOUS
<1>2. 1 \in 1 .. Len(q) /\ \A i \in 1 .. (Len(q) - 1) : i + 1 \in 1 .. Len(q) /\ i + 1 # 1
  BY <1>1
<1>3. OnceIn(Tail(q))
  <2>1. ASSUME NEW i \in 1 .. (Len(q) - 1), NEW j \in 1 .. (Len(q) - 1),
               Tail(q)[i].sock = Tail(q)[j].sock
        PROVE  i = j
    <3>1. q[i + 1].sock = q[j + 1].sock
      BY <1>1, <2>1
    <3>2. i + 1 = j + 1
      BY <1>1, <1>2, <3>1 DEF OnceIn
    <3>3. QED
      BY <1>1, <3>2
  <2>2. QED
    BY <1>1, <2>1 DEF OnceIn
<1>4. ASSUME NEW i \in 1 .. (Len(q) - 1) PROVE Tail(q)[i].sock # Head(q).sock
  BY <1>1, <1>2 DEF OnceIn
<1>5. QED
  BY <1>1, <1>3, <1>4 DEF Elems

\* The same for the release list.
LEMMA NoDupAppend ==
    ASSUME NEW T, NEW q \in Seq(T), NEW e \in T, NoDuplicates(q), e \notin Elems(q)
    PROVE  NoDuplicates(Append(q, e))
<1>1. /\ DOMAIN q = 1 .. Len(q) /\ Len(q) \in Nat
      /\ DOMAIN Append(q, e) = 1 .. (Len(q) + 1)
      /\ \A i \in 1 .. Len(q) : Append(q, e)[i] = q[i]
      /\ Append(q, e)[Len(q) + 1] = e
  OBVIOUS
<1>2. \A i \in 1 .. (Len(q) + 1) : i \in 1 .. Len(q) \/ i = Len(q) + 1
  BY <1>1
<1>3. \A i \in 1 .. Len(q) : q[i] # e
  BY <1>1 DEF Elems
<1>4. QED
  BY <1>1, <1>2, <1>3 DEF NoDuplicates

LEMMA NoDupTail ==
    ASSUME NEW T, NEW q \in Seq(T), q # <<>>, NoDuplicates(q)
    PROVE  NoDuplicates(Tail(q)) /\ Head(q) \notin Elems(Tail(q))
<1>1. /\ DOMAIN q = 1 .. Len(q) /\ Len(q) \in Nat \ {0}
      /\ DOMAIN Tail(q) = 1 .. (Len(q) - 1)
      /\ \A i \in 1 .. (Len(q) - 1) : Tail(q)[i] = q[i + 1]
      /\ Head(q) = q[1]
  OBVIOUS
<1>2. 1 \in 1 .. Len(q) /\ \A i \in 1 .. (Len(q) - 1) : i + 1 \in 1 .. Len(q) /\ i + 1 # 1
  BY <1>1
<1>3. NoDuplicates(Tail(q))
  <2>1. ASSUME NEW i \in 1 .. (Len(q) - 1), NEW j \in 1 .. (Len(q) - 1),
               Tail(q)[i] = Tail(q)[j]
        PROVE  i = j
    <3>1. q[i + 1] = q[j + 1]
      BY <1>1, <2>1
    <3>2. i + 1 = j + 1
      BY <1>1, <1>2, <3>1 DEF NoDuplicates
    <3>3. QED
      BY <1>1, <3>2
  <2>2. QED
    BY <1>1, <2>1 DEF NoDuplicates
<1>4. ASSUME NEW i \in 1 .. (Len(q) - 1) PROVE Tail(q)[i] # Head(q)
  BY <1>1, <1>2 DEF NoDuplicates
<1>5. QED
  BY <1>1, <1>3, <1>4 DEF Elems

-----------------------------------------------------------------------------
(* Workers inside a handler *)

\* The socket of a worker that holds its token is not on its way to be freed.
LEMMA ActiveHeld ==
    ASSUME TypeOK, SessionInv, NEW w \in Workers, Active(w)
    PROVE  S(w) \in Socks /\ wev[w] \in Event /\ Held(S(w))
<1>1. S(w) \in Socks /\ wev[w] \in Event
  BY EventOwned DEF Active, ActivePcs
<1>2. \A s \in cons : Held(s)
  BY DEF SessionInv, Fates
<1>3. Phase(w) /\ wpc[w] \in ActivePcs
  BY DEF SessionInv, Places, Active
<1>4. wpc[w] = "trylock" => Held(S(w))
  BY <1>2, <1>3 DEF Phase, Handed, S
<1>5. wpc[w] # "trylock" => Held(S(w))
  BY <1>2, <1>3 DEF Phase, ActivePcs, EventPcs, SectionPcs
<1>6. QED
  BY <1>1, <1>4, <1>5

\* A step of a handler: it changes the worker's own socket only ...
LocalStep(w) ==
    /\ UNCHANGED <<life, ref, main, batch, events, relay, release, prepared,
                   drainRun, wev>>
    /\ wpc'[w] \in EventPcs
    /\ \A v \in Workers \ {w} : wpc'[v] = wpc[v]
    /\ \A s \in Socks \ {S(w)} :
         /\ flags'[s] = flags[s] /\ armed'[s] = armed[s] /\ sess'[s] = sess[s]
         /\ s \in cons' <=> s \in cons

\* ... and leaves it in the state the next point asks for.
LocalGoal(w) ==
    LET s == S(w) IN
    /\ "FREE_ON_UNREF" \notin flags'[s] /\ ~BothWays(flags'[s])
    /\ wpc'[w] \in ActivePcs => armed'[s] = {}
    /\ armed'[s] # {} => s \in cons'
    /\ ~({"IN", "OUT"} \subseteq armed'[s])
    /\ s \in cons' => sess'[s] = "open"
    /\ Phase(w)'

LEMMA HandlerFrame ==
    ASSUME TypeOK, TypeOK', SessionInv, NEW w \in Workers, Active(w),
           LocalStep(w), LocalGoal(w)
    PROVE  SessionInv'
<1>0. /\ S(w) \in Socks /\ Held(S(w)) /\ wpc[w] \in EventPcs
      /\ \A v \in Workers : S(v)' = S(v) /\ wev'[v] = wev[v]
      /\ \A v \in Workers \ {w} : wpc'[v] = wpc[v] /\ Active(v)' = Active(v)
      /\ \A v \in Workers \ {w} : Active(v) => S(v) \in Socks \ {S(w)}
      /\ \A e \in Elems(events) : e \in Event /\ e.sock \in Socks \ {S(w)}
      /\ \A b \in batch : b.sock \in Socks \ {S(w)}
  <2>1. S(w) \in Socks /\ Held(S(w)) /\ wpc[w] \in EventPcs
    BY ActiveHeld DEF Active, ActivePcs
  <2>2. /\ \A v \in Workers : S(v)' = S(v) /\ wev'[v] = wev[v]
        /\ \A v \in Workers \ {w} : wpc'[v] = wpc[v] /\ Active(v)' = Active(v)
    BY DEF LocalStep, S, Active
  <2>3. \A v \in Workers \ {w} : Active(v) => S(v) \in Socks \ {S(w)}
    BY ActiveHeld DEF SessionInv, OneToken
  <2>4. \A e \in Elems(events) : e \in Event /\ e.sock \in Socks \ {S(w)}
    <3>1. Elems(events) \subseteq Event
      BY ElemsType DEF TypeOK, ListsOK
    <3>2. QED
      BY <3>1 DEF SessionInv, OneToken, Event
  <2>5. \A b \in batch : b.sock \in Socks \ {S(w)}
    BY DEF SessionInv, OneToken, TypeOK, MainOK
  <2>6. QED
    BY <2>1, <2>2, <2>3, <2>4, <2>5
<1>1. /\ UNCHANGED <<life, ref, main, batch, events, relay, release, prepared, drainRun>>
      /\ wpc'[w] \in EventPcs
      /\ \A s \in Socks \ {S(w)} :
           /\ flags'[s] = flags[s] /\ armed'[s] = armed[s] /\ sess'[s] = sess[s]
           /\ s \in cons' <=> s \in cons
           /\ Held(s)' = Held(s)
  BY DEF LocalStep, Held
<1>2. OneToken'
  <2>1. OnceIn(events') /\ \A b, c \in batch' : b.sock = c.sock => b = c
    BY <1>1 DEF SessionInv, OneToken
  <2>2. \A u, v \in Workers : Active(u)' /\ Active(v)' /\ S(u)' = S(v)' => u = v
    BY <1>0 DEF SessionInv, OneToken
  <2>3. ASSUME NEW v \in Workers, Active(v)'
        PROVE  /\ armed'[S(v)'] = {}
               /\ \A e \in Elems(events') : e.sock # S(v)'
               /\ \A b \in batch' : b.sock # S(v)'
    <3>1. CASE v = w
      BY <1>0, <1>1, <2>3, <3>1 DEF LocalGoal, Active
    <3>2. CASE v # w
      BY <1>0, <1>1, <2>3, <3>2 DEF SessionInv, OneToken
    <3>3. QED
      BY <3>1, <3>2
  <2>4. \A e \in Elems(events') :
          armed'[e.sock] = {} /\ \A b \in batch' : b.sock # e.sock
    BY <1>0, <1>1 DEF SessionInv, OneToken
  <2>5. \A b \in batch' : armed'[b.sock] = {}
    BY <1>0, <1>1 DEF SessionInv, OneToken
  <2>6. QED
    BY <2>1, <2>2, <2>3, <2>4, <2>5 DEF OneToken
<1>3. OneWay'
  BY <1>0, <1>1 DEF LocalGoal, SessionInv, OneWay
<1>4. Places'
  <2>1. main' # "done" => \A s \in Socks : armed'[s] # {} => s \in cons'
    BY <1>0, <1>1 DEF LocalGoal, SessionInv, Places
  <2>2. \A b \in batch' : b.sock \in cons'
    BY <1>0, <1>1 DEF SessionInv, Places
  <2>3. ASSUME NEW e \in Elems(events') PROVE Handed(e)'
    BY <1>0, <1>1 DEF SessionInv, Places, Handed
  <2>4. ASSUME NEW v \in Workers PROVE Phase(v)'
    <3>1. CASE v = w
      BY <3>1 DEF LocalGoal
    <3>2. CASE v # w /\ Active(v)
      <4>1. Phase(v) /\ S(v) \in Socks \ {S(w)} /\ S(v)' = S(v)
        BY <1>0, <3>2 DEF SessionInv, Places
      <4>2. Handed(wev[v]) => Handed(wev[v])'
        BY <1>0, <1>1, <3>2, <4>1 DEF Handed, S
      <4>3. /\ wpc'[v] = wpc[v] /\ wev'[v] = wev[v] /\ sess'[S(v)] = sess[S(v)]
            /\ S(v) \in cons' <=> S(v) \in cons
            /\ Held(S(v)) => Held(S(v))'
            /\ flags'[S(v)] = flags[S(v)]
        BY <1>0, <1>1, <3>2, <4>1 DEF Held
      <4>4. QED
        BY <4>1, <4>2, <4>3 DEF Phase
    <3>3. CASE v # w /\ ~Active(v)
      BY <1>0, <3>3 DEF Phase, Active, ActivePcs, EventPcs, SectionPcs
    <3>4. QED
      BY <3>1, <3>2, <3>3
  <2>5. QED
    BY <2>1, <2>2, <2>3, <2>4 DEF Places
<1>5. Fates'
  <2>1. \A s \in cons' : Held(s)' /\ sess'[s] = "open"
    <3>1. Held(S(w))'
      BY <1>0, <1>1 DEF Held, LocalGoal
    <3>2. cons' \subseteq Socks
      BY DEF TypeOK, ListsOK
    <3>3. QED
      BY <1>0, <1>1, <3>1, <3>2 DEF LocalGoal, SessionInv, Fates
  <2>2. NoDuplicates(release')
    BY <1>1 DEF SessionInv, Fates
  <2>3. \A s \in Elems(release') :
          /\ life'[s] = "live" /\ sess'[s] # "open" /\ s \notin cons'
          /\ "FREE_ON_UNREF" \notin flags'[s]
    <3>1. Elems(release) \subseteq Socks
      BY ElemsType DEF TypeOK, ListsOK
    <3>2. S(w) \notin Elems(release)
      BY <1>0 DEF Held
    <3>3. QED
      BY <1>1, <3>1, <3>2 DEF SessionInv, Fates
  <2>4. ASSUME NEW s \in Socks
        PROVE  /\ life'[s] \in {"none", "pending"} => flags'[s] = {} /\ sess'[s] = "none"
               /\ "FREE_ON_UNREF" \in flags'[s] =>
                    sess'[s] # "open" /\ (life'[s] = "freed" <=> ref'[s] = 0)
               /\ life'[s] = "freed" =>
                    sess'[s] # "open" /\ (main' # "done" => "FREE_ON_UNREF" \in flags'[s])
    <3>1. CASE s = S(w)
      BY <1>0, <1>1, <3>1 DEF Held, LocalGoal
    <3>2. CASE s # S(w)
      BY <1>1, <3>2 DEF SessionInv, Fates
    <3>3. QED
      BY <3>1, <3>2
  <2>5. QED
    BY <2>1, <2>2, <2>3, <2>4 DEF Fates
<1>6. Stages'
  <2>1. main \notin {"clean", "done"}
    BY <1>0 DEF SessionInv, Stages, EventPcs, SectionPcs
  <2>2. "await" \notin EventPcs /\ "drain" \notin EventPcs /\ "end" \notin EventPcs
    BY DEF EventPcs, SectionPcs
  <2>3. QED
    BY <1>0, <1>1, <2>1, <2>2 DEF SessionInv, Stages
<1>7. QED
  BY <1>2, <1>3, <1>4, <1>5, <1>6 DEF SessionInv

-----------------------------------------------------------------------------
(* The handlers *)

\* No socket call sets FREE_ON_UNREF, and none asks for a second direction.
Calm(f, g) ==
    /\ "FREE_ON_UNREF" \notin f => "FREE_ON_UNREF" \notin g
    /\ ~BothWays(f) => ~BothWays(g)

LEMMA CloseCalm ==
    ASSUME NEW f
    PROVE  Calm(f, CloseState(f))
BY DEF Calm, BothWays, CloseState

LEMMA ReadCalm ==
    ASSUME NEW f, NEW r \in {"data", "again", "wants_write", "eof", "error"}
    PROVE  Calm(f, ReadState(f, r))
<1>1. ReadResult(r) \cap {"FREE_ON_UNREF", "NBL_READ", "NBL_WRITE"} = {}
  BY DEF ReadResult
<1>2. QED
  BY <1>1 DEF Calm, BothWays, ReadState, ReadAgain, NblWriteOnly

LEMMA WriteCalm ==
    ASSUME NEW s, NEW f, NEW o \in WriteEnds(s)
    PROVE  Calm(f, WriteState(f, o))
<1>1. o \in {"ok", "again", "wants_read", "error"}
  BY CallbackAssumption DEF WriteEnds
<1>2. WriteResult(o) \cap {"FREE_ON_UNREF", "NBL_READ", "NBL_WRITE"} = {}
  BY <1>1 DEF WriteResult
<1>3. QED
  BY <1>2 DEF Calm, BothWays, WriteState, WriteAgain, NblWriteOnly, NblReadOnly

LEMMA AfterCallbackCalm ==
    ASSUME NEW s, NEW f, NEW x \in {"none", "write", "close"},
           NEW g \in AfterCallback(s, f, x)
    PROVE  Calm(f, g)
<1>1. CASE x = "none"
  BY <1>1 DEF AfterCallback, Calm
<1>2. CASE x = "close"
  BY <1>2, CloseCalm DEF AfterCallback
<1>3. CASE x = "write"
  BY <1>3, WriteCalm DEF AfterCallback
<1>4. QED
  BY <1>1, <1>2, <1>3

\* What a handler may rely on at the point where it is.
LEMMA AtPoint ==
    ASSUME TypeOK, SessionInv, NEW w \in Workers, wpc[w] \in ActivePcs
    PROVE  /\ Active(w) /\ S(w) \in Socks /\ wev[w] \in Event
           /\ Held(S(w)) /\ ~BothWays(flags[S(w)]) /\ armed[S(w)] = {}
           /\ Phase(w) /\ (S(w) \in cons => sess[S(w)] = "open")
<1>1. Active(w)
  BY DEF Active
<1>2. S(w) \in Socks /\ wev[w] \in Event /\ Held(S(w))
  BY <1>1, ActiveHeld
<1>3. QED
  BY <1>1, <1>2 DEF SessionInv, OneToken, OneWay, Places, Fates

LEMMA StateSession ==
    ASSUME TypeOK, TypeOK', SessionInv, OneDirection, NEW w \in Workers, SockEventState(w)
    PROVE  SessionInv'
<1>1. /\ Active(w) /\ S(w) \in Socks /\ wev[w] \in Event
      /\ Held(S(w)) /\ ~BothWays(flags[S(w)]) /\ armed[S(w)] = {}
      /\ Phase(w) /\ (S(w) \in cons => sess[S(w)] = "open")
  <2>1. wpc[w] \in ActivePcs
    BY DEF SockEventState, ActivePcs, EventPcs, SectionPcs
  <2>2. QED
    BY <2>1, AtPoint
<1>8. LocalStep(w)
  BY <1>1 DEF SockEventState, Goto, LocalStep, TypeOK, SocketsOK, WorkersOK,
     EventPcs, SectionPcs
<1>9. LocalGoal(w)
  BY <1>1 DEF SockEventState, Goto, LocalGoal, Phase, Held, TypeOK, SocketsOK, WorkersOK,
     ActivePcs, EventPcs, SectionPcs, S, Handed
<1>10. QED
  BY <1>1, <1>8, <1>9, HandlerFrame

\* A just accepted socket is never locked, so the assertion holds.
LEMMA TrylockSession ==
    ASSUME TypeOK, TypeOK', SessionInv, OneDirection, NEW w \in Workers, SockTrylock(w)
    PROVE  SessionInv'
<1>1. /\ Active(w) /\ S(w) \in Socks /\ wev[w] \in Event
      /\ Held(S(w)) /\ ~BothWays(flags[S(w)]) /\ armed[S(w)] = {}
      /\ Phase(w) /\ (S(w) \in cons => sess[S(w)] = "open")
  <2>1. wpc[w] \in ActivePcs
    BY DEF SockTrylock, ActivePcs, EventPcs, SectionPcs
  <2>2. QED
    BY <2>1, AtPoint
<1>2. /\ wev[w].type \in EventType
      /\ Locks(wev[w].type) \subseteq {"READ_LOCKED", "WRITE_LOCKED"}
  BY <1>1, LocksType DEF Event
<1>3. \A ok \in BOOLEAN : AfterTrylock(wev[w].type, ok) \in EventPcs
  BY <1>2, TrylockType
<1>8. LocalStep(w)
  BY <1>1, <1>3, ZenonT(60) DEF SockTrylock, Goto, LocalStep, TypeOK, SocketsOK, WorkersOK,
     EventPcs, SectionPcs
<1>9. LocalGoal(w)
  BY <1>1, <1>2, <1>3 DEF SockTrylock, Goto, LocalGoal, Phase, Held, TypeOK, SocketsOK, WorkersOK,
     ActivePcs, EventPcs, SectionPcs, S, Handed, AfterTrylock, EventType, BothWays
<1>10. QED
  BY <1>1, <1>8, <1>9, HandlerFrame

LEMMA AcceptedSession ==
    ASSUME TypeOK, TypeOK', SessionInv, OneDirection, NEW w \in Workers, SockAccepted(w)
    PROVE  SessionInv'
<1>1. /\ Active(w) /\ S(w) \in Socks /\ wev[w] \in Event
      /\ Held(S(w)) /\ ~BothWays(flags[S(w)]) /\ armed[S(w)] = {}
      /\ Phase(w) /\ (S(w) \in cons => sess[S(w)] = "open")
  <2>1. wpc[w] \in ActivePcs
    BY DEF SockAccepted, ActivePcs, EventPcs, SectionPcs
  <2>2. QED
    BY <2>1, AtPoint
<1>8. LocalStep(w)
  BY <1>1 DEF SockAccepted, Goto, LocalStep, TypeOK, SocketsOK, WorkersOK,
     EventPcs, SectionPcs
<1>9. LocalGoal(w)
  BY <1>1, CloseCalm DEF SockAccepted, Goto, LocalGoal, Phase, Held, TypeOK, SocketsOK, WorkersOK,
     ActivePcs, EventPcs, SectionPcs, S, Calm, CloseState
<1>10. QED
  BY <1>1, <1>8, <1>9, HandlerFrame

\* The connected callback leaves the direction to listener_add.
LEMMA ConnectedSession ==
    ASSUME TypeOK, TypeOK', SessionInv, OneDirection, NEW w \in Workers, SockConnected(w)
    PROVE  SessionInv'
<1>1. /\ Active(w) /\ S(w) \in Socks /\ wev[w] \in Event
      /\ Held(S(w)) /\ ~BothWays(flags[S(w)]) /\ armed[S(w)] = {}
      /\ Phase(w) /\ (S(w) \in cons => sess[S(w)] = "open")
  <2>1. wpc[w] \in ActivePcs
    BY DEF SockConnected, ActivePcs, EventPcs, SectionPcs
  <2>2. QED
    BY <2>1, AtPoint
<1>2. ASSUME NEW n \in ConnectFlags, NEW x \in ConnectResults,
             NEW f \in AfterCallback(S(w), flags[S(w)] \cup n, x)
      PROVE  /\ "FREE_ON_UNREF" \notin f /\ "NBL_WRITE" \notin f
             /\ ~BothWays(f)
  <2>1. x \in {"none", "close"} /\ "NBL_WRITE" \notin n /\ "FREE_ON_UNREF" \notin n
    BY CallbackAssumption DEF OneDirection
  <2>2. "FREE_ON_UNREF" \notin flags[S(w)] /\ "NBL_WRITE" \notin flags[S(w)]
    BY <1>1 DEF SockConnected, Phase, Held
  <2>3. f = flags[S(w)] \cup n \/ f = CloseState(flags[S(w)] \cup n)
    BY <2>1 DEF AfterCallback
  <2>4. QED
    BY <2>1, <2>2, <2>3 DEF CloseState, BothWays
<1>3. /\ "FREE_ON_UNREF" \notin flags'[S(w)] /\ "NBL_WRITE" \notin flags'[S(w)]
      /\ ~BothWays(flags'[S(w)])
  BY <1>1, <1>2 DEF SockConnected, TypeOK, SocketsOK
<1>8. LocalStep(w)
  BY <1>1 DEF SockConnected, Goto, LocalStep, TypeOK, SocketsOK, WorkersOK,
     EventPcs, SectionPcs
<1>9. LocalGoal(w)
  BY <1>1, <1>3 DEF SockConnected, Goto, LocalGoal, Phase, Held, TypeOK, SocketsOK, WorkersOK,
     ActivePcs, EventPcs, SectionPcs, S
<1>10. QED
  BY <1>1, <1>8, <1>9, HandlerFrame

LEMMA CheckSession ==
    ASSUME TypeOK, TypeOK', SessionInv, OneDirection, NEW w \in Workers, SockCheck(w)
    PROVE  SessionInv'
<1>1. /\ Active(w) /\ S(w) \in Socks /\ wev[w] \in Event
      /\ Held(S(w)) /\ ~BothWays(flags[S(w)]) /\ armed[S(w)] = {}
      /\ Phase(w) /\ (S(w) \in cons => sess[S(w)] = "open")
  <2>1. wpc[w] \in ActivePcs
    BY DEF SockCheck, ActivePcs, EventPcs, SectionPcs
  <2>2. QED
    BY <2>1, AtPoint
<1>8. LocalStep(w)
  BY <1>1 DEF SockCheck, Goto, LocalStep, TypeOK, SocketsOK, WorkersOK,
     EventPcs, SectionPcs
<1>9. LocalGoal(w)
  BY <1>1, CloseCalm DEF SockCheck, Goto, LocalGoal, Phase, Held, TypeOK, SocketsOK, WorkersOK,
     ActivePcs, EventPcs, SectionPcs, S, Calm, CloseState
<1>10. QED
  BY <1>1, <1>8, <1>9, HandlerFrame

LEMMA AddSession ==
    ASSUME TypeOK, TypeOK', SessionInv, OneDirection, NEW w \in Workers, SockAdd(w)
    PROVE  SessionInv'
<1>1. /\ Active(w) /\ S(w) \in Socks /\ wev[w] \in Event
      /\ Held(S(w)) /\ ~BothWays(flags[S(w)]) /\ armed[S(w)] = {}
      /\ Phase(w) /\ (S(w) \in cons => sess[S(w)] = "open")
  <2>1. wpc[w] \in ActivePcs
    BY DEF SockAdd, ActivePcs, EventPcs, SectionPcs
  <2>2. QED
    BY <2>1, AtPoint
<1>2. /\ "NBL_WRITE" \notin flags[S(w)] /\ "FREE_ON_UNREF" \notin flags[S(w)]
      /\ sess[S(w)] = "open" /\ S(w) \notin cons
  BY <1>1 DEF SockAdd, Phase, Held
<1>3. /\ "FREE_ON_UNREF" \notin flags'[S(w)] /\ ~BothWays(flags'[S(w)])
      /\ sess'[S(w)] = "open"
  BY <1>1, <1>2 DEF SockAdd, CloseState, BothWays, TypeOK, SocketsOK
<1>4. \/ /\ armed'[S(w)] \subseteq {"IN"} /\ S(w) \in cons' /\ wpc'[w] = "unlock"
      \/ /\ armed'[S(w)] = {} /\ S(w) \notin cons' /\ wpc'[w] = "disc"
  BY <1>1, <1>2 DEF SockAdd, Goto, Interest, TypeOK, SocketsOK, WorkersOK
<1>5. S(w)' = S(w)
  BY DEF SockAdd, S
<1>6. Held(S(w))'
  BY <1>1, <1>3, <1>5 DEF SockAdd, Held
<1>8. LocalStep(w)
  BY <1>1 DEF SockAdd, Goto, LocalStep, TypeOK, SocketsOK, WorkersOK,
     EventPcs, SectionPcs, ListsOK
<1>9. LocalGoal(w)
  BY <1>1, <1>3, <1>4, <1>5, <1>6 DEF SockAdd, Goto, LocalGoal, Phase, Held, TypeOK, SocketsOK, WorkersOK,
     ActivePcs, EventPcs, SectionPcs, S
<1>10. QED
  BY <1>1, <1>8, <1>9, HandlerFrame

LEMMA CanReadSession ==
    ASSUME TypeOK, TypeOK', SessionInv, OneDirection, NEW w \in Workers, SockCanRead(w)
    PROVE  SessionInv'
<1>1. /\ Active(w) /\ S(w) \in Socks /\ wev[w] \in Event
      /\ Held(S(w)) /\ ~BothWays(flags[S(w)]) /\ armed[S(w)] = {}
      /\ Phase(w) /\ (S(w) \in cons => sess[S(w)] = "open")
  <2>1. wpc[w] \in ActivePcs
    BY DEF SockCanRead, ActivePcs, EventPcs, SectionPcs
  <2>2. QED
    BY <2>1, AtPoint
<1>2. ASSUME NEW r \in {ReadEnd(S(w))} \cup ReadWants, NEW x \in Reactions,
             NEW f \in AfterCallback(S(w), ReadState(flags[S(w)], r), x)
      PROVE  Calm(flags[S(w)], f)
  <2>1. r \in {"again", "wants_write", "eof", "error"} /\ x \in {"none", "write", "close"}
    BY CallbackAssumption DEF ReadEnd
  <2>2. Calm(flags[S(w)], ReadState(flags[S(w)], r))
    BY <2>1, ReadCalm
  <2>3. Calm(ReadState(flags[S(w)], r), f)
    BY <2>1, AfterCallbackCalm
  <2>4. QED
    BY <2>2, <2>3 DEF Calm
<1>3. Calm(flags[S(w)], flags'[S(w)]) /\ armed'[S(w)] = {}
  BY <1>1, <1>2 DEF SockCanRead, TypeOK, SocketsOK
<1>8. LocalStep(w)
  BY <1>1 DEF SockCanRead, Goto, LocalStep, TypeOK, SocketsOK, WorkersOK,
     EventPcs, SectionPcs
<1>9. LocalGoal(w)
  BY <1>1, <1>3 DEF SockCanRead, Goto, LocalGoal, Phase, Held, TypeOK, SocketsOK, WorkersOK,
     ActivePcs, EventPcs, SectionPcs, S, Calm
<1>10. QED
  BY <1>1, <1>8, <1>9, HandlerFrame

LEMMA CanWriteSession ==
    ASSUME TypeOK, TypeOK', SessionInv, OneDirection, NEW w \in Workers, SockCanWrite(w)
    PROVE  SessionInv'
<1>1. /\ Active(w) /\ S(w) \in Socks /\ wev[w] \in Event
      /\ Held(S(w)) /\ ~BothWays(flags[S(w)]) /\ armed[S(w)] = {}
      /\ Phase(w) /\ (S(w) \in cons => sess[S(w)] = "open")
  <2>1. wpc[w] \in ActivePcs
    BY DEF SockCanWrite, ActivePcs, EventPcs, SectionPcs
  <2>2. QED
    BY <2>1, AtPoint
<1>2. ASSUME NEW f \in AfterCallback(S(w), flags[S(w)], "write")
      PROVE  Calm(flags[S(w)], f) /\ Calm(flags[S(w)], CloseState(f))
  BY AfterCallbackCalm, CloseCalm DEF Calm
<1>3. Calm(flags[S(w)], flags'[S(w)]) /\ armed'[S(w)] = {}
  BY <1>1, <1>2 DEF SockCanWrite, TypeOK, SocketsOK
<1>8. LocalStep(w)
  BY <1>1 DEF SockCanWrite, Goto, LocalStep, TypeOK, SocketsOK, WorkersOK,
     EventPcs, SectionPcs
<1>9. LocalGoal(w)
  BY <1>1, <1>3 DEF SockCanWrite, Goto, LocalGoal, Phase, Held, TypeOK, SocketsOK, WorkersOK,
     ActivePcs, EventPcs, SectionPcs, S, Calm
<1>10. QED
  BY <1>1, <1>8, <1>9, HandlerFrame

LEMMA RearmSession ==
    ASSUME TypeOK, TypeOK', SessionInv, OneDirection, NEW w \in Workers, SockRearm(w)
    PROVE  SessionInv'
<1>1. /\ Active(w) /\ S(w) \in Socks /\ wev[w] \in Event
      /\ Held(S(w)) /\ ~BothWays(flags[S(w)]) /\ armed[S(w)] = {}
      /\ Phase(w) /\ (S(w) \in cons => sess[S(w)] = "open")
  <2>1. wpc[w] \in ActivePcs
    BY DEF SockRearm, ActivePcs, EventPcs, SectionPcs
  <2>2. QED
    BY <2>1, AtPoint
<1>8. LocalStep(w)
  BY <1>1 DEF SockRearm, Goto, LocalStep, TypeOK, SocketsOK, WorkersOK,
     EventPcs, SectionPcs
<1>9. LocalGoal(w)
  BY <1>1, CloseCalm DEF SockRearm, Goto, LocalGoal, Phase, Held, TypeOK, SocketsOK, WorkersOK,
     ActivePcs, EventPcs, SectionPcs, S, Calm, CloseState, Interest, BothWays
<1>10. QED
  BY <1>1, <1>8, <1>9, HandlerFrame

LEMMA ErrorSession ==
    ASSUME TypeOK, TypeOK', SessionInv, OneDirection, NEW w \in Workers, SockError(w)
    PROVE  SessionInv'
<1>1. /\ Active(w) /\ S(w) \in Socks /\ wev[w] \in Event
      /\ Held(S(w)) /\ ~BothWays(flags[S(w)]) /\ armed[S(w)] = {}
      /\ Phase(w) /\ (S(w) \in cons => sess[S(w)] = "open")
  <2>1. wpc[w] \in ActivePcs
    BY DEF SockError, ActivePcs, EventPcs, SectionPcs
  <2>2. QED
    BY <2>1, AtPoint
<1>8. LocalStep(w)
  BY <1>1 DEF SockError, Goto, LocalStep, TypeOK, SocketsOK, WorkersOK,
     EventPcs, SectionPcs
<1>9. LocalGoal(w)
  BY <1>1, CloseCalm DEF SockError, Goto, LocalGoal, Phase, Held, TypeOK, SocketsOK, WorkersOK,
     ActivePcs, EventPcs, SectionPcs, S, Calm, CloseState
<1>10. QED
  BY <1>1, <1>8, <1>9, HandlerFrame

LEMMA ClosedSession ==
    ASSUME TypeOK, TypeOK', SessionInv, OneDirection, NEW w \in Workers, SockClosed(w)
    PROVE  SessionInv'
<1>1. /\ Active(w) /\ S(w) \in Socks /\ wev[w] \in Event
      /\ Held(S(w)) /\ ~BothWays(flags[S(w)]) /\ armed[S(w)] = {}
      /\ Phase(w) /\ (S(w) \in cons => sess[S(w)] = "open")
  <2>1. wpc[w] \in ActivePcs
    BY DEF SockClosed, ActivePcs, EventPcs, SectionPcs
  <2>2. QED
    BY <2>1, AtPoint
<1>8. LocalStep(w)
  BY <1>1 DEF SockClosed, Goto, LocalStep, TypeOK, SocketsOK, WorkersOK,
     EventPcs, SectionPcs, ListsOK
<1>9. LocalGoal(w)
  BY <1>1 DEF SockClosed, Goto, LocalGoal, Phase, Held, TypeOK, SocketsOK, WorkersOK,
     ActivePcs, EventPcs, SectionPcs, S
<1>10. QED
  BY <1>1, <1>8, <1>9, HandlerFrame

LEMMA DisconnectedSession ==
    ASSUME TypeOK, TypeOK', SessionInv, OneDirection, NEW w \in Workers, SockDisconnected(w)
    PROVE  SessionInv'
<1>1. /\ Active(w) /\ S(w) \in Socks /\ wev[w] \in Event
      /\ Held(S(w)) /\ ~BothWays(flags[S(w)]) /\ armed[S(w)] = {}
      /\ Phase(w) /\ (S(w) \in cons => sess[S(w)] = "open")
  <2>1. wpc[w] \in ActivePcs
    BY DEF SockDisconnected, ActivePcs, EventPcs, SectionPcs
  <2>2. QED
    BY <2>1, AtPoint
<1>8. LocalStep(w)
  BY <1>1 DEF SockDisconnected, Goto, LocalStep, TypeOK, SocketsOK, WorkersOK,
     EventPcs, SectionPcs
<1>9. LocalGoal(w)
  BY <1>1 DEF SockDisconnected, Goto, LocalGoal, Phase, Held, TypeOK, SocketsOK, WorkersOK,
     ActivePcs, EventPcs, SectionPcs, S
<1>10. QED
  BY <1>1, <1>8, <1>9, HandlerFrame

-----------------------------------------------------------------------------
(* Steps without a token *)

\* A step that moves no token and, of the state words, only lock flags.
QuietStep ==
    /\ UNCHANGED <<life, ref, armed, sess, batch, events, relay, release, cons, wev>>
    /\ \A s \in Socks :
         /\ \A x \in {"FREE_ON_UNREF", "NBL_READ", "NBL_WRITE"} :
              x \in flags'[s] <=> x \in flags[s]
         /\ flags[s] = {} => flags'[s] = {}
    /\ \A w \in Workers :
         \/ wpc'[w] = wpc[w]
         \/ wpc[w] \notin ActivePcs /\ wpc'[w] \notin ActivePcs
    /\ main' # "done" => main # "done"

LEMMA QuietSession ==
    ASSUME TypeOK, TypeOK', SessionInv, QuietStep, Stages'
    PROVE  SessionInv'
<1>1. /\ UNCHANGED <<life, ref, armed, sess, batch, events, relay, release, cons>>
      /\ \A w \in Workers : S(w)' = S(w) /\ wev'[w] = wev[w]
      /\ \A w \in Workers : Active(w)' => Active(w) /\ wpc'[w] = wpc[w]
      /\ main' # "done" => main # "done"
  BY DEF QuietStep, S, Active
<1>2. \A s \in Socks : /\ Held(s) => Held(s)'
                       /\ flags[s] = {} => flags'[s] = {}
                       /\ "NBL_WRITE" \in flags'[s] => "NBL_WRITE" \in flags[s]
                       /\ "FREE_ON_UNREF" \in flags'[s] <=> "FREE_ON_UNREF" \in flags[s]
                       /\ BothWays(flags'[s]) => BothWays(flags[s])
  BY DEF QuietStep, Held, BothWays
<1>3. Elems(events) \subseteq Event /\ Elems(release) \subseteq Socks
  BY ElemsType DEF TypeOK, ListsOK
<1>4. OneToken'
  BY <1>1 DEF SessionInv, OneToken
<1>5. OneWay'
  BY <1>1, <1>2 DEF SessionInv, OneWay
<1>6. Places'
  <2>1. main' # "done" => \A s \in Socks : armed'[s] # {} => s \in cons'
    BY <1>1 DEF SessionInv, Places
  <2>2. \A b \in batch' : b.sock \in cons'
    BY <1>1 DEF SessionInv, Places
  <2>3. ASSUME NEW e \in Event, Handed(e) PROVE Handed(e)'
    BY <1>1, <1>2, <2>3 DEF Handed, Event
  <2>4. \A e \in Elems(events') : Handed(e)'
    BY <1>1, <1>3, <2>3 DEF SessionInv, Places
  <2>5. ASSUME NEW w \in Workers PROVE Phase(w)'
    <3>1. CASE Active(w)'
      <4>1. Phase(w) /\ S(w) \in Socks /\ S(w)' = S(w) /\ wev[w] \in Event
        BY <1>1, <3>1, ActiveHeld DEF SessionInv, Places
      <4>2. Handed(wev[w]) => Handed(wev[w])'
        BY <1>1, <2>3, <4>1
      <4>3. QED
        BY <1>1, <1>2, <3>1, <4>1, <4>2 DEF Phase
    <3>2. CASE ~Active(w)'
      BY <3>2 DEF Phase, Active, ActivePcs, EventPcs, SectionPcs
    <3>3. QED
      BY <3>1, <3>2
  <2>6. QED
    BY <2>1, <2>2, <2>4, <2>5 DEF Places
<1>7. Fates'
  <2>1. \A s \in cons' : Held(s)' /\ sess'[s] = "open"
    BY <1>1, <1>2 DEF SessionInv, Fates, TypeOK, ListsOK
  <2>2. QED
    BY <1>1, <1>2, <1>3, <2>1 DEF SessionInv, Fates
<1>8. QED
  BY <1>4, <1>5, <1>6, <1>7 DEF SessionInv

LEMMA LoopSession ==
    ASSUME TypeOK, TypeOK', SessionInv, MainLoop
    PROVE  SessionInv'
<1>1. QuietStep
  BY DEF MainLoop, QuietStep, TypeOK, WorkersOK, SocketsOK,
     ActivePcs, EventPcs, SectionPcs
<1>2. Stages'
  BY DEF MainLoop, SessionInv, Stages, TypeOK, MainOK, WorkersOK,
     EventPcs, SectionPcs
<1>3. QED
  BY <1>1, <1>2, QuietSession

LEMMA InterruptedSession ==
    ASSUME TypeOK, TypeOK', SessionInv, MainInterrupted
    PROVE  SessionInv'
<1>1. QuietStep
  BY DEF MainInterrupted, QuietStep, TypeOK, WorkersOK, SocketsOK,
     ActivePcs, EventPcs, SectionPcs
<1>2. Stages'
  BY DEF MainInterrupted, SessionInv, Stages, TypeOK, MainOK, WorkersOK,
     EventPcs, SectionPcs
<1>3. QED
  BY <1>1, <1>2, QuietSession

LEMMA ListenFailsSession ==
    ASSUME TypeOK, TypeOK', SessionInv, MainListenFails
    PROVE  SessionInv'
<1>1. QuietStep
  BY DEF MainListenFails, QuietStep, TypeOK, WorkersOK, SocketsOK,
     ActivePcs, EventPcs, SectionPcs
<1>2. Stages'
  BY DEF MainListenFails, SessionInv, Stages, TypeOK, MainOK, WorkersOK,
     EventPcs, SectionPcs
<1>3. QED
  BY <1>1, <1>2, QuietSession

LEMMA LockEventsSession ==
    ASSUME TypeOK, TypeOK', SessionInv, MainLockEvents
    PROVE  SessionInv'
<1>1. QuietStep
  BY DEF MainLockEvents, QuietStep, TypeOK, WorkersOK, SocketsOK,
     ActivePcs, EventPcs, SectionPcs
<1>2. Stages'
  BY DEF MainLockEvents, SessionInv, Stages, TypeOK, MainOK, WorkersOK,
     EventPcs, SectionPcs
<1>3. QED
  BY <1>1, <1>2, QuietSession

LEMMA UnlockEventsSession ==
    ASSUME TypeOK, TypeOK', SessionInv, MainUnlockEvents
    PROVE  SessionInv'
<1>1. QuietStep
  BY DEF MainUnlockEvents, QuietStep, TypeOK, WorkersOK, SocketsOK,
     ActivePcs, EventPcs, SectionPcs, SignalAll
<1>2. Stages'
  BY DEF MainUnlockEvents, SessionInv, Stages, TypeOK, MainOK, WorkersOK,
     EventPcs, SectionPcs, SignalAll
<1>3. QED
  BY <1>1, <1>2, QuietSession

LEMMA AcceptAgainSession ==
    ASSUME TypeOK, TypeOK', SessionInv, MainAcceptAgain
    PROVE  SessionInv'
<1>1. QuietStep
  BY DEF MainAcceptAgain, QuietStep, TypeOK, WorkersOK, SocketsOK,
     ActivePcs, EventPcs, SectionPcs
<1>2. Stages'
  BY DEF MainAcceptAgain, SessionInv, Stages, TypeOK, MainOK, WorkersOK,
     EventPcs, SectionPcs
<1>3. QED
  BY <1>1, <1>2, QuietSession

LEMMA DrainSignalSession ==
    ASSUME TypeOK, TypeOK', SessionInv, DrainSignal
    PROVE  SessionInv'
<1>1. QuietStep
  BY DEF DrainSignal, QuietStep, TypeOK, WorkersOK, SocketsOK,
     ActivePcs, EventPcs, SectionPcs, SignalAll
<1>2. Stages'
  BY DEF DrainSignal, SessionInv, Stages, TypeOK, MainOK, WorkersOK,
     EventPcs, SectionPcs, SignalAll
<1>3. QED
  BY <1>1, <1>2, QuietSession

LEMMA DrainAwaitSession ==
    ASSUME TypeOK, TypeOK', SessionInv, DrainAwait
    PROVE  SessionInv'
<1>1. QuietStep
  BY DEF DrainAwait, QuietStep, TypeOK, WorkersOK, SocketsOK,
     ActivePcs, EventPcs, SectionPcs
<1>2. Stages'
  BY DEF DrainAwait, SessionInv, Stages, TypeOK, MainOK, WorkersOK,
     EventPcs, SectionPcs, LatchOpen
<1>3. QED
  BY <1>1, <1>2, QuietSession

LEMMA JoinSession ==
    ASSUME TypeOK, TypeOK', SessionInv, Join
    PROVE  SessionInv'
<1>1. QuietStep
  BY DEF Join, QuietStep, TypeOK, WorkersOK, SocketsOK,
     ActivePcs, EventPcs, SectionPcs
<1>2. Stages'
  BY DEF Join, SessionInv, Stages, TypeOK, MainOK, WorkersOK,
     EventPcs, SectionPcs
<1>3. QED
  BY <1>1, <1>2, QuietSession

LEMMA StopSession ==
    ASSUME TypeOK, TypeOK', SessionInv, Stop
    PROVE  SessionInv'
<1>1. QuietStep
  BY DEF Stop, QuietStep, TypeOK, WorkersOK, SocketsOK,
     ActivePcs, EventPcs, SectionPcs
<1>2. Stages'
  BY DEF Stop, SessionInv, Stages, TypeOK, MainOK, WorkersOK,
     EventPcs, SectionPcs
<1>3. QED
  BY <1>1, <1>2, QuietSession

LEMMA WorkerTopSession ==
    ASSUME TypeOK, TypeOK', SessionInv, NEW w \in Workers, WorkerTop(w)
    PROVE  SessionInv'
<1>1. QuietStep
  BY DEF WorkerTop, QuietStep, Goto, TypeOK, WorkersOK, SocketsOK,
     ActivePcs, EventPcs, SectionPcs
<1>2. Stages'
  BY DEF WorkerTop, SessionInv, Stages, Goto, TypeOK, MainOK, WorkersOK,
     EventPcs, SectionPcs
<1>3. QED
  BY <1>1, <1>2, QuietSession

LEMMA WorkerEmptySession ==
    ASSUME TypeOK, TypeOK', SessionInv, NEW w \in Workers, WorkerEmpty(w)
    PROVE  SessionInv'
<1>1. QuietStep
  BY DEF WorkerEmpty, QuietStep, Goto, TypeOK, WorkersOK, SocketsOK,
     ActivePcs, EventPcs, SectionPcs
<1>2. Stages'
  BY DEF WorkerEmpty, SessionInv, Stages, Goto, TypeOK, MainOK, WorkersOK,
     EventPcs, SectionPcs
<1>3. QED
  BY <1>1, <1>2, QuietSession

LEMMA WorkerWaitSession ==
    ASSUME TypeOK, TypeOK', SessionInv, NEW w \in Workers, WorkerWait(w)
    PROVE  SessionInv'
<1>1. QuietStep
  BY DEF WorkerWait, QuietStep, Goto, TypeOK, WorkersOK, SocketsOK,
     ActivePcs, EventPcs, SectionPcs
<1>2. Stages'
  BY DEF WorkerWait, SessionInv, Stages, Goto, TypeOK, MainOK, WorkersOK,
     EventPcs, SectionPcs
<1>3. QED
  BY <1>1, <1>2, QuietSession

LEMMA SpuriousWakeSession ==
    ASSUME TypeOK, TypeOK', SessionInv, NEW w \in Workers, SpuriousWake(w)
    PROVE  SessionInv'
<1>1. QuietStep
  BY DEF SpuriousWake, QuietStep, Goto, TypeOK, WorkersOK, SocketsOK,
     ActivePcs, EventPcs, SectionPcs
<1>2. Stages'
  BY DEF SpuriousWake, SessionInv, Stages, Goto, TypeOK, MainOK, WorkersOK,
     EventPcs, SectionPcs
<1>3. QED
  BY <1>1, <1>2, QuietSession

LEMMA WorkerCountSession ==
    ASSUME TypeOK, TypeOK', SessionInv, NEW w \in Workers, WorkerCount(w)
    PROVE  SessionInv'
<1>1. QuietStep
  BY DEF WorkerCount, QuietStep, Goto, TypeOK, WorkersOK, SocketsOK,
     ActivePcs, EventPcs, SectionPcs
<1>2. Stages'
  BY DEF WorkerCount, SessionInv, Stages, Goto, TypeOK, MainOK, WorkersOK,
     EventPcs, SectionPcs
<1>3. QED
  BY <1>1, <1>2, QuietSession

LEMMA WorkerAwaitSession ==
    ASSUME TypeOK, TypeOK', SessionInv, NEW w \in Workers, WorkerAwait(w)
    PROVE  SessionInv'
<1>1. QuietStep
  BY DEF WorkerAwait, QuietStep, Goto, TypeOK, WorkersOK, SocketsOK,
     ActivePcs, EventPcs, SectionPcs
<1>2. Stages'
  BY DEF WorkerAwait, SessionInv, Stages, Goto, TypeOK, MainOK, WorkersOK,
     EventPcs, SectionPcs
<1>3. QED
  BY <1>1, <1>2, QuietSession

LEMMA WorkerEndSession ==
    ASSUME TypeOK, TypeOK', SessionInv, NEW w \in Workers, WorkerEnd(w)
    PROVE  SessionInv'
<1>1. QuietStep
  BY DEF WorkerEnd, QuietStep, Goto, TypeOK, WorkersOK, SocketsOK,
     ActivePcs, EventPcs, SectionPcs
<1>2. Stages'
  BY DEF WorkerEnd, SessionInv, Stages, Goto, TypeOK, MainOK, WorkersOK,
     EventPcs, SectionPcs
<1>3. QED
  BY <1>1, <1>2, QuietSession

LEMMA SockUnlockSession ==
    ASSUME TypeOK, TypeOK', SessionInv, NEW w \in Workers, SockUnlock(w)
    PROVE  SessionInv'
<1>1. S(w) \in Socks
  BY EventOwned DEF SockUnlock, EventPcs, SectionPcs
<1>2. Locks(wev[w].type) \subseteq {"READ_LOCKED", "WRITE_LOCKED"}
  BY LocksType
<1>3. QuietStep
  BY <1>1, <1>2 DEF SockUnlock, QuietStep, Goto, TypeOK, WorkersOK, SocketsOK,
     ActivePcs, EventPcs, SectionPcs
<1>4. Stages'
  BY DEF SockUnlock, SessionInv, Stages, Goto, TypeOK, MainOK, WorkersOK,
     EventPcs, SectionPcs
<1>5. QED
  BY <1>3, <1>4, QuietSession

-----------------------------------------------------------------------------
(* Steps that move a token *)

LEMMA HandedFrame ==
    ASSUME NEW e \in Event, Handed(e),
           flags'[e.sock] = flags[e.sock] \/ e.type # "ACCEPTED",
           sess'[e.sock] = sess[e.sock],
           e.sock \in cons' <=> e.sock \in cons,
           Held(e.sock) => Held(e.sock)'
    PROVE  Handed(e)'
BY DEF Handed

\* A worker that stays where it is, on a socket the step leaves alone.
LEMMA PhaseFrame ==
    ASSUME TypeOK, SessionInv, NEW v \in Workers, Active(v),
           wpc'[v] = wpc[v], wev'[v] = wev[v],
           flags'[S(v)] = flags[S(v)], sess'[S(v)] = sess[S(v)],
           S(v) \in cons' <=> S(v) \in cons,
           Held(S(v)) => Held(S(v))'
    PROVE  Phase(v)'
<1>1. Phase(v) /\ wev[v] \in Event /\ S(v)' = S(v)
  BY ActiveHeld DEF SessionInv, Places, S
<1>2. Handed(wev[v]) => Handed(wev[v])'
  BY <1>1, HandedFrame DEF S
<1>3. QED
  BY <1>1, <1>2 DEF Phase

LEMMA PhaseIdle ==
    ASSUME NEW v \in Workers, wpc'[v] \notin ActivePcs
    PROVE  Phase(v)'
BY DEF Phase, ActivePcs, EventPcs, SectionPcs

LEMMA PollSession ==
    ASSUME TypeOK, TypeOK', SessionInv, NEW w \in Workers, WorkerPoll(w)
    PROVE  SessionInv'
<1>0. PICK e \in Event : e = Head(events)
  BY DEF WorkerPoll, TypeOK, ListsOK
<1>1. /\ UNCHANGED <<life, flags, ref, armed, sess, main, batch, relay, release, cons,
                     prepared, drainRun>>
      /\ events # <<>> /\ wpc[w] \in {"lock", "drain"}
      /\ wpc' = [wpc EXCEPT ![w] = IF e.type \in {"READ", "WRITE"}
                                   THEN "state" ELSE "trylock"]
  BY <1>0 DEF WorkerPoll, Goto
<1>2. /\ events \in Seq(Event) /\ e \in Event /\ e \in Elems(events)
      /\ OnceIn(events') /\ Elems(events') \subseteq Elems(events)
      /\ \A d \in Elems(events') : d.sock # e.sock
      /\ Elems(events) \subseteq Event
  <2>1. events \in Seq(Event) /\ events' = Tail(events)
    BY DEF WorkerPoll, TypeOK, ListsOK
  <2>2. OnceIn(events)
    BY DEF SessionInv, OneToken
  <2>3. QED
    BY <1>0, <1>1, <2>1, <2>2, ElemsType, ElemsTail, OnceTail
<1>3. /\ S(w)' = e.sock /\ wev'[w] = e /\ e.sock \in Socks
      /\ wpc'[w] \in {"state", "trylock"}
      /\ wpc'[w] = "state" => e.type \in {"READ", "WRITE"}
      /\ \A v \in Workers \ {w} : wpc'[v] = wpc[v] /\ wev'[v] = wev[v] /\ S(v)' = S(v)
                                    /\ Active(v)' = Active(v)
      /\ ~Active(w)
  BY <1>0, <1>1, <1>2 DEF WorkerPoll, S, TypeOK, WorkersOK, Event, Active, ActivePcs, EventPcs, SectionPcs
<1>4. /\ Handed(e)
      /\ armed[e.sock] = {} /\ \A b \in batch : b.sock # e.sock
      /\ \A v \in Workers : Active(v) => S(v) # e.sock
  BY <1>2 DEF SessionInv, OneToken, Places
<1>5. OneToken'
  <2>1. \A u, v \in Workers : Active(u)' /\ Active(v)' /\ S(u)' = S(v)' => u = v
    BY <1>3, <1>4 DEF SessionInv, OneToken
  <2>2. ASSUME NEW v \in Workers, Active(v)'
        PROVE  /\ armed'[S(v)'] = {}
               /\ \A d \in Elems(events') : d.sock # S(v)'
               /\ \A b \in batch' : b.sock # S(v)'
    <3>1. CASE v = w
      BY <1>1, <1>2, <1>3, <1>4, <3>1
    <3>2. CASE v # w
      BY <1>1, <1>2, <1>3, <2>2, <3>2 DEF SessionInv, OneToken
    <3>3. QED
      BY <3>1, <3>2
  <2>3. \A d \in Elems(events') : armed'[d.sock] = {} /\ \A b \in batch' : b.sock # d.sock
    BY <1>1, <1>2 DEF SessionInv, OneToken
  <2>4. /\ \A b, c \in batch' : b.sock = c.sock => b = c
        /\ \A b \in batch' : armed'[b.sock] = {}
    BY <1>1 DEF SessionInv, OneToken
  <2>5. QED
    BY <1>2, <2>1, <2>2, <2>3, <2>4 DEF OneToken
<1>6. OneWay'
  BY <1>1 DEF SessionInv, OneWay
<1>7. \A s : Held(s)' = Held(s)
  BY <1>1 DEF Held
<1>8. Places'
  <2>1. \A d \in Elems(events') : Handed(d)'
    BY <1>1, <1>2, <1>7, HandedFrame DEF SessionInv, Places
  <2>2. Handed(e)'
    BY <1>1, <1>2, <1>4, <1>7, HandedFrame
  <2>3. ASSUME NEW v \in Workers PROVE Phase(v)'
    <3>1. CASE v = w
      <4>1. Handed(wev[w])'
        BY <1>3, <2>2 DEF Handed, Held
      <4>2. e.type # "ACCEPTED" => e.sock \in cons'
        BY <1>1, <1>4 DEF Handed
      <4>3. QED
        BY <1>3, <3>1, <4>1, <4>2 DEF Phase
    <3>2. CASE v # w /\ Active(v)
      BY <1>1, <1>3, <1>7, <3>2, PhaseFrame
    <3>3. CASE v # w /\ ~Active(v)
      BY <1>3, <3>3, PhaseIdle DEF Active
    <3>4. QED
      BY <3>1, <3>2, <3>3
  <2>4. QED
    BY <1>1, <2>1, <2>3 DEF SessionInv, Places
<1>9. Fates'
  BY <1>1, <1>7 DEF SessionInv, Fates
<1>10. Stages'
  <2>1. wpc'[w] \in EventPcs
    BY <1>3 DEF EventPcs
  <2>2. "await" \notin EventPcs /\ "drain" \notin EventPcs /\ "end" \notin EventPcs
        /\ "lock" \notin EventPcs
    BY DEF EventPcs, SectionPcs
  <2>3. main \notin {"clean", "done"}
    BY <1>1 DEF SessionInv, Stages
  <2>4. QED
    BY <1>1, <1>3, <2>1, <2>2, <2>3 DEF SessionInv, Stages
<1>11. QED
  BY <1>5, <1>6, <1>8, <1>9, <1>10 DEF SessionInv

\* A signalled worker was waiting and is not yet back.
LEMMA SignalMoves ==
    ASSUME TypeOK, NEW pc \in SignalOne(wpc)
    PROVE  /\ DOMAIN pc = Workers
           /\ \A v \in Workers : pc[v] = wpc[v] \/ (wpc[v] = "wait" /\ pc[v] = "lock")
BY DEF SignalOne, Waiting, TypeOK, WorkersOK

\* A worker that gives its event back to the queue.
LEMMA AddEventSession ==
    ASSUME TypeOK, TypeOK', SessionInv, NEW w \in Workers, AddEvent(w)
    PROVE  SessionInv'
<1>1. /\ UNCHANGED <<life, flags, armed, sess, main, batch, relay, release, cons,
                     prepared, drainRun, wev>>
      /\ wpc[w] = "requeue" /\ ref' = [ref EXCEPT ![S(w)] = @ + 1]
  BY DEF AddEvent
<1>2. /\ Active(w) /\ S(w) \in Socks /\ wev[w] \in Event /\ wev[w].sock = S(w)
      /\ wev[w].type # "ACCEPTED" /\ S(w) \in cons /\ Held(S(w)) /\ armed[S(w)] = {}
  BY <1>1, AtPoint DEF ActivePcs, EventPcs, SectionPcs, Phase, S
<1>3. /\ wpc'[w] = "unref" /\ ~Active(w)'
      /\ \A v \in Workers : S(v)' = S(v) /\ wev'[v] = wev[v]
      /\ \A v \in Workers \ {w} : wpc'[v] = wpc[v] \/ (wpc[v] = "wait" /\ wpc'[v] = "lock")
      /\ \A v \in Workers \ {w} : Active(v)' => Active(v) /\ wpc'[v] = wpc[v]
  BY <1>1, SignalMoves DEF AddEvent, Active, ActivePcs, EventPcs, SectionPcs, S
<1>4. /\ Elems(events) \subseteq Event
      /\ \A d \in Elems(events) : d.sock # S(w)
      /\ Elems(events') = Elems(events) \cup {wev[w]}
      /\ OnceIn(events')
  <2>1. events \in Seq(Event) /\ events' = Append(events, wev[w]) /\ OnceIn(events)
    BY DEF AddEvent, TypeOK, ListsOK, SessionInv, OneToken
  <2>2. \A d \in Elems(events) : d.sock # S(w)
    BY <1>2 DEF SessionInv, OneToken
  <2>3. QED
    BY <1>2, <2>1, <2>2, ElemsType, ElemsAppend, OnceAppend
<1>5. OneToken'
  <2>1. \A u, v \in Workers : Active(u)' /\ Active(v)' /\ S(u)' = S(v)' => u = v
    BY <1>3 DEF SessionInv, OneToken
  <2>2. ASSUME NEW v \in Workers, Active(v)'
        PROVE  /\ armed'[S(v)'] = {}
               /\ \A d \in Elems(events') : d.sock # S(v)'
               /\ \A b \in batch' : b.sock # S(v)'
    BY <1>1, <1>2, <1>3, <1>4, <2>2 DEF SessionInv, OneToken
  <2>3. \A d \in Elems(events') : armed'[d.sock] = {} /\ \A b \in batch' : b.sock # d.sock
    BY <1>1, <1>2, <1>4 DEF SessionInv, OneToken
  <2>4. /\ \A b, c \in batch' : b.sock = c.sock => b = c
        /\ \A b \in batch' : armed'[b.sock] = {}
    BY <1>1 DEF SessionInv, OneToken
  <2>5. QED
    BY <1>4, <2>1, <2>2, <2>3, <2>4 DEF OneToken
<1>6. OneWay'
  BY <1>1 DEF SessionInv, OneWay
<1>7. \A s : Held(s)' = Held(s)
  BY <1>1 DEF Held
<1>8. Places'
  <2>1. \A d \in Elems(events) : Handed(d)'
    BY <1>1, <1>4, <1>7, HandedFrame DEF SessionInv, Places
  <2>2. \A d \in Elems(events') : Handed(d)'
    BY <1>1, <1>2, <1>4, <2>1 DEF Handed
  <2>3. ASSUME NEW v \in Workers PROVE Phase(v)'
    <3>1. CASE Active(v)'
      BY <1>1, <1>3, <1>7, <3>1, PhaseFrame
    <3>2. CASE ~Active(v)'
      BY <3>2, PhaseIdle DEF Active
    <3>3. QED
      BY <3>1, <3>2
  <2>4. QED
    BY <1>1, <2>2, <2>3 DEF SessionInv, Places
<1>9. Fates'
  <2>1. "FREE_ON_UNREF" \notin flags[S(w)] /\ \A s \in Socks : s # S(w) => ref'[s] = ref[s]
    BY <1>1, <1>2 DEF Held, TypeOK, SocketsOK
  <2>2. QED
    BY <1>1, <1>7, <2>1 DEF SessionInv, Fates
<1>10. Stages'
  <2>1. wpc[w] \in EventPcs /\ wpc'[w] \in EventPcs
    BY <1>1, <1>3 DEF EventPcs
  <2>2. "await" \notin EventPcs /\ "drain" \notin EventPcs /\ "end" \notin EventPcs
        /\ "lock" \notin EventPcs /\ "wait" \notin EventPcs
    BY DEF EventPcs, SectionPcs
  <2>3. main \notin {"clean", "done"}
    BY <1>1 DEF SessionInv, Stages
  <2>4. QED
    BY <1>1, <1>3, <2>1, <2>2, <2>3 DEF SessionInv, Stages
<1>11. QED
  BY <1>5, <1>6, <1>8, <1>9, <1>10 DEF SessionInv

\* The socket of an ended connection enters the release list, once.
LEMMA FreeSession ==
    ASSUME TypeOK, TypeOK', SessionInv, NEW w \in Workers, SockFree(w)
    PROVE  SessionInv'
<1>1. /\ UNCHANGED <<life, flags, armed, sess, main, batch, events, relay, cons,
                     prepared, drainRun, wev>>
      /\ wpc[w] = "free" /\ ref' = [ref EXCEPT ![S(w)] = @ + 1]
      /\ wpc' = [wpc EXCEPT ![w] = "unlock"]
  BY DEF SockFree, Goto
<1>2. /\ Active(w) /\ S(w) \in Socks /\ Held(S(w))
      /\ S(w) \notin cons /\ sess[S(w)] # "open"
  BY <1>1, AtPoint DEF ActivePcs, EventPcs, SectionPcs, Phase
<1>3. /\ wpc'[w] = "unlock" /\ ~Active(w)'
      /\ \A v \in Workers : S(v)' = S(v) /\ wev'[v] = wev[v]
      /\ \A v \in Workers \ {w} : wpc'[v] = wpc[v] /\ Active(v)' = Active(v)
      /\ \A v \in Workers \ {w} : Active(v) => S(v) # S(w)
  <2>1. \A v \in Workers \ {w} : Active(v) => S(v) # S(w)
    BY <1>2 DEF SessionInv, OneToken
  <2>2. QED
    BY <1>1, <2>1 DEF Active, ActivePcs, S, TypeOK, WorkersOK
<1>4. /\ Elems(release) \subseteq Socks
      /\ Elems(release') = Elems(release) \cup {S(w)}
      /\ NoDuplicates(release')
  <2>1. release \in Seq(Socks) /\ release' = Append(release, S(w)) /\ NoDuplicates(release)
    BY DEF SockFree, TypeOK, ListsOK, SessionInv, Fates
  <2>2. S(w) \notin Elems(release)
    BY <1>2 DEF Held
  <2>3. QED
    BY <1>2, <2>1, <2>2, ElemsType, ElemsAppend, NoDupAppend
<1>5. OneToken'
  BY <1>1, <1>3 DEF SessionInv, OneToken
<1>6. OneWay'
  BY <1>1 DEF SessionInv, OneWay
<1>7. \A s : s # S(w) /\ Held(s) => Held(s)'
  BY <1>1, <1>4 DEF Held
<1>8. Places'
  <2>1. \A d \in Elems(events) : d \in Event /\ d.sock # S(w)
    BY <1>2, ElemsType DEF SessionInv, OneToken, TypeOK, ListsOK
  <2>2. \A d \in Elems(events') : Handed(d)'
    BY <1>1, <1>7, <2>1, HandedFrame DEF SessionInv, Places
  <2>3. ASSUME NEW v \in Workers PROVE Phase(v)'
    <3>1. CASE Active(v)'
      BY <1>1, <1>3, <1>7, <3>1, PhaseFrame
    <3>2. CASE ~Active(v)'
      BY <3>2, PhaseIdle DEF Active
    <3>3. QED
      BY <3>1, <3>2
  <2>4. QED
    BY <1>1, <2>2, <2>3 DEF SessionInv, Places
<1>9. Fates'
  <2>1. /\ "FREE_ON_UNREF" \notin flags[S(w)] /\ life[S(w)] = "live"
        /\ \A s \in Socks : s # S(w) => ref'[s] = ref[s]
    BY <1>1, <1>2 DEF Held, TypeOK, SocketsOK
  <2>2. \A s \in cons' : Held(s)' /\ sess'[s] = "open"
    BY <1>1, <1>2, <1>7 DEF SessionInv, Fates
  <2>3. \A s \in Elems(release') :
          /\ life'[s] = "live" /\ sess'[s] # "open" /\ s \notin cons'
          /\ "FREE_ON_UNREF" \notin flags'[s]
    BY <1>1, <1>2, <1>4, <2>1 DEF SessionInv, Fates
  <2>4. QED
    BY <1>1, <1>4, <2>1, <2>2, <2>3 DEF SessionInv, Fates
<1>10. Stages'
  <2>1. wpc[w] \in EventPcs /\ wpc'[w] \in EventPcs
    BY <1>1, <1>3 DEF EventPcs, SectionPcs
  <2>2. "await" \notin EventPcs /\ "drain" \notin EventPcs /\ "end" \notin EventPcs
    BY DEF EventPcs, SectionPcs
  <2>3. main \notin {"clean", "done"}
    BY <1>1 DEF SessionInv, Stages
  <2>4. QED
    BY <1>1, <1>3, <2>1, <2>2, <2>3 DEF SessionInv, Stages
<1>11. QED
  BY <1>5, <1>6, <1>8, <1>9, <1>10 DEF SessionInv

-----------------------------------------------------------------------------
(* The end of a socket *)

\* While the server runs, whoever holds a socket counts.
LEMMA HolderCounts ==
    ASSUME TypeOK, RefInv, main # "done", NEW s \in Socks
    PROVE  /\ ref[s] \in Nat
           /\ (\E w \in Workers : S(w) = s) => ref[s] >= 1
           /\ Released(release, s) >= 1 => ref[s] >= 1
           /\ Count(events, s) <= ref[s]
           /\ ref[s] = 0 => Count(events, s) = 0 /\ Released(release, s) = 0
<1>1. ref[s] = Holders(s)
  BY AccountingAsHolders DEF RefInv
<1>2. /\ Count(events, s) \in Nat /\ Count(relay, s) \in Nat
      /\ Released(release, s) \in Nat
      /\ IsFiniteSet(WorkersOn(s)) /\ Cardinality(WorkersOn(s)) \in Nat
      /\ IsFiniteSet(AppsOn(s)) /\ Cardinality(AppsOn(s)) \in Nat
  BY HoldersType
<1>3. ASSUME NEW w \in Workers, S(w) = s PROVE Cardinality(WorkersOn(s)) >= 1
  <2>1. WorkersOn(s) # {}
    BY <1>3 DEF WorkersOn
  <2>2. Cardinality(WorkersOn(s)) # 0
    BY <1>2, <2>1, FS_EmptySet
  <2>3. QED
    BY <1>2, <2>2
<1>4. ref[s] = Count(events, s) + Count(relay, s) + Released(release, s)
               + Cardinality(WorkersOn(s)) + Cardinality(AppsOn(s))
  BY <1>1 DEF Holders
<1>5. /\ ref[s] \in Nat
      /\ Cardinality(WorkersOn(s)) >= 1 => ref[s] >= 1
      /\ Released(release, s) >= 1 => ref[s] >= 1
      /\ Count(events, s) <= ref[s]
      /\ ref[s] = 0 => Count(events, s) = 0 /\ Released(release, s) = 0
  <2> DEFINE n == ref[s]
             e == Count(events, s)
             y == Count(relay, s)
             l == Released(release, s)
             k == Cardinality(WorkersOn(s))
             a == Cardinality(AppsOn(s))
  <2>1. n = e + y + l + k + a /\ e \in Nat /\ y \in Nat /\ l \in Nat /\ k \in Nat /\ a \in Nat
    BY <1>2, <1>4
  <2> HIDE DEF n, e, y, l, k, a
  <2>2. n \in Nat /\ (k >= 1 => n >= 1) /\ (l >= 1 => n >= 1) /\ e <= n
          /\ (n = 0 => e = 0 /\ l = 0)
    BY <2>1
  <2>3. QED
    BY <2>2 DEF n, e, y, l, k, a
<1>6. QED
  BY <1>3, <1>5

LEMMA UnrefSession ==
    ASSUME TypeOK, TypeOK', RefInv, SessionInv, NEW w \in Workers, SockUnref(w)
    PROVE  SessionInv'
<1>1. /\ UNCHANGED <<flags, armed, sess, main, batch, events, relay, release, cons,
                     prepared, drainRun>>
      /\ wpc[w] = "unref" /\ ref' = [ref EXCEPT ![S(w)] = @ - 1]
      /\ life' = [life EXCEPT ![S(w)] =
                    IF ref[S(w)] = 1 /\ "FREE_ON_UNREF" \in flags[S(w)]
                    THEN "freed" ELSE @]
      /\ wev' = [wev EXCEPT ![w] = NoEvent]
      /\ wpc' = [wpc EXCEPT ![w] = IF w \in prepared THEN "drain" ELSE "top"]
  BY DEF SockUnref, Goto
<1>2. S(w) \in Socks
  BY <1>1, EventOwned DEF EventPcs
<1>3. main \notin {"clean", "done"}
  BY <1>1 DEF SessionInv, Stages
<1>4. ref[S(w)] \in Nat /\ ref[S(w)] >= 1
  BY <1>2, <1>3, HolderCounts
<1>5. /\ wpc'[w] = (IF w \in prepared THEN "drain" ELSE "top") /\ ~Active(w)'
      /\ \A v \in Workers \ {w} : /\ wpc'[v] = wpc[v] /\ wev'[v] = wev[v] /\ S(v)' = S(v)
                                  /\ Active(v)' = Active(v)
  BY <1>1 DEF Active, ActivePcs, EventPcs, SectionPcs, S, TypeOK, WorkersOK
<1>6. /\ \A s \in Socks : s # S(w) => life'[s] = life[s] /\ ref'[s] = ref[s]
      /\ ref'[S(w)] = ref[S(w)] - 1
      /\ life'[S(w)] = IF ref[S(w)] = 1 /\ "FREE_ON_UNREF" \in flags[S(w)]
                       THEN "freed" ELSE life[S(w)]
  BY <1>1, <1>2 DEF TypeOK, SocketsOK
<1>7. \A s \in Socks : Held(s) => Held(s)'
  BY <1>1, <1>6 DEF Held
<1>8. OneToken'
  BY <1>1, <1>5 DEF SessionInv, OneToken
<1>9. OneWay'
  BY <1>1 DEF SessionInv, OneWay
<1>10. Places'
  <2>1. \A d \in Elems(events) : d \in Event /\ d.sock \in Socks
    BY ElemsType DEF TypeOK, ListsOK, Event
  <2>2. \A d \in Elems(events') : Handed(d)'
    BY <1>1, <1>7, <2>1, HandedFrame DEF SessionInv, Places
  <2>3. ASSUME NEW v \in Workers PROVE Phase(v)'
    <3>1. CASE Active(v)'
      <4>1. Active(v) /\ S(v) \in Socks
        BY <1>5, <3>1, ActiveHeld
      <4>2. QED
        BY <1>1, <1>5, <1>7, <3>1, <4>1, PhaseFrame
    <3>2. CASE ~Active(v)'
      BY <3>2, PhaseIdle DEF Active
    <3>3. QED
      BY <3>1, <3>2
  <2>4. QED
    BY <1>1, <2>2, <2>3 DEF SessionInv, Places
<1>11. Fates'
  <2>1. \A s \in cons' : Held(s)' /\ sess'[s] = "open"
    BY <1>1, <1>7 DEF SessionInv, Fates, TypeOK, ListsOK
  <2>2. \A s \in Elems(release') :
          /\ life'[s] = "live" /\ sess'[s] # "open" /\ s \notin cons'
          /\ "FREE_ON_UNREF" \notin flags'[s]
    BY <1>1, <1>6, ElemsType DEF SessionInv, Fates, TypeOK, ListsOK
  <2>3. ASSUME NEW s \in Socks
        PROVE  /\ life'[s] \in {"none", "pending"} => flags'[s] = {} /\ sess'[s] = "none"
               /\ "FREE_ON_UNREF" \in flags'[s] =>
                    sess'[s] # "open" /\ (life'[s] = "freed" <=> ref'[s] = 0)
               /\ life'[s] = "freed" =>
                    sess'[s] # "open" /\ (main' # "done" => "FREE_ON_UNREF" \in flags'[s])
    <3>1. CASE s = S(w)
      BY <1>1, <1>3, <1>4, <1>6, <3>1 DEF SessionInv, Fates
    <3>2. CASE s # S(w)
      BY <1>1, <1>6, <3>2 DEF SessionInv, Fates
    <3>3. QED
      BY <3>1, <3>2
  <2>4. QED
    BY <1>1, <2>1, <2>2, <2>3 DEF SessionInv, Fates
<1>12. Stages'
  <2>1. "unref" \in EventPcs /\ "await" \notin EventPcs /\ "drain" \notin EventPcs
          /\ "end" \notin EventPcs
    BY DEF EventPcs, SectionPcs
  <2>2. QED
    BY <1>1, <1>3, <1>5, <2>1 DEF SessionInv, Stages
<1>13. QED
  BY <1>8, <1>9, <1>10, <1>11, <1>12 DEF SessionInv

\* enable_free_on_unref and unref of the first released socket.
LEMMA ReleaseSession ==
    ASSUME TypeOK, TypeOK', RefInv, SessionInv, MainRelease
    PROVE  SessionInv'
<1>0. PICK r \in Socks : r = Head(release)
  BY DEF MainRelease, TypeOK, ListsOK
<1>1. /\ UNCHANGED <<armed, sess, main, batch, events, relay, cons, prepared, drainRun,
                     wpc, wev>>
      /\ main = "release" /\ release # <<>> /\ release' = Tail(release)
      /\ flags' = [flags EXCEPT ![r] = @ \cup {"FREE_ON_UNREF"}]
      /\ ref' = [ref EXCEPT ![r] = @ - 1]
      /\ life' = [life EXCEPT ![r] = IF ref[r] <= 1 THEN "freed" ELSE @]
  BY <1>0 DEF MainRelease
<1>2. /\ release \in Seq(Socks) /\ Elems(release) \subseteq Socks /\ r \in Elems(release)
      /\ Elems(release') \subseteq Elems(release) /\ r \notin Elems(release')
      /\ NoDuplicates(release')
  <2>1. release \in Seq(Socks) /\ NoDuplicates(release)
    BY DEF TypeOK, ListsOK, SessionInv, Fates
  <2>2. QED
    BY <1>0, <1>1, <2>1, ElemsType, ElemsTail, NoDupTail
<1>3. /\ life[r] = "live" /\ sess[r] # "open" /\ r \notin cons
      /\ "FREE_ON_UNREF" \notin flags[r]
  BY <1>2 DEF SessionInv, Fates
<1>4. ref[r] \in Nat /\ ref[r] >= 1
  <2>1. Released(release, r) = Released(Tail(release), r) + 1
    BY <1>0, <1>1, <1>2, ReleasedTail
  <2>2. Released(Tail(release), r) \in Nat
    <3>1. Tail(release) \in Seq(Socks)
      BY <1>1, <1>2
    <3>2. QED
      BY <3>1, ReleasedType
  <2>3. Released(release, r) >= 1
    BY <2>1, <2>2
  <2>4. QED
    BY <1>1, <2>3, HolderCounts
<1>5. /\ \A s \in Socks : s # r => /\ life'[s] = life[s] /\ ref'[s] = ref[s]
                                   /\ flags'[s] = flags[s]
      /\ ref'[r] = ref[r] - 1 /\ flags'[r] = flags[r] \cup {"FREE_ON_UNREF"}
      /\ life'[r] = IF ref[r] <= 1 THEN "freed" ELSE "live"
  BY <1>1, <1>3 DEF TypeOK, SocketsOK
<1>6. /\ ~Held(r)
      /\ \A s \in Socks : s # r /\ Held(s) => Held(s)'
  BY <1>2, <1>5 DEF Held
<1>7. \A v \in Workers : S(v)' = S(v) /\ Active(v)' = Active(v)
  BY <1>1 DEF S, Active
<1>8. OneToken'
  BY <1>1, <1>7 DEF SessionInv, OneToken
<1>9. OneWay'
  BY <1>1, <1>5 DEF SessionInv, OneWay, BothWays
<1>10. Places'
  <2>1. \A d \in Elems(events) : d \in Event /\ d.sock \in Socks /\ d.sock # r
    BY <1>3, <1>6, ElemsType, ZenonT(60) DEF TypeOK, ListsOK, Event, SessionInv, Places, Handed
  <2>2. \A d \in Elems(events') : Handed(d)'
    BY <1>1, <1>5, <1>6, <2>1, HandedFrame DEF SessionInv, Places
  <2>3. ASSUME NEW v \in Workers PROVE Phase(v)'
    <3>1. CASE Active(v)
      <4>1. S(v) \in Socks /\ S(v) # r
        BY <1>6, <3>1, ActiveHeld
      <4>2. /\ wpc'[v] = wpc[v] /\ wev'[v] = wev[v] /\ sess'[S(v)] = sess[S(v)]
            /\ S(v) \in cons' <=> S(v) \in cons
            /\ flags'[S(v)] = flags[S(v)]
            /\ Held(S(v)) => Held(S(v))'
        <5>1. \A s \in Socks : Held(s) /\ s # r => Held(s)'
          BY <1>6
        <5>2. Held(S(v)) => Held(S(v))'
          BY <1>7, <4>1, <5>1 DEF Held
        <5>3. QED
          BY <1>1, <1>5, <4>1, <5>2
      <4>3. QED
        BY <3>1, <4>2, PhaseFrame
    <3>2. CASE ~Active(v)
      BY <1>1, <3>2, PhaseIdle DEF Active
    <3>3. QED
      BY <3>1, <3>2
  <2>4. QED
    BY <1>1, <2>2, <2>3 DEF SessionInv, Places
<1>11. Fates'
  <2>1. \A s \in cons' : Held(s)' /\ sess'[s] = "open"
    BY <1>1, <1>3, <1>6 DEF SessionInv, Fates, TypeOK, ListsOK
  <2>2. \A s \in Elems(release') :
          /\ life'[s] = "live" /\ sess'[s] # "open" /\ s \notin cons'
          /\ "FREE_ON_UNREF" \notin flags'[s]
    BY <1>1, <1>2, <1>5 DEF SessionInv, Fates
  <2>3. ASSUME NEW s \in Socks
        PROVE  /\ life'[s] \in {"none", "pending"} => flags'[s] = {} /\ sess'[s] = "none"
               /\ "FREE_ON_UNREF" \in flags'[s] =>
                    sess'[s] # "open" /\ (life'[s] = "freed" <=> ref'[s] = 0)
               /\ life'[s] = "freed" =>
                    sess'[s] # "open" /\ (main' # "done" => "FREE_ON_UNREF" \in flags'[s])
    <3>1. CASE s = r
      BY <1>1, <1>3, <1>4, <1>5, <3>1
    <3>2. CASE s # r
      BY <1>1, <1>5, <3>2 DEF SessionInv, Fates
    <3>3. QED
      BY <3>1, <3>2
  <2>4. QED
    BY <1>2, <2>1, <2>2, <2>3 DEF Fates
<1>12. Stages'
  BY <1>1 DEF SessionInv, Stages
<1>13. QED
  BY <1>8, <1>9, <1>10, <1>11, <1>12 DEF SessionInv

LEMMA RelaySession ==
    ASSUME TypeOK, TypeOK', SessionInv, MainRelay
    PROVE  SessionInv'
<1>1. relay = <<>> /\ relay' = <<>> /\ events' = events
  <2>1. relay = <<>> /\ relay' = <<>> /\ events' = events \o relay
    BY DEF SessionInv, Stages, MainRelay
  <2>2. events \in Seq(Event)
    BY DEF TypeOK, ListsOK
  <2>3. events \o <<>> = events
    BY <2>2
  <2>4. QED
    BY <2>1, <2>3, Zenon
<1>2. QuietStep
  BY <1>1 DEF MainRelay, QuietStep, TypeOK, WorkersOK, SocketsOK,
     ActivePcs, EventPcs, SectionPcs
<1>3. Stages'
  BY <1>1 DEF MainRelay, SessionInv, Stages, TypeOK, MainOK, WorkersOK
<1>4. QED
  BY <1>2, <1>3, QuietSession

-----------------------------------------------------------------------------
(* The listener's events *)

LEMMA ConnectSession ==
    ASSUME TypeOK, TypeOK', SessionInv, NEW c \in Socks, ClientConnect(c)
    PROVE  SessionInv'
<1>1. /\ UNCHANGED <<flags, ref, armed, sess, main, batch, events, relay, release, cons,
                     prepared, drainRun, wpc, wev>>
      /\ life[c] = "none" /\ life' = [life EXCEPT ![c] = "pending"]
  BY DEF ClientConnect
<1>2. /\ \A s \in Socks : s # c => life'[s] = life[s]
      /\ life'[c] = "pending"
      /\ \A v \in Workers : S(v)' = S(v) /\ Active(v)' = Active(v)
  BY <1>1 DEF S, Active, TypeOK, SocketsOK
<1>3. \A s \in Socks : Held(s) => Held(s)'
  BY <1>1, <1>2 DEF Held
<1>4. OneToken'
  BY <1>1, <1>2 DEF SessionInv, OneToken
<1>5. OneWay'
  BY <1>1 DEF SessionInv, OneWay
<1>6. Places'
  <2>1. \A d \in Elems(events) : d \in Event /\ d.sock \in Socks
    BY ElemsType DEF TypeOK, ListsOK, Event
  <2>2. \A d \in Elems(events') : Handed(d)'
    BY <1>1, <1>3, <2>1, HandedFrame DEF SessionInv, Places
  <2>3. ASSUME NEW v \in Workers PROVE Phase(v)'
    <3>1. CASE Active(v)
      <4>1. S(v) \in Socks
        BY <3>1, ActiveHeld
      <4>2. Held(S(v)) => Held(S(v))'
        BY <1>2, <1>3, <4>1 DEF Held
      <4>3. QED
        BY <1>1, <3>1, <4>2, PhaseFrame
    <3>2. CASE ~Active(v)
      BY <1>1, <3>2, PhaseIdle DEF Active
    <3>3. QED
      BY <3>1, <3>2
  <2>4. QED
    BY <1>1, <2>2, <2>3 DEF SessionInv, Places
<1>7. Fates'
  <2>1. \A s \in cons' : Held(s)' /\ sess'[s] = "open"
    BY <1>1, <1>3 DEF SessionInv, Fates, TypeOK, ListsOK
  <2>2. \A s \in Elems(release') :
          /\ life'[s] = "live" /\ sess'[s] # "open" /\ s \notin cons'
          /\ "FREE_ON_UNREF" \notin flags'[s]
    BY <1>1, <1>2, ElemsType DEF SessionInv, Fates, TypeOK, ListsOK
  <2>3. QED
    BY <1>1, <1>2, <2>1, <2>2 DEF SessionInv, Fates
<1>8. Stages'
  BY <1>1 DEF SessionInv, Stages
<1>9. QED
  BY <1>4, <1>5, <1>6, <1>7, <1>8 DEF SessionInv

\* A socket in the backlog is nowhere else.
LEMMA AcceptSession ==
    ASSUME TypeOK, TypeOK', SessionInv, MainAccept
    PROVE  SessionInv'
<1>1. PICK c \in Socks :
        /\ life[c] = "pending" /\ life' = [life EXCEPT ![c] = "live"]
        /\ ref' = [ref EXCEPT ![c] = @ + 1]
        /\ events' = Append(events, Ev(c, "ACCEPTED"))
  BY DEF MainAccept
<1>2. PICK e \in Event : e = Ev(c, "ACCEPTED")
  BY DEF Ev, Event, EventType
<1>3. /\ UNCHANGED <<flags, armed, sess, main, batch, relay, release, cons, prepared,
                     drainRun, wev>>
      /\ main = "accept" /\ e.sock = c /\ e.type = "ACCEPTED"
      /\ events' = Append(events, e)
  BY <1>1, <1>2 DEF MainAccept, Ev
<1>4. /\ \A v \in Workers : S(v)' = S(v) /\ wev'[v] = wev[v]
      /\ \A v \in Workers : wpc'[v] = wpc[v] \/ (wpc[v] = "wait" /\ wpc'[v] = "lock")
      /\ \A v \in Workers : Active(v)' => Active(v) /\ wpc'[v] = wpc[v]
  BY <1>3, SignalMoves DEF MainAccept, Active, ActivePcs, EventPcs, SectionPcs, S
<1>5. /\ flags[c] = {} /\ sess[c] = "none" /\ c \notin cons /\ ~Held(c)
      /\ c \notin Elems(release) /\ armed[c] = {}
  <2>1. flags[c] = {} /\ sess[c] = "none" /\ ~Held(c)
    BY <1>1 DEF SessionInv, Fates, Held
  <2>2. c \notin cons /\ c \notin Elems(release)
    BY <1>1 DEF SessionInv, Fates, Held
  <2>3. QED
    BY <1>3, <2>1, <2>2 DEF SessionInv, Places
<1>6. /\ Elems(events) \subseteq Event
      /\ \A d \in Elems(events) : d.sock # c /\ d.sock \in Socks
      /\ \A b \in batch : b.sock # c
      /\ \A v \in Workers : Active(v) => S(v) # c /\ S(v) \in Socks
  <2>1. Elems(events) \subseteq Event
    BY ElemsType DEF TypeOK, ListsOK
  <2>2. \A d \in Elems(events) : d.sock # c /\ d.sock \in Socks
    BY <1>5, <2>1 DEF SessionInv, Places, Handed, Event
  <2>3. \A b \in batch : b.sock # c
    BY <1>5 DEF SessionInv, Places
  <2>4. QED
    BY <1>5, <2>1, <2>2, <2>3, ActiveHeld
<1>7. Elems(events') = Elems(events) \cup {e} /\ OnceIn(events')
  <2>1. events \in Seq(Event) /\ OnceIn(events)
    BY DEF TypeOK, ListsOK, SessionInv, OneToken
  <2>2. QED
    BY <1>3, <1>6, <2>1, ElemsAppend, OnceAppend
<1>8. /\ \A s \in Socks : s # c => life'[s] = life[s] /\ ref'[s] = ref[s]
      /\ life'[c] = "live"
  BY <1>1 DEF TypeOK, SocketsOK
<1>9. Held(c)' /\ \A s \in Socks : Held(s) => Held(s)'
  BY <1>3, <1>5, <1>8 DEF Held
<1>10. OneToken'
  <2>1. \A u, v \in Workers : Active(u)' /\ Active(v)' /\ S(u)' = S(v)' => u = v
    BY <1>4 DEF SessionInv, OneToken
  <2>2. ASSUME NEW v \in Workers, Active(v)'
        PROVE  /\ armed'[S(v)'] = {}
               /\ \A d \in Elems(events') : d.sock # S(v)'
               /\ \A b \in batch' : b.sock # S(v)'
    BY <1>3, <1>4, <1>6, <1>7, <2>2 DEF SessionInv, OneToken
  <2>3. \A d \in Elems(events') : armed'[d.sock] = {} /\ \A b \in batch' : b.sock # d.sock
    BY <1>3, <1>5, <1>6, <1>7 DEF SessionInv, OneToken
  <2>4. /\ \A b, d \in batch' : b.sock = d.sock => b = d
        /\ \A b \in batch' : armed'[b.sock] = {}
    BY <1>3 DEF SessionInv, OneToken
  <2>5. QED
    BY <1>7, <2>1, <2>2, <2>3, <2>4 DEF OneToken
<1>11. OneWay'
  BY <1>3 DEF SessionInv, OneWay
<1>12. Places'
  <2>1. \A d \in Elems(events) : Handed(d)'
    BY <1>3, <1>6, <1>9, HandedFrame DEF SessionInv, Places
  <2>2. Handed(e)'
    BY <1>3, <1>5, <1>9 DEF Handed, Held
  <2>3. \A d \in Elems(events') : Handed(d)'
    BY <1>7, <2>1, <2>2
  <2>4. ASSUME NEW v \in Workers PROVE Phase(v)'
    <3>1. CASE Active(v)'
      <4>1. Held(S(v)) => Held(S(v))'
        BY <1>4, <1>6, <1>9, <3>1 DEF Held
      <4>2. QED
        BY <1>3, <1>4, <3>1, <4>1, PhaseFrame
    <3>2. CASE ~Active(v)'
      BY <3>2, PhaseIdle DEF Active
    <3>3. QED
      BY <3>1, <3>2
  <2>5. QED
    BY <1>3, <2>3, <2>4 DEF SessionInv, Places
<1>13. Fates'
  <2>1. \A s \in cons' : Held(s)' /\ sess'[s] = "open"
    BY <1>3, <1>9 DEF SessionInv, Fates, TypeOK, ListsOK
  <2>2. \A s \in Elems(release') :
          /\ life'[s] = "live" /\ sess'[s] # "open" /\ s \notin cons'
          /\ "FREE_ON_UNREF" \notin flags'[s]
    BY <1>3, <1>8, ElemsType DEF SessionInv, Fates, TypeOK, ListsOK
  <2>3. QED
    BY <1>3, <1>5, <1>8, <2>1, <2>2 DEF SessionInv, Fates
<1>14. Stages'
  <2>1. "lock" \notin EventPcs /\ "wait" \notin EventPcs
    BY DEF EventPcs, SectionPcs
  <2>2. QED
    BY <1>3, <1>4, <2>1 DEF SessionInv, Stages
<1>15. QED
  BY <1>10, <1>11, <1>12, <1>13, <1>14 DEF SessionInv

\* epoll_wait takes the interest of every socket it reports.
LEMMA ListenSession ==
    ASSUME TypeOK, TypeOK', SessionInv, MainListen
    PROVE  SessionInv'
<1>1. PICK rep :
        /\ \A s \in rep \cap Socks : Reported(s) # {}
        /\ batch' = {[sock |-> s, types |-> EventTypes(Reported(s))] : s \in rep \cap Socks}
        /\ armed' = [s \in Socks |-> IF s \in rep THEN {} ELSE armed[s]]
  BY NamesAssumption DEF MainListen, CFD, SRV
<1>2. /\ UNCHANGED <<life, flags, ref, sess, events, relay, release, cons, prepared,
                     drainRun, wpc, wev>>
      /\ main = "listen" /\ main' = "queued"
  BY DEF MainListen
<1>3. \A s \in rep \cap Socks : armed[s] # {} /\ armed'[s] = {} /\ s \in cons
  BY <1>1, <1>2 DEF Reported, SessionInv, Places
<1>4. \A s \in Socks : armed'[s] # {} => armed'[s] = armed[s]
  BY <1>1
<1>5. \A b \in batch' : /\ b.sock \in rep \cap Socks
                        /\ b.types = EventTypes(Reported(b.sock))
  BY <1>1
<1>6. /\ \A v \in Workers : S(v)' = S(v) /\ Active(v)' = Active(v)
      /\ \A s : Held(s)' = Held(s)
      /\ \A d \in Elems(events) : d \in Event /\ d.sock \in Socks
  BY <1>2, ElemsType DEF S, Active, Held, TypeOK, ListsOK, Event
<1>7. OneToken'
  <2>1. \A b, c \in batch' : b.sock = c.sock => b = c
    BY <1>1
  <2>2. ASSUME NEW v \in Workers, Active(v)'
        PROVE  /\ armed'[S(v)'] = {}
               /\ \A d \in Elems(events') : d.sock # S(v)'
               /\ \A b \in batch' : b.sock # S(v)'
    <3>1. Active(v) /\ S(v)' = S(v) /\ S(v) \in Socks /\ armed[S(v)] = {}
      BY <1>6, <2>2, ActiveHeld DEF SessionInv, OneToken
    <3>2. QED
      BY <1>2, <1>3, <1>4, <1>5, <3>1 DEF SessionInv, OneToken
  <2>3. \A d \in Elems(events') : armed'[d.sock] = {} /\ \A b \in batch' : b.sock # d.sock
    BY <1>2, <1>3, <1>4, <1>5, <1>6 DEF SessionInv, OneToken
  <2>4. \A b \in batch' : armed'[b.sock] = {}
    BY <1>3, <1>5
  <2>5. QED
    BY <1>2, <1>6, <2>1, <2>2, <2>3, <2>4 DEF SessionInv, OneToken
<1>8. OneWay'
  <2>1. ASSUME NEW b \in batch', {"READ", "WRITE"} \subseteq b.types
        PROVE  FALSE
    <3>0. \A bits : /\ "READ" \in EventTypes(bits) => "IN" \in bits
                    /\ "WRITE" \in EventTypes(bits) => "OUT" \in bits
      BY DEF EventTypes
    <3>1. {"IN", "OUT"} \subseteq Reported(b.sock)
      BY <1>5, <2>1, <3>0
    <3>2. {"IN", "OUT"} \subseteq armed[b.sock]
      BY <3>1 DEF Reported
    <3>3. QED
      BY <1>5, <3>2 DEF SessionInv, OneWay
  <2>2. QED
    BY <1>2, <1>4, <2>1 DEF SessionInv, OneWay
<1>9. Places'
  <2>1. \A d \in Elems(events') : Handed(d)'
    BY <1>2, <1>6, HandedFrame DEF SessionInv, Places
  <2>2. ASSUME NEW v \in Workers PROVE Phase(v)'
    <3>1. CASE Active(v)
      BY <1>2, <1>6, <3>1, PhaseFrame
    <3>2. CASE ~Active(v)
      BY <1>2, <3>2, PhaseIdle DEF Active
    <3>3. QED
      BY <3>1, <3>2
  <2>3. \A s \in Socks : armed'[s] # {} => s \in cons'
    BY <1>2, <1>4 DEF SessionInv, Places
  <2>4. QED
    BY <1>2, <1>3, <1>5, <2>1, <2>2, <2>3 DEF Places
<1>10. Fates'
  BY <1>2, <1>6 DEF SessionInv, Fates
<1>11. Stages'
  BY <1>2 DEF SessionInv, Stages
<1>12. QED
  BY <1>7, <1>8, <1>9, <1>10, <1>11 DEF SessionInv

\* One direction makes at most one entry, and never an ACCEPTED one.
LEMMA EntriesOne ==
    ASSUME NEW b \in [sock : Socks, types : SUBSET EventType], NEW f,
           {"READ", "WRITE"} \subseteq b.types => "CLOSED" \in b.types
    PROVE  \/ EntriesOf(b, f) = <<>>
           \/ \E e \in Event : /\ EntriesOf(b, f) = <<e>>
                               /\ e.sock = b.sock /\ e.type # "ACCEPTED"
<1>1. \A t \in EventType : /\ Ev(b.sock, t) \in Event
                           /\ Ev(b.sock, t).sock = b.sock /\ Ev(b.sock, t).type = t
  BY DEF Ev, Event
<1>2. CASE "CLOSED" \in b.types
  <2>1. EntriesOf(b, f) = <<Ev(b.sock, "CLOSED")>>
    BY <1>2 DEF EntriesOf
  <2>2. QED
    BY <1>1, <2>1 DEF EventType
<1>3. CASE "CLOSED" \notin b.types /\ "ERROR" \in b.types
  <2>1. EntriesOf(b, f) = <<Ev(b.sock, "ERROR")>>
    BY <1>3 DEF EntriesOf
  <2>2. QED
    BY <1>1, <2>1 DEF EventType
<1>4. CASE "CLOSED" \notin b.types /\ "ERROR" \notin b.types
  <2> DEFINE r == IF "WRITE_AGAIN_WHEN_READABLE" \in f THEN "WRITE" ELSE "READ"
             x == IF "READ_AGAIN_WHEN_WRITEABLE" \in f THEN "READ" ELSE "WRITE"
  <2>0. /\ r \in EventType /\ r # "ACCEPTED" /\ x \in EventType /\ x # "ACCEPTED"
        /\ Ev(b.sock, r) \in Event /\ Ev(b.sock, x) \in Event
    BY <1>1 DEF EventType
  <2>1. EntriesOf(b, f) = (IF "READ" \notin b.types THEN <<>> ELSE <<Ev(b.sock, r)>>)
                            \o (IF "WRITE" \notin b.types THEN <<>> ELSE <<Ev(b.sock, x)>>)
    BY <1>4 DEF EntriesOf
  <2> HIDE DEF r, x
  <2>2. \A e : <<>> \o <<e>> = <<e>> /\ <<e>> \o <<>> = <<e>>
    OBVIOUS
  <2>3. <<>> \o <<>> = <<>>
    OBVIOUS
  <2>4. CASE "READ" \in b.types
    <3>1. "WRITE" \notin b.types
      BY <1>4, <2>4
    <3>2. EntriesOf(b, f) = <<Ev(b.sock, r)>> \o <<>>
      BY <2>1, <2>4, <3>1, Zenon
    <3>3. EntriesOf(b, f) = <<Ev(b.sock, r)>>
      BY <2>2, <3>2, Zenon
    <3>4. QED
      BY <1>1, <2>0, <3>3
  <2>5. CASE "READ" \notin b.types /\ "WRITE" \in b.types
    <3>1. EntriesOf(b, f) = <<>> \o <<Ev(b.sock, x)>>
      BY <2>1, <2>5, Zenon
    <3>2. EntriesOf(b, f) = <<Ev(b.sock, x)>>
      BY <2>2, <3>1, Zenon
    <3>3. QED
      BY <1>1, <2>0, <3>2
  <2>6. CASE "READ" \notin b.types /\ "WRITE" \notin b.types
    <3>1. EntriesOf(b, f) = <<>> \o <<>>
      BY <2>1, <2>6, Zenon
    <3>2. QED
      BY <2>3, <3>1, Zenon
  <2>7. QED
    BY <2>4, <2>5, <2>6
<1>5. QED
  BY <1>2, <1>3, <1>4

\* The token of a reported socket goes from the batch to the queue.
LEMMA DispatchSession ==
    ASSUME TypeOK, TypeOK', SessionInv, MainDispatch
    PROVE  SessionInv'
<1>1. PICK b \in batch :
        /\ flags' = [flags EXCEPT ![b.sock] = IF "CLOSED" \in b.types
                                              THEN CloseState(@) ELSE @]
        /\ armed' = [armed EXCEPT ![b.sock] = IF "CLOSED" \in b.types THEN {} ELSE @]
        /\ ref' = [ref EXCEPT ![b.sock] = @ + Len(EntriesOf(b, flags[b.sock]))]
        /\ events' = events \o EntriesOf(b, flags[b.sock])
        /\ batch' = batch \ {b}
  BY DEF MainDispatch
<1>2. /\ UNCHANGED <<life, sess, main, relay, release, cons, prepared, drainRun, wpc, wev>>
      /\ main = "dispatch"
  BY DEF MainDispatch
<1>3. /\ b \in [sock : Socks, types : SUBSET EventType] /\ b.sock \in Socks
      /\ b.sock \in cons /\ armed[b.sock] = {} /\ Held(b.sock)
      /\ {"READ", "WRITE"} \subseteq b.types => "CLOSED" \in b.types
      /\ \A c \in batch' : c \in batch /\ c.sock # b.sock /\ c.sock \in Socks
  BY <1>1 DEF TypeOK, MainOK, SessionInv, OneToken, OneWay, Places, Fates
<1>4. /\ \A v \in Workers : S(v)' = S(v) /\ Active(v)' = Active(v)
      /\ \A v \in Workers : Active(v) => S(v) # b.sock /\ S(v) \in Socks
      /\ Elems(events) \subseteq Event
      /\ \A d \in Elems(events) : d.sock # b.sock /\ d.sock \in Socks
  <2>1. \A v \in Workers : Active(v) => S(v) # b.sock /\ S(v) \in Socks
    BY ActiveHeld DEF SessionInv, OneToken
  <2>2. Elems(events) \subseteq Event
    BY ElemsType DEF TypeOK, ListsOK
  <2>3. \A d \in Elems(events) : d.sock # b.sock /\ d.sock \in Socks
    BY <2>2 DEF SessionInv, OneToken, Event
  <2>4. QED
    BY <1>2, <2>1, <2>2, <2>3 DEF S, Active
<1>5. /\ OnceIn(events')
      /\ \A d \in Elems(events') : d \in Elems(events)
                                     \/ (d.sock = b.sock /\ d.type # "ACCEPTED" /\ d \in Event)
  <2>1. events \in Seq(Event) /\ OnceIn(events)
    BY DEF TypeOK, ListsOK, SessionInv, OneToken
  <2>2. CASE EntriesOf(b, flags[b.sock]) = <<>>
    <3>1. events \o <<>> = events
      BY <2>1
    <3>2. events' = events
      BY <1>1, <2>2, <3>1, Zenon
    <3>3. QED
      BY <2>1, <3>2
  <2>3. ASSUME NEW e \in Event, EntriesOf(b, flags[b.sock]) = <<e>>,
               e.sock = b.sock, e.type # "ACCEPTED"
        PROVE  /\ OnceIn(events')
               /\ \A d \in Elems(events') : d \in Elems(events) \/ d = e
    <3>1. events \o <<e>> = Append(events, e)
      BY <2>1
    <3>2. events' = Append(events, e)
      BY <1>1, <2>3, <3>1, Zenon
    <3>3. OnceIn(Append(events, e)) /\ Elems(Append(events, e)) = Elems(events) \cup {e}
      BY <1>4, <2>1, <2>3, OnceAppend, ElemsAppend
    <3>4. QED
      BY <3>2, <3>3
  <2>4. QED
    BY <1>3, <2>2, <2>3, EntriesOne
<1>6. /\ \A s \in Socks : s # b.sock => flags'[s] = flags[s] /\ ref'[s] = ref[s]
      /\ \A s \in Socks : armed'[s] = armed[s]
      /\ "FREE_ON_UNREF" \notin flags'[b.sock] /\ "FREE_ON_UNREF" \notin flags[b.sock]
      /\ \A s \in Socks : BothWays(flags'[s]) => BothWays(flags[s])
  BY <1>1, <1>3 DEF TypeOK, SocketsOK, CloseState, BothWays, Held
<1>7. Held(b.sock)' /\ \A s \in Socks : Held(s) => Held(s)'
  BY <1>2, <1>3, <1>6 DEF Held
<1>8. OneToken'
  <2>1. \A u, v \in Workers : Active(u)' /\ Active(v)' /\ S(u)' = S(v)' => u = v
    BY <1>4 DEF SessionInv, OneToken
  <2>2. ASSUME NEW v \in Workers, Active(v)'
        PROVE  /\ armed'[S(v)'] = {}
               /\ \A d \in Elems(events') : d.sock # S(v)'
               /\ \A c \in batch' : c.sock # S(v)'
    BY <1>3, <1>4, <1>5, <1>6, <2>2 DEF SessionInv, OneToken
  <2>3. ASSUME NEW d \in Elems(events')
        PROVE  armed'[d.sock] = {} /\ \A c \in batch' : c.sock # d.sock
    <3>1. CASE d \in Elems(events)
      BY <1>3, <1>4, <1>6, <3>1 DEF SessionInv, OneToken
    <3>2. CASE d.sock = b.sock
      BY <1>3, <1>6, <3>2
    <3>3. QED
      BY <1>5, <3>1, <3>2
  <2>4. /\ \A c, d \in batch' : c.sock = d.sock => c = d
        /\ \A c \in batch' : armed'[c.sock] = {}
    BY <1>3, <1>6 DEF SessionInv, OneToken
  <2>5. QED
    BY <1>5, <2>1, <2>2, <2>3, <2>4 DEF OneToken
<1>9. OneWay'
  BY <1>3, <1>6 DEF SessionInv, OneWay
<1>10. Places'
  <2>1. \A d \in Elems(events) : Handed(d)'
    BY <1>2, <1>4, <1>6, <1>7, HandedFrame DEF SessionInv, Places
  <2>2. \A d \in Elems(events') : Handed(d)'
    BY <1>2, <1>3, <1>5, <2>1 DEF Handed
  <2>3. ASSUME NEW v \in Workers PROVE Phase(v)'
    <3>1. CASE Active(v)
      <4>1. Held(S(v)) => Held(S(v))'
        BY <1>4, <1>7, <3>1 DEF Held
      <4>2. QED
        BY <1>2, <1>4, <1>6, <3>1, <4>1, PhaseFrame
    <3>2. CASE ~Active(v)
      BY <1>2, <3>2, PhaseIdle DEF Active
    <3>3. QED
      BY <3>1, <3>2
  <2>4. QED
    BY <1>2, <1>3, <1>6, <2>2, <2>3 DEF SessionInv, Places
<1>11. Fates'
  <2>1. \A s \in cons' : Held(s)' /\ sess'[s] = "open"
    BY <1>2, <1>7 DEF SessionInv, Fates, TypeOK, ListsOK
  <2>2. \A s \in Elems(release') :
          /\ life'[s] = "live" /\ sess'[s] # "open" /\ s \notin cons'
          /\ "FREE_ON_UNREF" \notin flags'[s]
    BY <1>2, <1>3, <1>6, ElemsType DEF SessionInv, Fates, TypeOK, ListsOK
  <2>3. ASSUME NEW s \in Socks
        PROVE  /\ life'[s] \in {"none", "pending"} => flags'[s] = {} /\ sess'[s] = "none"
               /\ "FREE_ON_UNREF" \in flags'[s] =>
                    sess'[s] # "open" /\ (life'[s] = "freed" <=> ref'[s] = 0)
               /\ life'[s] = "freed" =>
                    sess'[s] # "open" /\ (main' # "done" => "FREE_ON_UNREF" \in flags'[s])
    <3>1. CASE s = b.sock
      BY <1>2, <1>3, <1>6, <3>1 DEF Held
    <3>2. CASE s # b.sock
      BY <1>2, <1>6, <3>2 DEF SessionInv, Fates
    <3>3. QED
      BY <3>1, <3>2
  <2>4. QED
    BY <1>2, <2>1, <2>2, <2>3 DEF SessionInv, Fates
<1>12. Stages'
  BY <1>1, <1>2 DEF SessionInv, Stages
<1>13. QED
  BY <1>8, <1>9, <1>10, <1>11, <1>12 DEF SessionInv

-----------------------------------------------------------------------------
(* The shutdown *)

\* The drain queues one CLOSED event for each connection in service.
LEMMA CloseEntriesOnce ==
    ASSUME NEW C \in SUBSET Socks, NEW q \in CloseEntries(C)
    PROVE  /\ OnceIn(q)
           /\ \A e \in Elems(q) : e \in Event /\ e.sock \in C /\ e.type = "CLOSED"
           /\ \A c \in C : \E e \in Elems(q) : e.sock = c
<1>1. IsFiniteSet(C) /\ Cardinality(C) \in Nat
  BY ThreadsAssumption, FS_Subset, FS_CardinalityType
<1>2. /\ q \in [1 .. Cardinality(C) -> {Ev(c, "CLOSED") : c \in C}]
      /\ \A c \in C : \E i \in 1 .. Cardinality(C) : q[i].sock = c
  BY DEF CloseEntries
<1>3. \A i \in 1 .. Cardinality(C) : q[i] \in Event /\ q[i].sock \in C /\ q[i].type = "CLOSED"
  BY <1>2 DEF Ev, Event, EventType
<1> DEFINE f == [i \in 1 .. Cardinality(C) |-> q[i].sock]
<1>4. f \in Surjection(1 .. Cardinality(C), C)
  BY <1>2, <1>3 DEF Surjection
<1>5. IsFiniteSet(1 .. Cardinality(C)) /\ Cardinality(1 .. Cardinality(C)) = Cardinality(C)
  BY <1>1, FS_Interval
<1>6. f \in Injection(1 .. Cardinality(C), C)
  BY <1>4, <1>5, FS_SurjSameCardinalityImpliesInj
<1>7. \A i, j \in 1 .. Cardinality(C) : q[i].sock = q[j].sock => i = j
  BY <1>6 DEF Injection, IsInjective
<1>8. DOMAIN q = 1 .. Cardinality(C)
  BY <1>2
<1>9. QED
  BY <1>2, <1>3, <1>7, <1>8 DEF OnceIn, Elems

LEMMA DrainSession ==
    ASSUME TypeOK, TypeOK', SessionInv, DrainClose
    PROVE  SessionInv'
<1>1. /\ UNCHANGED <<sess, batch, relay, release, cons, prepared, wpc, wev>>
      /\ main = "dclose" /\ main' = "join" /\ drainRun' = TRUE
      /\ flags' = [s \in Socks |-> IF s \in cons THEN CloseState(flags[s]) ELSE flags[s]]
      /\ armed' = [s \in Socks |-> IF s \in cons THEN {} ELSE armed[s]]
      /\ ref' = [s \in Socks |-> (ref[s] - Count(events, s)) + (IF s \in cons THEN 1 ELSE 0)]
      /\ life' = [s \in Socks |->
                    IF Count(events, s) > 0 /\ Count(events, s) >= ref[s]
                          /\ "FREE_ON_UNREF" \in flags[s]
                    THEN "freed" ELSE life[s]]
  BY DEF DrainClose
<1>2. /\ batch = {} /\ cons \subseteq Socks
      /\ \A v \in Workers : ~Active(v)
      /\ \A v \in Workers : ~Active(v)' /\ wpc'[v] = "await"
      /\ prepared = Workers
  <2>1. batch = {} /\ cons \subseteq Socks
    BY <1>1 DEF SessionInv, Stages, TypeOK, ListsOK
  <2>2. \A v \in Workers : wpc[v] = "await" /\ v \in prepared
    BY <1>1 DEF SessionInv, Stages
  <2>3. prepared = Workers
    BY <1>1 DEF SessionInv, Stages
  <2>4. QED
    BY <1>1, <2>1, <2>2, <2>3 DEF Active, ActivePcs, EventPcs, SectionPcs
<1>3. /\ OnceIn(events')
      /\ \A e \in Elems(events') : e \in Event /\ e.sock \in cons /\ e.type = "CLOSED"
  BY <1>2, CloseEntriesOnce DEF DrainClose
<1>4. \A s \in Socks : armed'[s] = {}
  BY <1>1 DEF SessionInv, Places
<1>5. ASSUME NEW s \in Socks, "FREE_ON_UNREF" \in flags[s]
      PROVE  Count(events, s) = 0 /\ s \notin cons
  <2>1. s \notin cons /\ ~Held(s)
    BY <1>5 DEF Held, SessionInv, Fates
  <2>2. \A e \in Elems(events) : e.sock # s
    BY <2>1 DEF SessionInv, Places, Handed
  <2>3. {i \in DOMAIN events : events[i].sock = s} = {}
    BY <2>2 DEF Elems
  <2>4. QED
    BY <2>1, <2>3, FS_EmptySet DEF Count
<1>6. /\ \A s \in Socks : life'[s] = life[s]
      /\ \A s \in Socks : "FREE_ON_UNREF" \in flags'[s] => ref'[s] = ref[s]
      /\ \A s \in Socks : "FREE_ON_UNREF" \in flags'[s] <=> "FREE_ON_UNREF" \in flags[s]
      /\ \A s \in Socks : s \notin cons => flags'[s] = flags[s]
      /\ \A s \in Socks : BothWays(flags'[s]) => BothWays(flags[s])
  <2>1. \A s \in Socks : life'[s] = life[s]
    BY <1>1, <1>5
  <2>2. \A s \in Socks : "FREE_ON_UNREF" \in flags'[s] <=> "FREE_ON_UNREF" \in flags[s]
    BY <1>1 DEF CloseState
  <2>3. ASSUME NEW s \in Socks, "FREE_ON_UNREF" \in flags[s] PROVE ref'[s] = ref[s]
    <3>1. ref'[s] = (ref[s] - 0) + 0
      BY <1>1, <1>5, <2>3
    <3>2. ref[s] \in Int
      BY DEF TypeOK, SocketsOK
    <3>3. QED
      BY <3>1, <3>2
  <2>4. QED
    BY <1>1, <2>1, <2>2, <2>3 DEF CloseState, BothWays
<1>7. \A s \in Socks : Held(s) => Held(s)'
  BY <1>1, <1>6 DEF Held
<1>8. OneToken'
  <2>1. \A e \in Elems(events') : e.sock \in Socks
    BY <1>2, <1>3
  <2>2. QED
    BY <1>1, <1>2, <1>3, <1>4, <2>1 DEF OneToken
<1>9. OneWay'
  BY <1>1, <1>2, <1>4, <1>6 DEF SessionInv, OneWay
<1>10. Places'
  <2>1. \A e \in Elems(events') : Handed(e)'
    BY <1>1, <1>3 DEF Handed
  <2>2. \A v \in Workers : Phase(v)'
    BY <1>2, PhaseIdle DEF Active
  <2>3. QED
    BY <1>1, <1>2, <1>4, <2>1, <2>2 DEF Places
<1>11. Fates'
  <2>1. \A s \in cons' : Held(s)' /\ sess'[s] = "open"
    BY <1>1, <1>2, <1>7 DEF SessionInv, Fates
  <2>2. \A s \in Elems(release') :
          /\ life'[s] = "live" /\ sess'[s] # "open" /\ s \notin cons'
          /\ "FREE_ON_UNREF" \notin flags'[s]
    BY <1>1, <1>6, ElemsType DEF SessionInv, Fates, TypeOK, ListsOK
  <2>3. ASSUME NEW s \in Socks
        PROVE  /\ life'[s] \in {"none", "pending"} => flags'[s] = {} /\ sess'[s] = "none"
               /\ "FREE_ON_UNREF" \in flags'[s] =>
                    sess'[s] # "open" /\ (life'[s] = "freed" <=> ref'[s] = 0)
               /\ life'[s] = "freed" =>
                    sess'[s] # "open" /\ (main' # "done" => "FREE_ON_UNREF" \in flags'[s])
    <3>1. s \in cons => life[s] = "live"
      BY DEF SessionInv, Fates, Held
    <3>2. QED
      BY <1>1, <1>6, <3>1 DEF SessionInv, Fates
  <2>4. QED
    BY <1>1, <2>1, <2>2, <2>3 DEF SessionInv, Fates
<1>12. Stages'
  BY <1>1, <1>2 DEF SessionInv, Stages
<1>13. QED
  BY <1>8, <1>9, <1>10, <1>11, <1>12 DEF SessionInv

\* free_sockets frees what is left in the release list.
LEMMA CleanSession ==
    ASSUME TypeOK, TypeOK', SessionInv, Clean
    PROVE  SessionInv'
<1>1. /\ UNCHANGED <<flags, ref, armed, sess, batch, prepared, drainRun, wpc, wev>>
      /\ main = "clean" /\ main' = "done"
      /\ release' = <<>> /\ relay' = <<>> /\ events' = <<>> /\ cons' = {}
      /\ life' = [s \in Socks |-> IF s \in Elems(release) THEN "freed" ELSE life[s]]
  <2>1. \A s \in Socks : (\E i \in DOMAIN release : release[i] = s) <=> s \in Elems(release)
    BY DEF Elems
  <2>2. QED
    BY <2>1 DEF Clean
<1>2. /\ batch = {}
      /\ \A v \in Workers : ~Active(v)' /\ wpc'[v] = "end"
  BY <1>1 DEF SessionInv, Stages, Active, ActivePcs, EventPcs, SectionPcs
<1>3. Elems(events') = {} /\ Elems(release') = {} /\ OnceIn(events') /\ NoDuplicates(release')
  BY <1>1, ElemsEmpty DEF NoDuplicates
<1>4. OneToken'
  BY <1>1, <1>2, <1>3 DEF OneToken
<1>5. OneWay'
  BY <1>1 DEF SessionInv, OneWay
<1>6. Places'
  <2>1. \A v \in Workers : Phase(v)'
    BY <1>2, PhaseIdle DEF Active
  <2>2. QED
    BY <1>1, <1>2, <1>3, <2>1 DEF Places
<1>7. Fates'
  <2>1. ASSUME NEW s \in Socks
        PROVE  /\ life'[s] \in {"none", "pending"} => flags'[s] = {} /\ sess'[s] = "none"
               /\ "FREE_ON_UNREF" \in flags'[s] =>
                    sess'[s] # "open" /\ (life'[s] = "freed" <=> ref'[s] = 0)
               /\ life'[s] = "freed" =>
                    sess'[s] # "open" /\ (main' # "done" => "FREE_ON_UNREF" \in flags'[s])
    BY <1>1 DEF SessionInv, Fates
  <2>2. QED
    BY <1>1, <1>3, <2>1 DEF Fates
<1>8. Stages'
  BY <1>1, <1>2 DEF SessionInv, Stages
<1>9. QED
  BY <1>4, <1>5, <1>6, <1>7, <1>8 DEF SessionInv

LEMMA ClientSession ==
    ASSUME TypeOK, TypeOK', SessionInv, NEW c \in Socks,
           ClientSend(c) \/ ClientRecv(c) \/ ClientLeave(c)
    PROVE  SessionInv'
<1>1. UNCHANGED <<sockVars, mainVars, listVars, ctlVars, workVars>>
  BY DEF ClientSend, ClientRecv, ClientLeave
<1>2. QuietStep /\ Stages'
  BY <1>1 DEF QuietStep, SessionInv, Stages
<1>3. QED
  BY <1>2, QuietSession

-----------------------------------------------------------------------------
(* The theorems *)

LEMMA SessionInit == Init => SessionInv
<1> SUFFICES ASSUME Init PROVE SessionInv
  OBVIOUS
<1>1. Elems(events) = {} /\ Elems(release) = {} /\ OnceIn(events) /\ NoDuplicates(release)
  BY ElemsEmpty DEF Init, NoDuplicates
<1>2. OneToken
  BY <1>1 DEF Init, OneToken, Active, ActivePcs, EventPcs, SectionPcs
<1>3. OneWay
  BY DEF Init, OneWay, BothWays
<1>4. Places
  BY <1>1 DEF Init, Places, Phase
<1>5. Fates
  BY <1>1 DEF Init, Fates
<1>6. Stages
  BY DEF Init, Stages
<1>7. QED
  BY <1>2, <1>3, <1>4, <1>5, <1>6 DEF SessionInv

LEMMA SessionStep ==
    ASSUME OneDirection, TypeOK, RefInv, SessionInv, [Next]_vars
    PROVE  SessionInv'
<1>0. TypeOK'
  BY TypeStep
<1>1. CASE MainNext
  BY <1>0, <1>1, LoopSession, ListenSession, InterruptedSession, ListenFailsSession,
     LockEventsSession, ReleaseSession, RelaySession, DispatchSession, UnlockEventsSession,
     AcceptSession, AcceptAgainSession, DrainSignalSession, DrainAwaitSession, DrainSession,
     JoinSession, CleanSession DEF MainNext
<1>2. ASSUME NEW w \in Workers, WorkerNext(w) \/ SpuriousWake(w)
      PROVE  SessionInv'
  <2>1. CASE \/ WorkerTop(w) \/ WorkerPoll(w) \/ WorkerEmpty(w) \/ WorkerWait(w)
             \/ WorkerCount(w) \/ WorkerAwait(w) \/ WorkerEnd(w) \/ SpuriousWake(w)
    BY <1>0, <2>1, WorkerTopSession, PollSession, WorkerEmptySession, WorkerWaitSession,
       WorkerCountSession, WorkerAwaitSession, WorkerEndSession, SpuriousWakeSession
  <2>2. CASE \/ SockEventState(w) \/ SockTrylock(w) \/ AddEvent(w) \/ SockUnlock(w)
             \/ SockUnref(w) \/ SockAccepted(w) \/ SockConnected(w) \/ SockCheck(w)
    BY <1>0, <2>2, StateSession, TrylockSession, AddEventSession, SockUnlockSession,
       UnrefSession, AcceptedSession, ConnectedSession, CheckSession
  <2>3. CASE \/ SockAdd(w) \/ SockCanRead(w) \/ SockCanWrite(w) \/ SockRearm(w)
             \/ SockError(w) \/ SockClosed(w) \/ SockDisconnected(w) \/ SockFree(w)
    BY <1>0, <2>3, AddSession, CanReadSession, CanWriteSession, RearmSession, ErrorSession,
       ClosedSession, DisconnectedSession, FreeSession
  <2>4. QED
    BY <1>2, <2>1, <2>2, <2>3 DEF WorkerNext
<1>3. CASE \E a \in Apps : AppNext(a)
  BY <1>3 DEF OneDirection
<1>4. ASSUME NEW c \in Socks, ClientNext(c)
      PROVE  SessionInv'
  BY <1>0, <1>4, ConnectSession, ClientSession DEF ClientNext
<1>5. CASE Stop
  BY <1>0, <1>5, StopSession
<1>6. CASE UNCHANGED vars
  <2>1. QuietStep /\ Stages'
    BY <1>6 DEF vars, QuietStep, SessionInv, Stages
  <2>2. QED
    BY <1>0, <2>1, QuietSession
<1>7. QED
  BY <1>1, <1>2, <1>3, <1>4, <1>5, <1>6 DEF Next, Done

LEMMA SessionAlways == OneDirection => (Spec => [](TypeOK /\ RefInv /\ SessionInv))
<1> SUFFICES ASSUME OneDirection PROVE Spec => [](TypeOK /\ RefInv /\ SessionInv)
  OBVIOUS
<1>1. Init => TypeOK /\ RefInv /\ SessionInv
  BY TypeInit, RefInit, SessionInit
<1>2. TypeOK /\ RefInv /\ SessionInv /\ [Next]_vars => (TypeOK /\ RefInv /\ SessionInv)'
  BY TypeStep, RefStep, SessionStep
<1>3. QED
  BY <1>1, <1>2, PTL DEF Spec

\* A freed socket has no reference left, so nothing holds it.
LEMMA FreedUnheld ==
    ASSUME OneDirection, TypeOK, RefInv, SessionInv
    PROVE  NoDangling
<1> SUFFICES ASSUME NEW s \in Socks, life[s] = "freed"
             PROVE  /\ Count(events, s) = 0 /\ Count(relay, s) = 0
                    /\ \A i \in DOMAIN release : release[i] # s
                    /\ s \notin cons
                    /\ \A w \in Workers : S(w) # s
                    /\ \A a \in Apps : asock[a] # s
                    /\ \A b \in batch : b.sock # s
  BY DEF NoDangling
<1>1. /\ s \notin cons /\ s \notin Elems(release)
      /\ relay = <<>> /\ \A b \in batch : b.sock # s
  <2>1. s \notin cons /\ s \notin Elems(release)
    BY DEF SessionInv, Fates, Held
  <2>2. QED
    BY <2>1 DEF SessionInv, Places, Stages
<1>2. Count(relay, s) = 0
  BY <1>1, CountEmpty
<1>3. Count(events, s) = 0 /\ \A w \in Workers : S(w) # s
  <2>1. CASE main # "done"
    <3>1. "FREE_ON_UNREF" \in flags[s] /\ ref[s] = 0
      BY <2>1 DEF SessionInv, Fates
    <3>2. QED
      BY <2>1, <3>1, HolderCounts
  <2>2. CASE main = "done"
    <3>1. events = <<>> /\ \A w \in Workers : wpc[w] = "end"
      BY <2>2 DEF SessionInv, Stages
    <3>2. \A w \in Workers : wev[w] = NoEvent
      BY <3>1 DEF RefInv, IdleWorkers, EventPcs, SectionPcs
    <3>3. QED
      BY <3>1, <3>2, CountEmpty, NoneNotSock DEF S
  <2>3. QED
    BY <2>1, <2>2
<1>4. QED
  BY <1>1, <1>2, <1>3 DEF Elems, OneDirection

\* Nothing that will be dereferenced points to a freed socket, for every
\* number of workers, clients and messages: the reference counts and
\* FREE_ON_UNREF of vtm_socket_unref keep a socket alive for whoever still
\* holds it.
THEOREM NoUseAfterFree == OneDirection => (Spec => []NoDangling)
<1> SUFFICES ASSUME OneDirection PROVE Spec => []NoDangling
  OBVIOUS
<1>1. TypeOK /\ RefInv /\ SessionInv => NoDangling
  BY FreedUnheld
<1>2. QED
  BY <1>1, SessionAlways, PTL

LEMMA TokenOrdersCallbacks ==
    ASSUME TypeOK, SessionInv
    PROVE  SessionProtocol
<1>1. \A w \in Workers : wpc[w] # "abort"
  BY DEF SessionInv, Places, Phase
<1>2. ASSUME NEW w \in Workers, wpc[w] \in CallbackPcs
      PROVE  sess[S(w)] = "open" /\ Active(w)
  <2>1. Phase(w) /\ wpc[w] \in ActivePcs
    BY <1>2 DEF SessionInv, Places, CallbackPcs, ActivePcs, EventPcs, SectionPcs
  <2>2. QED
    BY <1>2, <2>1 DEF Phase, CallbackPcs, SessionInv, Fates, Active
<1>3. \A w \in Workers, v \in Workers :
        w # v /\ wpc[w] = "disc" /\ wpc[v] \in CallbackPcs => S(w) # S(v)
  BY <1>2 DEF SessionInv, OneToken, CallbackPcs
<1>4. \A s \in Socks : life[s] = "freed" => sess[s] # "open"
  BY DEF SessionInv, Fates
<1>5. QED
  BY <1>1, <1>2, <1>3, <1>4 DEF SessionProtocol

\* The callbacks of a connection keep their order: nothing runs before
\* connected or after disconnected, disconnected runs alone and once, and the
\* assertion of sock_accepted never fails.
THEOREM CallbackOrder == OneDirection => (Spec => []SessionProtocol)
<1>1. TypeOK /\ SessionInv => SessionProtocol
  BY TokenOrdersCallbacks
<1>2. QED
  BY <1>1, SessionAlways, PTL


(***************************************************************************)
(* The shutdown of the threaded stream server: when run returns, every     *)
(* connection that was reported as connected has been reported as          *)
(* disconnected, and its socket is freed.                                  *)
(***************************************************************************)

\* The premise: as for the order of the callbacks, and the connected callback
\* does not close its connection.  A socket closed there is not in cons yet,
\* so sock_closed passes it by: it is neither reported nor freed.
KeptOpen == OneDirection /\ "close" \notin ConnectResults

-----------------------------------------------------------------------------
(* The invariant, on top of SessionInv *)

Broken == {"ERR", "CLOSED", "HUP"}

\* A connection that ends before it is in cons goes straight to disconnected.
Orderly ==
    \A w \in Workers :
        /\ wpc[w] \in {"accept", "connected", "acheck", "add"} =>
             flags[S(w)] \cap Broken = {}
        /\ wpc[w] \in {"error", "closed"} => S(w) \in cons

\* An open connection is in cons, or its worker is about to put it there or
\* to end it.
OpenServed ==
    \A s \in Socks : sess[s] = "open" =>
        s \in cons \/ \E w \in Workers : wpc[w] \in {"acheck", "add", "disc"} /\ S(w) = s

\* The socket of an ended connection is on its way to be freed.
EndedFreed ==
    \A s \in Socks : sess[s] = "ended" =>
        \/ \E w \in Workers : wpc[w] = "free" /\ S(w) = s
        \/ s \in Elems(release)
        \/ "FREE_ON_UNREF" \in flags[s]
        \/ life[s] = "freed"

DrainPcs == {"trylock", "closed", "requeue", "disc", "free"}

\* Once drain_run_latch is open only CLOSED events are left, one for each
\* connection in cons, and a worker stays for them.
Draining ==
    drainRun =>
        /\ \A e \in Elems(events) : e.type = "CLOSED"
        /\ events # <<>> => \E w \in Workers : wpc[w] # "end"
        /\ \A w \in Workers : Active(w) => wev[w].type = "CLOSED" /\ wpc[w] \in DrainPcs
        /\ \A s \in cons : \/ \E e \in Elems(events) : e.sock = s
                           \/ \E w \in Workers : Active(w) /\ S(w) = s

DrainInv == Orderly /\ OpenServed /\ EndedFreed /\ Draining /\ SessionsEnd

-----------------------------------------------------------------------------
(* Handlers *)

\* What a handler must leave behind of its own socket.
DrainGoal(w) ==
    LET s == S(w)
        pc == wpc'[w]
    IN  /\ pc \in {"accept", "connected", "acheck", "add"} => flags'[s] \cap Broken = {}
        /\ pc \in {"error", "closed"} => s \in cons'
        /\ sess'[s] = "open" => s \in cons' \/ pc \in {"acheck", "add", "disc"}
        /\ sess'[s] = "ended" => pc = "free"
        /\ drainRun => /\ wev[w].type = "CLOSED"
                       /\ pc \in DrainPcs \cup {"unlock"}
                       /\ s \in cons' => pc \in DrainPcs

LEMMA DrainHandler ==
    ASSUME TypeOK, TypeOK', SessionInv, DrainInv, NEW w \in Workers, Active(w),
           LocalStep(w), DrainGoal(w)
    PROVE  DrainInv'
<1>0. /\ S(w) \in Socks /\ Held(S(w)) /\ wpc[w] # "end" /\ wpc'[w] # "end"
      /\ main # "done"
  <2>1. S(w) \in Socks /\ Held(S(w)) /\ wpc[w] # "end"
    BY ActiveHeld DEF Active, ActivePcs, EventPcs, SectionPcs
  <2>2. wpc'[w] # "end"
    BY DEF LocalStep, EventPcs, SectionPcs
  <2>3. QED
    BY <2>1, <2>2 DEF SessionInv, Stages
<1>1. /\ \A v \in Workers : S(v)' = S(v) /\ wev'[v] = wev[v]
      /\ \A v \in Workers \ {w} : wpc'[v] = wpc[v] /\ Active(v)' = Active(v)
      /\ \A v \in Workers \ {w} : Active(v) => S(v) \in Socks \ {S(w)}
  <2>1. \A v \in Workers \ {w} : Active(v) => S(v) \in Socks \ {S(w)}
    BY ActiveHeld DEF SessionInv, OneToken
  <2>2. QED
    BY <2>1 DEF LocalStep, S, Active
<1>2. /\ UNCHANGED <<life, main, events, release, drainRun>>
      /\ \A s \in Socks \ {S(w)} :
           /\ flags'[s] = flags[s] /\ sess'[s] = sess[s]
           /\ s \in cons' <=> s \in cons
  BY DEF LocalStep
<1>3. Orderly'
  <2>1. ASSUME NEW v \in Workers \ {w},
               wpc[v] \in {"accept", "connected", "acheck", "add", "error", "closed"}
        PROVE  S(v) \in Socks \ {S(w)}
    BY <1>1, <2>1 DEF Active, ActivePcs, EventPcs, SectionPcs
  <2>2. QED
    BY <1>1, <1>2, <2>1 DEF DrainGoal, DrainInv, Orderly
<1>4. OpenServed'
  <2>1. ASSUME NEW s \in Socks, sess'[s] = "open"
        PROVE  s \in cons' \/ \E v \in Workers : wpc'[v] \in {"acheck", "add", "disc"} /\ S(v)' = s
    <3>1. CASE s = S(w)
      BY <1>1, <2>1, <3>1 DEF DrainGoal
    <3>2. CASE s # S(w)
      BY <1>1, <1>2, <2>1, <3>2 DEF DrainInv, OpenServed
    <3>3. QED
      BY <3>1, <3>2
  <2>2. QED
    BY <2>1 DEF OpenServed
<1>5. EndedFreed'
  <2>1. ASSUME NEW s \in Socks, sess'[s] = "ended"
        PROVE  \/ \E v \in Workers : wpc'[v] = "free" /\ S(v)' = s
               \/ s \in Elems(release')
               \/ "FREE_ON_UNREF" \in flags'[s]
               \/ life'[s] = "freed"
    <3>1. CASE s = S(w)
      BY <1>1, <2>1, <3>1 DEF DrainGoal
    <3>2. CASE s # S(w)
      BY <1>1, <1>2, <2>1, <3>2 DEF DrainInv, EndedFreed
    <3>3. QED
      BY <3>1, <3>2
  <2>2. QED
    BY <2>1 DEF EndedFreed
<1>6. Draining'
  <2>1. SUFFICES ASSUME drainRun PROVE Draining'
    BY <1>2 DEF Draining
  <2>2. /\ \A e \in Elems(events') : e.type = "CLOSED"
        /\ \E v \in Workers : wpc'[v] # "end"
    BY <1>0, <1>2, <2>1 DEF DrainInv, Draining
  <2>3. \A v \in Workers : Active(v)' => wev'[v].type = "CLOSED" /\ wpc'[v] \in DrainPcs
    <3>1. Active(w)' => wev'[w].type = "CLOSED" /\ wpc'[w] \in DrainPcs
      BY <1>1, <2>1 DEF DrainGoal, Active, ActivePcs
    <3>2. QED
      BY <1>1, <2>1, <3>1 DEF DrainInv, Draining
  <2>4. ASSUME NEW s \in cons'
        PROVE  \/ \E e \in Elems(events') : e.sock = s
               \/ \E v \in Workers : Active(v)' /\ S(v)' = s
    <3>1. CASE s = S(w)
      BY <1>1, <2>1, <2>4, <3>1 DEF DrainGoal, Active, ActivePcs, DrainPcs, EventPcs, SectionPcs
    <3>2. CASE s # S(w)
      <4>1. s \in cons
        BY <1>2, <2>4, <3>2 DEF TypeOK, ListsOK
      <4>2. QED
        BY <1>1, <1>2, <2>1, <3>2, <4>1 DEF DrainInv, Draining
    <3>3. QED
      BY <3>1, <3>2
  <2>5. QED
    BY <2>2, <2>3, <2>4 DEF Draining
<1>7. SessionsEnd'
  BY <1>0, <1>2 DEF SessionsEnd
<1>8. QED
  BY <1>3, <1>4, <1>5, <1>6, <1>7 DEF DrainInv

\* What a handler may rely on at the point where it is.
LEMMA DrainPoint ==
    ASSUME TypeOK, SessionInv, DrainInv, NEW w \in Workers, wpc[w] \in ActivePcs
    PROVE  /\ Active(w) /\ S(w) \in Socks /\ wev[w] \in Event /\ Phase(w)
           /\ S(w) \in cons => sess[S(w)] = "open"
           /\ sess[S(w)] = "ended" => wpc[w] = "free"
           /\ sess[S(w)] = "open" => S(w) \in cons \/ wpc[w] \in {"acheck", "add", "disc"}
           /\ drainRun => wev[w].type = "CLOSED" /\ wpc[w] \in DrainPcs
           /\ wpc[w] \in {"accept", "connected", "acheck", "add"} =>
                flags[S(w)] \cap Broken = {}
           /\ wpc[w] \in {"error", "closed"} => S(w) \in cons
<1>1. /\ Active(w) /\ S(w) \in Socks /\ wev[w] \in Event /\ Phase(w) /\ Held(S(w))
      /\ S(w) \in cons => sess[S(w)] = "open"
  BY AtPoint
<1>2. \A v \in Workers : wpc[v] \in {"acheck", "add", "disc", "free"} /\ S(v) = S(w) => v = w
  BY <1>1 DEF SessionInv, OneToken, Active, ActivePcs, EventPcs, SectionPcs
<1>3. sess[S(w)] = "ended" => wpc[w] = "free"
  BY <1>1, <1>2 DEF DrainInv, EndedFreed, Held
<1>4. sess[S(w)] = "open" => S(w) \in cons \/ wpc[w] \in {"acheck", "add", "disc"}
  BY <1>1, <1>2 DEF DrainInv, OpenServed
<1>5. QED
  BY <1>1, <1>3, <1>4 DEF DrainInv, Draining, Orderly

LEMMA StateDrain ==
    ASSUME TypeOK, TypeOK', SessionInv, DrainInv, NEW w \in Workers, SockEventState(w)
    PROVE  DrainInv'
<1>0. wpc[w] \in ActivePcs
  BY DEF SockEventState, ActivePcs, EventPcs, SectionPcs
<1>1. /\ Active(w) /\ S(w) \in Socks /\ wev[w] \in Event /\ Phase(w)
      /\ S(w) \in cons => sess[S(w)] = "open"
      /\ sess[S(w)] = "ended" => wpc[w] = "free"
      /\ sess[S(w)] = "open" => S(w) \in cons \/ wpc[w] \in {"acheck", "add", "disc"}
      /\ drainRun => wev[w].type = "CLOSED" /\ wpc[w] \in DrainPcs
      /\ wpc[w] \in {"accept", "connected", "acheck", "add"} =>
           flags[S(w)] \cap Broken = {}
      /\ wpc[w] \in {"error", "closed"} => S(w) \in cons
  BY <1>0, DrainPoint
<1>8. LocalStep(w)
  BY <1>1 DEF SockEventState, Goto, LocalStep, TypeOK, SocketsOK, WorkersOK, EventPcs, SectionPcs
<1>9. DrainGoal(w)
  BY <1>1 DEF SockEventState, Goto, DrainGoal, DrainPcs, Phase, S, TypeOK, SocketsOK, WorkersOK, Handed
<1>10. QED
  BY <1>1, <1>8, <1>9, DrainHandler

LEMMA TrylockDrain ==
    ASSUME TypeOK, TypeOK', SessionInv, DrainInv, NEW w \in Workers, SockTrylock(w)
    PROVE  DrainInv'
<1>0. wpc[w] \in ActivePcs
  BY DEF SockTrylock, ActivePcs, EventPcs, SectionPcs
<1>1. /\ Active(w) /\ S(w) \in Socks /\ wev[w] \in Event /\ Phase(w)
      /\ S(w) \in cons => sess[S(w)] = "open"
      /\ sess[S(w)] = "ended" => wpc[w] = "free"
      /\ sess[S(w)] = "open" => S(w) \in cons \/ wpc[w] \in {"acheck", "add", "disc"}
      /\ drainRun => wev[w].type = "CLOSED" /\ wpc[w] \in DrainPcs
      /\ wpc[w] \in {"accept", "connected", "acheck", "add"} =>
           flags[S(w)] \cap Broken = {}
      /\ wpc[w] \in {"error", "closed"} => S(w) \in cons
  BY <1>0, DrainPoint
<1>2. /\ wev[w].type \in EventType
      /\ Locks(wev[w].type) \subseteq {"READ_LOCKED", "WRITE_LOCKED"}
  BY <1>1, LocksType DEF Event
<1>3. \A ok \in BOOLEAN : AfterTrylock(wev[w].type, ok) \in EventPcs
  BY <1>2, TrylockType
<1>8. LocalStep(w)
  BY <1>1, <1>2, <1>3, ZenonT(60) DEF SockTrylock, Goto, LocalStep, TypeOK, SocketsOK, WorkersOK, EventPcs, SectionPcs
<1>9. DrainGoal(w)
  BY <1>1, <1>2, <1>3 DEF SockTrylock, Goto, DrainGoal, DrainPcs, Phase, S, TypeOK, SocketsOK, WorkersOK, Handed, AfterTrylock, EventType, Broken
<1>10. QED
  BY <1>1, <1>8, <1>9, DrainHandler

LEMMA AcceptedDrain ==
    ASSUME TypeOK, TypeOK', SessionInv, DrainInv, NEW w \in Workers, SockAccepted(w)
    PROVE  DrainInv'
<1>0. wpc[w] \in ActivePcs
  BY DEF SockAccepted, ActivePcs, EventPcs, SectionPcs
<1>1. /\ Active(w) /\ S(w) \in Socks /\ wev[w] \in Event /\ Phase(w)
      /\ S(w) \in cons => sess[S(w)] = "open"
      /\ sess[S(w)] = "ended" => wpc[w] = "free"
      /\ sess[S(w)] = "open" => S(w) \in cons \/ wpc[w] \in {"acheck", "add", "disc"}
      /\ drainRun => wev[w].type = "CLOSED" /\ wpc[w] \in DrainPcs
      /\ wpc[w] \in {"accept", "connected", "acheck", "add"} =>
           flags[S(w)] \cap Broken = {}
      /\ wpc[w] \in {"error", "closed"} => S(w) \in cons
  BY <1>0, DrainPoint
<1>8. LocalStep(w)
  BY <1>1 DEF SockAccepted, Goto, LocalStep, TypeOK, SocketsOK, WorkersOK, EventPcs, SectionPcs
<1>9. DrainGoal(w)
  BY <1>1 DEF SockAccepted, Goto, DrainGoal, DrainPcs, Phase, S, TypeOK, SocketsOK, WorkersOK, CloseState
<1>10. QED
  BY <1>1, <1>8, <1>9, DrainHandler

LEMMA CheckDrain ==
    ASSUME TypeOK, TypeOK', SessionInv, DrainInv, NEW w \in Workers, SockCheck(w)
    PROVE  DrainInv'
<1>0. wpc[w] \in ActivePcs
  BY DEF SockCheck, ActivePcs, EventPcs, SectionPcs
<1>1. /\ Active(w) /\ S(w) \in Socks /\ wev[w] \in Event /\ Phase(w)
      /\ S(w) \in cons => sess[S(w)] = "open"
      /\ sess[S(w)] = "ended" => wpc[w] = "free"
      /\ sess[S(w)] = "open" => S(w) \in cons \/ wpc[w] \in {"acheck", "add", "disc"}
      /\ drainRun => wev[w].type = "CLOSED" /\ wpc[w] \in DrainPcs
      /\ wpc[w] \in {"accept", "connected", "acheck", "add"} =>
           flags[S(w)] \cap Broken = {}
      /\ wpc[w] \in {"error", "closed"} => S(w) \in cons
  BY <1>0, DrainPoint
<1>8. LocalStep(w)
  BY <1>1 DEF SockCheck, Goto, LocalStep, TypeOK, SocketsOK, WorkersOK, EventPcs, SectionPcs
<1>9. DrainGoal(w)
  BY <1>1 DEF SockCheck, Goto, DrainGoal, DrainPcs, Phase, S, TypeOK, SocketsOK, WorkersOK, Broken
<1>10. QED
  BY <1>1, <1>8, <1>9, DrainHandler

LEMMA RearmDrain ==
    ASSUME TypeOK, TypeOK', SessionInv, DrainInv, NEW w \in Workers, SockRearm(w)
    PROVE  DrainInv'
<1>0. wpc[w] \in ActivePcs
  BY DEF SockRearm, ActivePcs, EventPcs, SectionPcs
<1>1. /\ Active(w) /\ S(w) \in Socks /\ wev[w] \in Event /\ Phase(w)
      /\ S(w) \in cons => sess[S(w)] = "open"
      /\ sess[S(w)] = "ended" => wpc[w] = "free"
      /\ sess[S(w)] = "open" => S(w) \in cons \/ wpc[w] \in {"acheck", "add", "disc"}
      /\ drainRun => wev[w].type = "CLOSED" /\ wpc[w] \in DrainPcs
      /\ wpc[w] \in {"accept", "connected", "acheck", "add"} =>
           flags[S(w)] \cap Broken = {}
      /\ wpc[w] \in {"error", "closed"} => S(w) \in cons
  BY <1>0, DrainPoint
<1>8. LocalStep(w)
  BY <1>1 DEF SockRearm, Goto, LocalStep, TypeOK, SocketsOK, WorkersOK, EventPcs, SectionPcs
<1>9. DrainGoal(w)
  BY <1>1 DEF SockRearm, Goto, DrainGoal, DrainPcs, Phase, S, TypeOK, SocketsOK, WorkersOK
<1>10. QED
  BY <1>1, <1>8, <1>9, DrainHandler

LEMMA ErrorDrain ==
    ASSUME TypeOK, TypeOK', SessionInv, DrainInv, NEW w \in Workers, SockError(w)
    PROVE  DrainInv'
<1>0. wpc[w] \in ActivePcs
  BY DEF SockError, ActivePcs, EventPcs, SectionPcs
<1>1. /\ Active(w) /\ S(w) \in Socks /\ wev[w] \in Event /\ Phase(w)
      /\ S(w) \in cons => sess[S(w)] = "open"
      /\ sess[S(w)] = "ended" => wpc[w] = "free"
      /\ sess[S(w)] = "open" => S(w) \in cons \/ wpc[w] \in {"acheck", "add", "disc"}
      /\ drainRun => wev[w].type = "CLOSED" /\ wpc[w] \in DrainPcs
      /\ wpc[w] \in {"accept", "connected", "acheck", "add"} =>
           flags[S(w)] \cap Broken = {}
      /\ wpc[w] \in {"error", "closed"} => S(w) \in cons
  BY <1>0, DrainPoint
<1>8. LocalStep(w)
  BY <1>1 DEF SockError, Goto, LocalStep, TypeOK, SocketsOK, WorkersOK, EventPcs, SectionPcs
<1>9. DrainGoal(w)
  BY <1>1 DEF SockError, Goto, DrainGoal, DrainPcs, Phase, S, TypeOK, SocketsOK, WorkersOK
<1>10. QED
  BY <1>1, <1>8, <1>9, DrainHandler

LEMMA ClosedDrain ==
    ASSUME TypeOK, TypeOK', SessionInv, DrainInv, NEW w \in Workers, SockClosed(w)
    PROVE  DrainInv'
<1>0. wpc[w] \in ActivePcs
  BY DEF SockClosed, ActivePcs, EventPcs, SectionPcs
<1>1. /\ Active(w) /\ S(w) \in Socks /\ wev[w] \in Event /\ Phase(w)
      /\ S(w) \in cons => sess[S(w)] = "open"
      /\ sess[S(w)] = "ended" => wpc[w] = "free"
      /\ sess[S(w)] = "open" => S(w) \in cons \/ wpc[w] \in {"acheck", "add", "disc"}
      /\ drainRun => wev[w].type = "CLOSED" /\ wpc[w] \in DrainPcs
      /\ wpc[w] \in {"accept", "connected", "acheck", "add"} =>
           flags[S(w)] \cap Broken = {}
      /\ wpc[w] \in {"error", "closed"} => S(w) \in cons
  BY <1>0, DrainPoint
<1>8. LocalStep(w)
  BY <1>1 DEF SockClosed, Goto, LocalStep, TypeOK, SocketsOK, WorkersOK, ListsOK, EventPcs, SectionPcs
<1>9. DrainGoal(w)
  BY <1>1 DEF SockClosed, Goto, DrainGoal, DrainPcs, Phase, S, TypeOK, SocketsOK, WorkersOK, ListsOK
<1>10. QED
  BY <1>1, <1>8, <1>9, DrainHandler

LEMMA DisconnectedDrain ==
    ASSUME TypeOK, TypeOK', SessionInv, DrainInv, NEW w \in Workers, SockDisconnected(w)
    PROVE  DrainInv'
<1>0. wpc[w] \in ActivePcs
  BY DEF SockDisconnected, ActivePcs, EventPcs, SectionPcs
<1>1. /\ Active(w) /\ S(w) \in Socks /\ wev[w] \in Event /\ Phase(w)
      /\ S(w) \in cons => sess[S(w)] = "open"
      /\ sess[S(w)] = "ended" => wpc[w] = "free"
      /\ sess[S(w)] = "open" => S(w) \in cons \/ wpc[w] \in {"acheck", "add", "disc"}
      /\ drainRun => wev[w].type = "CLOSED" /\ wpc[w] \in DrainPcs
      /\ wpc[w] \in {"accept", "connected", "acheck", "add"} =>
           flags[S(w)] \cap Broken = {}
      /\ wpc[w] \in {"error", "closed"} => S(w) \in cons
  BY <1>0, DrainPoint
<1>8. LocalStep(w)
  BY <1>1 DEF SockDisconnected, Goto, LocalStep, TypeOK, SocketsOK, WorkersOK, EventPcs, SectionPcs
<1>9. DrainGoal(w)
  BY <1>1 DEF SockDisconnected, Goto, DrainGoal, DrainPcs, Phase, S, TypeOK, SocketsOK, WorkersOK
<1>10. QED
  BY <1>1, <1>8, <1>9, DrainHandler

LEMMA CanReadDrain ==
    ASSUME TypeOK, TypeOK', SessionInv, DrainInv, NEW w \in Workers, SockCanRead(w)
    PROVE  DrainInv'
<1>0. wpc[w] \in ActivePcs
  BY DEF SockCanRead, ActivePcs, EventPcs, SectionPcs
<1>1. /\ Active(w) /\ S(w) \in Socks /\ wev[w] \in Event /\ Phase(w)
      /\ S(w) \in cons => sess[S(w)] = "open"
      /\ sess[S(w)] = "ended" => wpc[w] = "free"
      /\ sess[S(w)] = "open" => S(w) \in cons \/ wpc[w] \in {"acheck", "add", "disc"}
      /\ drainRun => wev[w].type = "CLOSED" /\ wpc[w] \in DrainPcs
      /\ wpc[w] \in {"accept", "connected", "acheck", "add"} =>
           flags[S(w)] \cap Broken = {}
      /\ wpc[w] \in {"error", "closed"} => S(w) \in cons
  BY <1>0, DrainPoint
<1>8. LocalStep(w)
  BY <1>1 DEF SockCanRead, Goto, LocalStep, TypeOK, SocketsOK, WorkersOK, EventPcs, SectionPcs
<1>9. DrainGoal(w)
  BY <1>1 DEF SockCanRead, Goto, DrainGoal, DrainPcs, Phase, S, TypeOK, SocketsOK, WorkersOK
<1>10. QED
  BY <1>1, <1>8, <1>9, DrainHandler

LEMMA CanWriteDrain ==
    ASSUME TypeOK, TypeOK', SessionInv, DrainInv, NEW w \in Workers, SockCanWrite(w)
    PROVE  DrainInv'
<1>0. wpc[w] \in ActivePcs
  BY DEF SockCanWrite, ActivePcs, EventPcs, SectionPcs
<1>1. /\ Active(w) /\ S(w) \in Socks /\ wev[w] \in Event /\ Phase(w)
      /\ S(w) \in cons => sess[S(w)] = "open"
      /\ sess[S(w)] = "ended" => wpc[w] = "free"
      /\ sess[S(w)] = "open" => S(w) \in cons \/ wpc[w] \in {"acheck", "add", "disc"}
      /\ drainRun => wev[w].type = "CLOSED" /\ wpc[w] \in DrainPcs
      /\ wpc[w] \in {"accept", "connected", "acheck", "add"} =>
           flags[S(w)] \cap Broken = {}
      /\ wpc[w] \in {"error", "closed"} => S(w) \in cons
  BY <1>0, DrainPoint
<1>8. LocalStep(w)
  BY <1>1 DEF SockCanWrite, Goto, LocalStep, TypeOK, SocketsOK, WorkersOK, EventPcs, SectionPcs
<1>9. DrainGoal(w)
  BY <1>1 DEF SockCanWrite, Goto, DrainGoal, DrainPcs, Phase, S, TypeOK, SocketsOK, WorkersOK
<1>10. QED
  BY <1>1, <1>8, <1>9, DrainHandler

LEMMA AddDrain ==
    ASSUME TypeOK, TypeOK', SessionInv, DrainInv, NEW w \in Workers, SockAdd(w)
    PROVE  DrainInv'
<1>0. wpc[w] \in ActivePcs
  BY DEF SockAdd, ActivePcs, EventPcs, SectionPcs
<1>1. /\ Active(w) /\ S(w) \in Socks /\ wev[w] \in Event /\ Phase(w)
      /\ S(w) \in cons => sess[S(w)] = "open"
      /\ sess[S(w)] = "ended" => wpc[w] = "free"
      /\ sess[S(w)] = "open" => S(w) \in cons \/ wpc[w] \in {"acheck", "add", "disc"}
      /\ drainRun => wev[w].type = "CLOSED" /\ wpc[w] \in DrainPcs
      /\ wpc[w] \in {"accept", "connected", "acheck", "add"} =>
           flags[S(w)] \cap Broken = {}
      /\ wpc[w] \in {"error", "closed"} => S(w) \in cons
  BY <1>0, DrainPoint
<1>8. LocalStep(w)
  BY <1>1 DEF SockAdd, Goto, LocalStep, TypeOK, SocketsOK, WorkersOK, ListsOK, EventPcs, SectionPcs
<1>9. DrainGoal(w)
  BY <1>1 DEF SockAdd, Goto, DrainGoal, DrainPcs, Phase, S, TypeOK, SocketsOK, WorkersOK, ListsOK, CloseState, Broken
<1>10. QED
  BY <1>1, <1>8, <1>9, DrainHandler

LEMMA ConnectedDrain ==
    ASSUME TypeOK, TypeOK', SessionInv, DrainInv, KeptOpen, NEW w \in Workers, SockConnected(w)
    PROVE  DrainInv'
<1>0. wpc[w] \in ActivePcs
  BY DEF SockConnected, ActivePcs, EventPcs, SectionPcs
<1>1. /\ Active(w) /\ S(w) \in Socks /\ wev[w] \in Event /\ Phase(w)
      /\ S(w) \in cons => sess[S(w)] = "open"
      /\ sess[S(w)] = "ended" => wpc[w] = "free"
      /\ sess[S(w)] = "open" => S(w) \in cons \/ wpc[w] \in {"acheck", "add", "disc"}
      /\ drainRun => wev[w].type = "CLOSED" /\ wpc[w] \in DrainPcs
      /\ wpc[w] \in {"accept", "connected", "acheck", "add"} =>
           flags[S(w)] \cap Broken = {}
      /\ wpc[w] \in {"error", "closed"} => S(w) \in cons
  BY <1>0, DrainPoint
<1>2. flags'[S(w)] \cap Broken = {}
  <2>1. ASSUME NEW n \in ConnectFlags, NEW x \in ConnectResults,
               NEW f \in AfterCallback(S(w), flags[S(w)] \cup n, x)
        PROVE  f \cap Broken = {}
    <3>1. x = "none" /\ n \cap Broken = {}
      BY CallbackAssumption DEF KeptOpen, OneDirection, Broken
    <3>2. f = flags[S(w)] \cup n
      BY <3>1 DEF AfterCallback
    <3>3. QED
      BY <1>1, <3>1, <3>2 DEF SockConnected
  <2>2. QED
    BY <1>1, <2>1 DEF SockConnected, TypeOK, SocketsOK
<1>8. LocalStep(w)
  BY <1>1 DEF SockConnected, Goto, LocalStep, TypeOK, SocketsOK, WorkersOK, EventPcs, SectionPcs
<1>9. DrainGoal(w)
  BY <1>1, <1>2 DEF SockConnected, Goto, DrainGoal, DrainPcs, Phase, S, TypeOK, SocketsOK, WorkersOK
<1>10. QED
  BY <1>1, <1>8, <1>9, DrainHandler

-----------------------------------------------------------------------------
(* The other steps *)

\* A step between handlers: no callback runs, no connection enters or leaves
\* cons, and a socket on its way to be freed stays there.
Between ==
    /\ UNCHANGED <<sess, cons, drainRun>>
    /\ main' = "done" <=> main = "done"
    /\ \A v \in Workers :
         /\ wpc'[v] \in {"accept", "connected", "acheck", "add", "error", "closed"} =>
              wpc'[v] = wpc[v] /\ S(v)' = S(v)
         /\ wpc[v] \in {"accept", "connected", "acheck", "add", "error", "closed", "disc"} =>
              wpc'[v] = wpc[v] /\ S(v)' = S(v) /\ flags'[S(v)] \subseteq flags[S(v)]
         /\ wpc[v] = "free" => \/ wpc'[v] = "free" /\ S(v)' = S(v)
                               \/ S(v) \in Elems(release')
    /\ \A s \in Elems(release) : s \in Elems(release') \/ "FREE_ON_UNREF" \in flags'[s]
    /\ \A s \in Socks : /\ "FREE_ON_UNREF" \in flags[s] => "FREE_ON_UNREF" \in flags'[s]
                        /\ life[s] = "freed" => life'[s] = "freed"

LEMMA DrainBetween ==
    ASSUME DrainInv, Between, Draining'
    PROVE  DrainInv'
<1>1. Orderly'
  BY DEF Between, DrainInv, Orderly
<1>2. OpenServed'
  BY DEF Between, DrainInv, OpenServed
<1>3. EndedFreed'
  BY DEF Between, DrainInv, EndedFreed
<1>4. SessionsEnd'
  BY DEF Between, DrainInv, SessionsEnd
<1>5. QED
  BY <1>1, <1>2, <1>3, <1>4 DEF DrainInv

\* Before the latch opens there is nothing to drain.
LEMMA NotYet ==
    ASSUME SessionInv, drainRun' = drainRun, main \notin {"join", "clean", "done"}
    PROVE  Draining'
BY DEF SessionInv, Stages, Draining

\* Steps that move no token; only the last worker to leave has to look.
LEMMA QuietDrain ==
    ASSUME SessionInv, DrainInv, QuietStep,
           drainRun' = drainRun, main' = "done" <=> main = "done",
           \A s \in Socks : flags'[s] \subseteq flags[s],
           \A v \in Workers : wpc[v] \in EventPcs => S(v) \in Socks,
           events = <<>> \/ \A v \in Workers : wpc'[v] = "end" => wpc[v] = "end"
    PROVE  DrainInv'
<1>1. /\ UNCHANGED <<life, sess, events, release, cons, wev, drainRun>>
      /\ \A v \in Workers : S(v)' = S(v) /\ wev'[v] = wev[v]
      /\ \A v \in Workers : Active(v)' = Active(v)
      /\ \A v \in Workers : Active(v) \/ Active(v)' => wpc'[v] = wpc[v]
      /\ \A s \in Socks : "FREE_ON_UNREF" \in flags[s] => "FREE_ON_UNREF" \in flags'[s]
  BY DEF QuietStep, S, Active
<1>2. /\ \A v \in Workers : \A pc \in {wpc[v], wpc'[v]} :
           pc \in {"accept", "connected", "acheck", "add", "error", "closed", "disc", "free"} =>
             wpc'[v] = wpc[v] /\ S(v) \in Socks
  BY <1>1 DEF Active, ActivePcs, EventPcs, SectionPcs
<1>3. Between
  BY <1>1, <1>2 DEF Between
<1>4. Draining'
  BY <1>1 DEF DrainInv, Draining
<1>5. QED
  BY <1>3, <1>4, DrainBetween

\* The loops of main and of the workers, the locks and the latches.

LEMMA MainLoopDrain ==
    ASSUME TypeOK, SessionInv, DrainInv, MainLoop
    PROVE  DrainInv'
<1>1. \A v \in Workers : wpc[v] \in EventPcs => S(v) \in Socks
  BY EventOwned
<1>2. QuietStep
  BY DEF MainLoop, QuietStep, TypeOK, WorkersOK, SocketsOK,
     ActivePcs, EventPcs, SectionPcs
<1>3. /\ drainRun' = drainRun /\ (main' = "done" <=> main = "done")
      /\ \A s \in Socks : flags'[s] \subseteq flags[s]
      /\ events = <<>> \/ \A v \in Workers : wpc'[v] = "end" => wpc[v] = "end"
  BY DEF MainLoop, TypeOK, WorkersOK
<1>4. QED
  BY <1>1, <1>2, <1>3, QuietDrain

LEMMA MainInterruptedDrain ==
    ASSUME TypeOK, SessionInv, DrainInv, MainInterrupted
    PROVE  DrainInv'
<1>1. \A v \in Workers : wpc[v] \in EventPcs => S(v) \in Socks
  BY EventOwned
<1>2. QuietStep
  BY DEF MainInterrupted, QuietStep, TypeOK, WorkersOK, SocketsOK,
     ActivePcs, EventPcs, SectionPcs
<1>3. /\ drainRun' = drainRun /\ (main' = "done" <=> main = "done")
      /\ \A s \in Socks : flags'[s] \subseteq flags[s]
      /\ events = <<>> \/ \A v \in Workers : wpc'[v] = "end" => wpc[v] = "end"
  BY DEF MainInterrupted, TypeOK, WorkersOK
<1>4. QED
  BY <1>1, <1>2, <1>3, QuietDrain

LEMMA MainListenFailsDrain ==
    ASSUME TypeOK, SessionInv, DrainInv, MainListenFails
    PROVE  DrainInv'
<1>1. \A v \in Workers : wpc[v] \in EventPcs => S(v) \in Socks
  BY EventOwned
<1>2. QuietStep
  BY DEF MainListenFails, QuietStep, TypeOK, WorkersOK, SocketsOK,
     ActivePcs, EventPcs, SectionPcs
<1>3. /\ drainRun' = drainRun /\ (main' = "done" <=> main = "done")
      /\ \A s \in Socks : flags'[s] \subseteq flags[s]
      /\ events = <<>> \/ \A v \in Workers : wpc'[v] = "end" => wpc[v] = "end"
  BY DEF MainListenFails, TypeOK, WorkersOK
<1>4. QED
  BY <1>1, <1>2, <1>3, QuietDrain

LEMMA MainLockEventsDrain ==
    ASSUME TypeOK, SessionInv, DrainInv, MainLockEvents
    PROVE  DrainInv'
<1>1. \A v \in Workers : wpc[v] \in EventPcs => S(v) \in Socks
  BY EventOwned
<1>2. QuietStep
  BY DEF MainLockEvents, QuietStep, TypeOK, WorkersOK, SocketsOK,
     ActivePcs, EventPcs, SectionPcs
<1>3. /\ drainRun' = drainRun /\ (main' = "done" <=> main = "done")
      /\ \A s \in Socks : flags'[s] \subseteq flags[s]
      /\ events = <<>> \/ \A v \in Workers : wpc'[v] = "end" => wpc[v] = "end"
  BY DEF MainLockEvents, TypeOK, WorkersOK
<1>4. QED
  BY <1>1, <1>2, <1>3, QuietDrain

LEMMA MainUnlockEventsDrain ==
    ASSUME TypeOK, SessionInv, DrainInv, MainUnlockEvents
    PROVE  DrainInv'
<1>1. \A v \in Workers : wpc[v] \in EventPcs => S(v) \in Socks
  BY EventOwned
<1>2. QuietStep
  BY DEF MainUnlockEvents, SignalAll, QuietStep, TypeOK, WorkersOK, SocketsOK,
     ActivePcs, EventPcs, SectionPcs
<1>3. /\ drainRun' = drainRun /\ (main' = "done" <=> main = "done")
      /\ \A s \in Socks : flags'[s] \subseteq flags[s]
      /\ events = <<>> \/ \A v \in Workers : wpc'[v] = "end" => wpc[v] = "end"
  BY DEF MainUnlockEvents, SignalAll, TypeOK, WorkersOK
<1>4. QED
  BY <1>1, <1>2, <1>3, QuietDrain

LEMMA MainAcceptAgainDrain ==
    ASSUME TypeOK, SessionInv, DrainInv, MainAcceptAgain
    PROVE  DrainInv'
<1>1. \A v \in Workers : wpc[v] \in EventPcs => S(v) \in Socks
  BY EventOwned
<1>2. QuietStep
  BY DEF MainAcceptAgain, QuietStep, TypeOK, WorkersOK, SocketsOK,
     ActivePcs, EventPcs, SectionPcs
<1>3. /\ drainRun' = drainRun /\ (main' = "done" <=> main = "done")
      /\ \A s \in Socks : flags'[s] \subseteq flags[s]
      /\ events = <<>> \/ \A v \in Workers : wpc'[v] = "end" => wpc[v] = "end"
  BY DEF MainAcceptAgain, TypeOK, WorkersOK
<1>4. QED
  BY <1>1, <1>2, <1>3, QuietDrain

LEMMA DrainSignalDrain ==
    ASSUME TypeOK, SessionInv, DrainInv, DrainSignal
    PROVE  DrainInv'
<1>1. \A v \in Workers : wpc[v] \in EventPcs => S(v) \in Socks
  BY EventOwned
<1>2. QuietStep
  BY DEF DrainSignal, SignalAll, QuietStep, TypeOK, WorkersOK, SocketsOK,
     ActivePcs, EventPcs, SectionPcs
<1>3. /\ drainRun' = drainRun /\ (main' = "done" <=> main = "done")
      /\ \A s \in Socks : flags'[s] \subseteq flags[s]
      /\ events = <<>> \/ \A v \in Workers : wpc'[v] = "end" => wpc[v] = "end"
  BY DEF DrainSignal, SignalAll, TypeOK, WorkersOK
<1>4. QED
  BY <1>1, <1>2, <1>3, QuietDrain

LEMMA DrainAwaitDrain ==
    ASSUME TypeOK, SessionInv, DrainInv, DrainAwait
    PROVE  DrainInv'
<1>1. \A v \in Workers : wpc[v] \in EventPcs => S(v) \in Socks
  BY EventOwned
<1>2. QuietStep
  BY DEF DrainAwait, QuietStep, TypeOK, WorkersOK, SocketsOK,
     ActivePcs, EventPcs, SectionPcs
<1>3. /\ drainRun' = drainRun /\ (main' = "done" <=> main = "done")
      /\ \A s \in Socks : flags'[s] \subseteq flags[s]
      /\ events = <<>> \/ \A v \in Workers : wpc'[v] = "end" => wpc[v] = "end"
  BY DEF DrainAwait, TypeOK, WorkersOK
<1>4. QED
  BY <1>1, <1>2, <1>3, QuietDrain

LEMMA JoinDrain ==
    ASSUME TypeOK, SessionInv, DrainInv, Join
    PROVE  DrainInv'
<1>1. \A v \in Workers : wpc[v] \in EventPcs => S(v) \in Socks
  BY EventOwned
<1>2. QuietStep
  BY DEF Join, QuietStep, TypeOK, WorkersOK, SocketsOK,
     ActivePcs, EventPcs, SectionPcs
<1>3. /\ drainRun' = drainRun /\ (main' = "done" <=> main = "done")
      /\ \A s \in Socks : flags'[s] \subseteq flags[s]
      /\ events = <<>> \/ \A v \in Workers : wpc'[v] = "end" => wpc[v] = "end"
  BY DEF Join, TypeOK, WorkersOK
<1>4. QED
  BY <1>1, <1>2, <1>3, QuietDrain

LEMMA StopDrain ==
    ASSUME TypeOK, SessionInv, DrainInv, Stop
    PROVE  DrainInv'
<1>1. \A v \in Workers : wpc[v] \in EventPcs => S(v) \in Socks
  BY EventOwned
<1>2. QuietStep
  BY DEF Stop, QuietStep, TypeOK, WorkersOK, SocketsOK,
     ActivePcs, EventPcs, SectionPcs
<1>3. /\ drainRun' = drainRun /\ (main' = "done" <=> main = "done")
      /\ \A s \in Socks : flags'[s] \subseteq flags[s]
      /\ events = <<>> \/ \A v \in Workers : wpc'[v] = "end" => wpc[v] = "end"
  BY DEF Stop, TypeOK, WorkersOK
<1>4. QED
  BY <1>1, <1>2, <1>3, QuietDrain

LEMMA WorkerTopDrain ==
    ASSUME TypeOK, SessionInv, DrainInv, NEW w \in Workers, WorkerTop(w)
    PROVE  DrainInv'
<1>1. \A v \in Workers : wpc[v] \in EventPcs => S(v) \in Socks
  BY EventOwned
<1>2. QuietStep
  BY DEF WorkerTop, Goto, QuietStep, TypeOK, WorkersOK, SocketsOK,
     ActivePcs, EventPcs, SectionPcs
<1>3. /\ drainRun' = drainRun /\ (main' = "done" <=> main = "done")
      /\ \A s \in Socks : flags'[s] \subseteq flags[s]
      /\ events = <<>> \/ \A v \in Workers : wpc'[v] = "end" => wpc[v] = "end"
  BY DEF WorkerTop, Goto, TypeOK, WorkersOK
<1>4. QED
  BY <1>1, <1>2, <1>3, QuietDrain

LEMMA WorkerEmptyDrain ==
    ASSUME TypeOK, SessionInv, DrainInv, NEW w \in Workers, WorkerEmpty(w)
    PROVE  DrainInv'
<1>1. \A v \in Workers : wpc[v] \in EventPcs => S(v) \in Socks
  BY EventOwned
<1>2. QuietStep
  BY DEF WorkerEmpty, Goto, QuietStep, TypeOK, WorkersOK, SocketsOK,
     ActivePcs, EventPcs, SectionPcs
<1>3. /\ drainRun' = drainRun /\ (main' = "done" <=> main = "done")
      /\ \A s \in Socks : flags'[s] \subseteq flags[s]
      /\ events = <<>> \/ \A v \in Workers : wpc'[v] = "end" => wpc[v] = "end"
  BY DEF WorkerEmpty, Goto, TypeOK, WorkersOK
<1>4. QED
  BY <1>1, <1>2, <1>3, QuietDrain

LEMMA WorkerWaitDrain ==
    ASSUME TypeOK, SessionInv, DrainInv, NEW w \in Workers, WorkerWait(w)
    PROVE  DrainInv'
<1>1. \A v \in Workers : wpc[v] \in EventPcs => S(v) \in Socks
  BY EventOwned
<1>2. QuietStep
  BY DEF WorkerWait, Goto, QuietStep, TypeOK, WorkersOK, SocketsOK,
     ActivePcs, EventPcs, SectionPcs
<1>3. /\ drainRun' = drainRun /\ (main' = "done" <=> main = "done")
      /\ \A s \in Socks : flags'[s] \subseteq flags[s]
      /\ events = <<>> \/ \A v \in Workers : wpc'[v] = "end" => wpc[v] = "end"
  BY DEF WorkerWait, Goto, TypeOK, WorkersOK
<1>4. QED
  BY <1>1, <1>2, <1>3, QuietDrain

LEMMA SpuriousWakeDrain ==
    ASSUME TypeOK, SessionInv, DrainInv, NEW w \in Workers, SpuriousWake(w)
    PROVE  DrainInv'
<1>1. \A v \in Workers : wpc[v] \in EventPcs => S(v) \in Socks
  BY EventOwned
<1>2. QuietStep
  BY DEF SpuriousWake, Goto, QuietStep, TypeOK, WorkersOK, SocketsOK,
     ActivePcs, EventPcs, SectionPcs
<1>3. /\ drainRun' = drainRun /\ (main' = "done" <=> main = "done")
      /\ \A s \in Socks : flags'[s] \subseteq flags[s]
      /\ events = <<>> \/ \A v \in Workers : wpc'[v] = "end" => wpc[v] = "end"
  BY DEF SpuriousWake, Goto, TypeOK, WorkersOK
<1>4. QED
  BY <1>1, <1>2, <1>3, QuietDrain

LEMMA WorkerCountDrain ==
    ASSUME TypeOK, SessionInv, DrainInv, NEW w \in Workers, WorkerCount(w)
    PROVE  DrainInv'
<1>1. \A v \in Workers : wpc[v] \in EventPcs => S(v) \in Socks
  BY EventOwned
<1>2. QuietStep
  BY DEF WorkerCount, Goto, QuietStep, TypeOK, WorkersOK, SocketsOK,
     ActivePcs, EventPcs, SectionPcs
<1>3. /\ drainRun' = drainRun /\ (main' = "done" <=> main = "done")
      /\ \A s \in Socks : flags'[s] \subseteq flags[s]
      /\ events = <<>> \/ \A v \in Workers : wpc'[v] = "end" => wpc[v] = "end"
  BY DEF WorkerCount, Goto, TypeOK, WorkersOK
<1>4. QED
  BY <1>1, <1>2, <1>3, QuietDrain

LEMMA WorkerAwaitDrain ==
    ASSUME TypeOK, SessionInv, DrainInv, NEW w \in Workers, WorkerAwait(w)
    PROVE  DrainInv'
<1>1. \A v \in Workers : wpc[v] \in EventPcs => S(v) \in Socks
  BY EventOwned
<1>2. QuietStep
  BY DEF WorkerAwait, Goto, QuietStep, TypeOK, WorkersOK, SocketsOK,
     ActivePcs, EventPcs, SectionPcs
<1>3. /\ drainRun' = drainRun /\ (main' = "done" <=> main = "done")
      /\ \A s \in Socks : flags'[s] \subseteq flags[s]
      /\ events = <<>> \/ \A v \in Workers : wpc'[v] = "end" => wpc[v] = "end"
  BY DEF WorkerAwait, Goto, TypeOK, WorkersOK
<1>4. QED
  BY <1>1, <1>2, <1>3, QuietDrain

LEMMA WorkerEndDrain ==
    ASSUME TypeOK, SessionInv, DrainInv, NEW w \in Workers, WorkerEnd(w)
    PROVE  DrainInv'
<1>1. \A v \in Workers : wpc[v] \in EventPcs => S(v) \in Socks
  BY EventOwned
<1>2. QuietStep
  BY DEF WorkerEnd, Goto, QuietStep, TypeOK, WorkersOK, SocketsOK,
     ActivePcs, EventPcs, SectionPcs
<1>3. /\ drainRun' = drainRun /\ (main' = "done" <=> main = "done")
      /\ \A s \in Socks : flags'[s] \subseteq flags[s]
      /\ events = <<>> \/ \A v \in Workers : wpc'[v] = "end" => wpc[v] = "end"
  BY DEF WorkerEnd, Goto, TypeOK, WorkersOK
<1>4. QED
  BY <1>1, <1>2, <1>3, QuietDrain

LEMMA SockUnlockDrain ==
    ASSUME TypeOK, SessionInv, DrainInv, NEW w \in Workers, SockUnlock(w)
    PROVE  DrainInv'
<1>1. \A v \in Workers : wpc[v] \in EventPcs => S(v) \in Socks
  BY EventOwned
<1>2. S(w) \in Socks /\ Locks(wev[w].type) \subseteq {"READ_LOCKED", "WRITE_LOCKED"}
  BY <1>1, LocksType DEF SockUnlock, EventPcs, SectionPcs
<1>3. QuietStep
  BY <1>2 DEF SockUnlock, QuietStep, Goto, TypeOK, WorkersOK, SocketsOK,
     ActivePcs, EventPcs, SectionPcs
<1>4. /\ drainRun' = drainRun /\ (main' = "done" <=> main = "done")
      /\ \A s \in Socks : flags'[s] \subseteq flags[s]
      /\ events = <<>> \/ \A v \in Workers : wpc'[v] = "end" => wpc[v] = "end"
  BY <1>2 DEF SockUnlock, Goto, TypeOK, WorkersOK, SocketsOK
<1>5. QED
  BY <1>1, <1>3, <1>4, QuietDrain

\* Steps of main and of the clients before the latch opens.
LEMMA ListenDrain ==
    ASSUME TypeOK, SessionInv, DrainInv, MainListen
    PROVE  DrainInv'
<1>1. /\ UNCHANGED <<life, flags, sess, cons, release, drainRun, wpc, wev>>
      /\ main = "listen" /\ main' = "queued"
  BY DEF MainListen
<1>2. Between
  BY <1>1 DEF Between, S
<1>3. QED
  BY <1>1, <1>2, NotYet, DrainBetween

LEMMA ReleaseDrain ==
    ASSUME TypeOK, SessionInv, DrainInv, MainRelease
    PROVE  DrainInv'
<1>0. PICK r \in Socks : r = Head(release)
  BY DEF MainRelease, TypeOK, ListsOK
<1>1. /\ UNCHANGED <<main, sess, cons, drainRun, wpc, wev>>
      /\ main = "release" /\ release # <<>> /\ release' = Tail(release)
      /\ flags' = [flags EXCEPT ![r] = @ \cup {"FREE_ON_UNREF"}]
      /\ life' = [life EXCEPT ![r] = IF ref[r] <= 1 THEN "freed" ELSE @]
  BY <1>0 DEF MainRelease
<1>2. /\ release \in Seq(Socks)
      /\ r \in Elems(release) /\ Elems(release) = Elems(release') \cup {r}
  <2>1. release \in Seq(Socks)
    BY DEF TypeOK, ListsOK
  <2>2. QED
    BY <1>0, <1>1, <2>1, ElemsTail
<1>3. /\ "FREE_ON_UNREF" \in flags'[r]
      /\ \A s \in Socks : s # r => flags'[s] = flags[s] /\ life'[s] = life[s]
      /\ \A s \in Socks : "FREE_ON_UNREF" \in flags[s] => "FREE_ON_UNREF" \in flags'[s]
      /\ \A s \in Socks : life[s] = "freed" => life'[s] = "freed"
  BY <1>1 DEF TypeOK, SocketsOK
<1>4. \A v \in Workers : Active(v) => S(v) \in Socks /\ S(v) # r
  BY <1>2, ActiveHeld DEF Held
<1>5. Between
  <2>1. \A v \in Workers :
          wpc[v] \in {"accept", "connected", "acheck", "add", "error", "closed", "disc"} =>
            flags'[S(v)] = flags[S(v)]
    BY <1>3, <1>4 DEF Active, ActivePcs, EventPcs, SectionPcs
  <2>2. QED
    BY <1>1, <1>2, <1>3, <2>1 DEF Between, S
<1>6. QED
  BY <1>1, <1>5, NotYet, DrainBetween

LEMMA RelayDrain ==
    ASSUME TypeOK, SessionInv, DrainInv, MainRelay
    PROVE  DrainInv'
<1>1. /\ UNCHANGED <<life, flags, sess, cons, release, drainRun, wpc, wev>>
      /\ main = "release" /\ main' = "dispatch"
  BY DEF MainRelay
<1>2. Between
  BY <1>1 DEF Between, S
<1>3. QED
  BY <1>1, <1>2, NotYet, DrainBetween

LEMMA DispatchDrain ==
    ASSUME TypeOK, SessionInv, DrainInv, MainDispatch
    PROVE  DrainInv'
<1>1. PICK b \in batch :
        flags' = [flags EXCEPT ![b.sock] = IF "CLOSED" \in b.types THEN CloseState(@) ELSE @]
  BY DEF MainDispatch
<1>2. /\ UNCHANGED <<life, sess, cons, release, main, drainRun, wpc, wev>>
      /\ main = "dispatch"
  BY DEF MainDispatch
<1>3. \A v \in Workers : Active(v) => S(v) \in Socks /\ S(v) # b.sock
  BY ActiveHeld DEF SessionInv, OneToken
<1>4. Between
  <2>1. \A v \in Workers :
          wpc[v] \in {"accept", "connected", "acheck", "add", "error", "closed", "disc"} =>
            flags'[S(v)] = flags[S(v)]
    BY <1>1, <1>3 DEF Active, ActivePcs, EventPcs, SectionPcs, TypeOK, SocketsOK
  <2>2. \A s \in Socks : "FREE_ON_UNREF" \in flags[s] => "FREE_ON_UNREF" \in flags'[s]
    BY <1>1 DEF TypeOK, SocketsOK, CloseState
  <2>3. QED
    BY <1>2, <2>1, <2>2 DEF Between, S
<1>5. QED
  BY <1>2, <1>4, NotYet, DrainBetween

LEMMA AcceptDrain ==
    ASSUME TypeOK, SessionInv, DrainInv, MainAccept
    PROVE  DrainInv'
<1>1. /\ UNCHANGED <<flags, sess, cons, release, main, drainRun, wev>>
      /\ main = "accept"
      /\ \A s \in Socks : life[s] = "freed" => life'[s] = "freed"
  BY DEF MainAccept, TypeOK, SocketsOK
<1>2. \A v \in Workers : wpc'[v] = wpc[v] \/ (wpc[v] = "wait" /\ wpc'[v] = "lock")
  BY SignalMoves DEF MainAccept
<1>3. Between
  BY <1>1, <1>2 DEF Between, S
<1>4. QED
  BY <1>1, <1>3, NotYet, DrainBetween

LEMMA ConnectDrain ==
    ASSUME TypeOK, SessionInv, DrainInv, NEW c \in Socks, ClientConnect(c)
    PROVE  DrainInv'
<1>1. /\ UNCHANGED <<flags, sess, events, cons, release, main, drainRun, wpc, wev>>
      /\ \A s \in Socks : life[s] = "freed" => life'[s] = "freed"
  BY DEF ClientConnect, TypeOK, SocketsOK
<1>2. Between
  BY <1>1 DEF Between, S
<1>3. Draining'
  BY <1>1 DEF DrainInv, Draining, Active, S
<1>4. QED
  BY <1>2, <1>3, DrainBetween

\* A polled CLOSED event stays with its worker until the connection ends.
LEMMA PollDrain ==
    ASSUME TypeOK, SessionInv, DrainInv, NEW w \in Workers, WorkerPoll(w)
    PROVE  DrainInv'
<1>0. PICK e \in Event : e = Head(events)
  BY DEF WorkerPoll, TypeOK, ListsOK
<1>1. /\ UNCHANGED <<life, flags, sess, main, release, cons, drainRun>>
      /\ events # <<>> /\ wpc[w] \in {"lock", "drain"} /\ wev'[w] = e
      /\ wpc'[w] = IF e.type \in {"READ", "WRITE"} THEN "state" ELSE "trylock"
      /\ \A v \in Workers \ {w} : wpc'[v] = wpc[v] /\ wev'[v] = wev[v]
  BY <1>0 DEF WorkerPoll, Goto, TypeOK, WorkersOK
<1>2. Elems(events) = Elems(events') \cup {e}
  <2>1. events \in Seq(Event) /\ events' = Tail(events)
    BY DEF WorkerPoll, TypeOK, ListsOK
  <2>2. QED
    BY <1>0, <1>1, <2>1, ElemsTail
<1>3. /\ S(w)' = e.sock /\ ~Active(w) /\ Active(w)' /\ wpc'[w] # "end"
      /\ \A v \in Workers \ {w} : S(v)' = S(v) /\ Active(v)' = Active(v)
  BY <1>1 DEF S, Active, ActivePcs, EventPcs, SectionPcs
<1>4. Between
  BY <1>1, <1>3 DEF Between
<1>5. Draining'
  <2>1. SUFFICES ASSUME drainRun PROVE Draining'
    BY <1>1 DEF Draining
  <2>2. /\ \A d \in Elems(events') : d.type = "CLOSED"
        /\ e.type = "CLOSED"
    BY <1>2, <2>1 DEF DrainInv, Draining
  <2>3. \A v \in Workers : Active(v)' => wev'[v].type = "CLOSED" /\ wpc'[v] \in DrainPcs
    BY <1>1, <1>3, <2>1, <2>2 DEF DrainInv, Draining, DrainPcs
  <2>4. ASSUME NEW s \in cons'
        PROVE  \/ \E d \in Elems(events') : d.sock = s
               \/ \E v \in Workers : Active(v)' /\ S(v)' = s
    <3>1. CASE \E d \in Elems(events) : d.sock = s
      BY <1>2, <1>3, <3>1
    <3>2. CASE \E v \in Workers : Active(v) /\ S(v) = s
      BY <1>3, <3>2
    <3>3. QED
      BY <1>1, <2>1, <2>4, <3>1, <3>2 DEF DrainInv, Draining
  <2>5. QED
    BY <1>3, <2>2, <2>3, <2>4 DEF Draining
<1>6. QED
  BY <1>4, <1>5, DrainBetween

LEMMA AddEventDrain ==
    ASSUME TypeOK, SessionInv, DrainInv, NEW w \in Workers, AddEvent(w)
    PROVE  DrainInv'
<1>1. /\ UNCHANGED <<life, flags, sess, main, release, cons, drainRun, wev>>
      /\ wpc[w] = "requeue"
  BY DEF AddEvent
<1>2. wev[w] \in Event /\ wev[w].sock = S(w) /\ Active(w)
  BY <1>1, AtPoint DEF ActivePcs, EventPcs, SectionPcs, S
<1>3. /\ wpc'[w] = "unref"
      /\ \A v \in Workers : S(v)' = S(v) /\ wev'[v] = wev[v]
      /\ \A v \in Workers \ {w} : wpc'[v] = wpc[v] \/ (wpc[v] = "wait" /\ wpc'[v] = "lock")
      /\ \A v \in Workers \ {w} : Active(v)' = Active(v)
  BY <1>1, SignalMoves DEF AddEvent, S, Active, ActivePcs, EventPcs, SectionPcs
<1>4. Elems(events') = Elems(events) \cup {wev[w]}
  <2>1. events \in Seq(Event) /\ events' = Append(events, wev[w])
    BY DEF AddEvent, TypeOK, ListsOK
  <2>2. QED
    BY <1>2, <2>1, ElemsAppend
<1>5. Between
  BY <1>1, <1>3 DEF Between
<1>6. Draining'
  <2>1. SUFFICES ASSUME drainRun PROVE Draining'
    BY <1>1 DEF Draining
  <2>2. \A d \in Elems(events') : d.type = "CLOSED"
    BY <1>2, <1>4, <2>1 DEF DrainInv, Draining
  <2>3. \A v \in Workers : Active(v)' => wev'[v].type = "CLOSED" /\ wpc'[v] \in DrainPcs
    <3>1. ~Active(w)'
      BY <1>3 DEF Active, ActivePcs
    <3>2. \A v \in Workers : Active(v)' => Active(v) /\ wpc'[v] = wpc[v]
      BY <1>3, <3>1 DEF Active, ActivePcs, EventPcs, SectionPcs
    <3>3. QED
      BY <1>3, <2>1, <3>2 DEF DrainInv, Draining
  <2>4. ASSUME NEW s \in cons'
        PROVE  \/ \E d \in Elems(events') : d.sock = s
               \/ \E v \in Workers : Active(v)' /\ S(v)' = s
    BY <1>1, <1>2, <1>3, <1>4, <2>1, <2>4 DEF DrainInv, Draining
  <2>5. QED
    BY <1>3, <2>2, <2>3, <2>4 DEF Draining
<1>7. QED
  BY <1>5, <1>6, DrainBetween

LEMMA FreeDrain ==
    ASSUME TypeOK, SessionInv, DrainInv, NEW w \in Workers, SockFree(w)
    PROVE  DrainInv'
<1>1. /\ UNCHANGED <<life, flags, sess, main, events, cons, drainRun, wev>>
      /\ wpc[w] = "free" /\ wpc'[w] = "unlock"
      /\ \A v \in Workers \ {w} : wpc'[v] = wpc[v]
  BY DEF SockFree, Goto, TypeOK, WorkersOK
<1>2. Active(w) /\ S(w) \in Socks /\ S(w) \notin cons
  BY <1>1, AtPoint DEF ActivePcs, EventPcs, SectionPcs, Phase
<1>3. Elems(release') = Elems(release) \cup {S(w)}
  <2>1. release \in Seq(Socks) /\ release' = Append(release, S(w))
    BY DEF SockFree, TypeOK, ListsOK
  <2>2. QED
    BY <1>2, <2>1, ElemsAppend
<1>4. /\ \A v \in Workers : S(v)' = S(v) /\ wev'[v] = wev[v]
      /\ \A v \in Workers \ {w} : Active(v)' = Active(v)
      /\ ~Active(w)'
  BY <1>1 DEF S, Active, ActivePcs
<1>5. Between
  BY <1>1, <1>3, <1>4 DEF Between
<1>6. Draining'
  BY <1>1, <1>2, <1>4 DEF DrainInv, Draining
<1>7. QED
  BY <1>5, <1>6, DrainBetween

LEMMA UnrefDrain ==
    ASSUME TypeOK, SessionInv, DrainInv, NEW w \in Workers, SockUnref(w)
    PROVE  DrainInv'
<1>1. /\ UNCHANGED <<flags, sess, main, events, release, cons, drainRun>>
      /\ wpc[w] = "unref" /\ wpc'[w] \in {"drain", "top"}
      /\ \A v \in Workers \ {w} : wpc'[v] = wpc[v] /\ wev'[v] = wev[v]
      /\ \A s \in Socks : life[s] = "freed" => life'[s] = "freed"
  BY DEF SockUnref, Goto, TypeOK, WorkersOK, SocketsOK
<1>2. /\ ~Active(w) /\ ~Active(w)'
      /\ \A v \in Workers \ {w} : S(v)' = S(v) /\ Active(v)' = Active(v)
  BY <1>1 DEF S, Active, ActivePcs, EventPcs, SectionPcs
<1>3. Between
  BY <1>1, <1>2 DEF Between
<1>4. Draining'
  BY <1>1, <1>2 DEF DrainInv, Draining
<1>5. QED
  BY <1>3, <1>4, DrainBetween

\* Nobody is in a handler when the connections are closed.
LEMMA CloseDrain ==
    ASSUME TypeOK, SessionInv, DrainInv, DrainClose
    PROVE  DrainInv'
<1>1. /\ UNCHANGED <<sess, release, cons, wpc, wev>>
      /\ main = "dclose" /\ main' = "join" /\ drainRun' = TRUE
      /\ \A s \in Socks : "FREE_ON_UNREF" \in flags[s] => "FREE_ON_UNREF" \in flags'[s]
      /\ \A s \in Socks : life[s] = "freed" => life'[s] = "freed"
  BY DEF DrainClose, CloseState
<1>2. \A v \in Workers : wpc[v] = "await" /\ wpc'[v] = "await"
  BY <1>1 DEF SessionInv, Stages
<1>3. /\ \A e \in Elems(events') : e.type = "CLOSED"
      /\ \A s \in cons : \E e \in Elems(events') : e.sock = s
  BY CloseEntriesOnce DEF DrainClose, TypeOK, ListsOK
<1>4. Orderly' /\ OpenServed' /\ EndedFreed' /\ SessionsEnd'
  BY <1>1, <1>2 DEF DrainInv, Orderly, OpenServed, EndedFreed, SessionsEnd, S
<1>5. Draining'
  <2>1. \E v \in Workers : wpc'[v] # "end"
    BY <1>2, ThreadsAssumption
  <2>2. \A v \in Workers : ~Active(v)'
    BY <1>2 DEF Active, ActivePcs, EventPcs, SectionPcs
  <2>3. QED
    BY <1>1, <1>3, <2>1, <2>2 DEF Draining
<1>6. QED
  BY <1>4, <1>5 DEF DrainInv

\* After the last worker nothing is queued and nothing is in cons, so a
\* socket that left the release list has lost its last reference.
LEMMA CleanDrain ==
    ASSUME KeptOpen, TypeOK, RefInv, SessionInv, DrainInv, Clean
    PROVE  DrainInv'
<1>1. /\ UNCHANGED <<flags, sess, drainRun, wpc, wev>>
      /\ main = "clean" /\ main' = "done"
      /\ release' = <<>> /\ events' = <<>> /\ cons' = {}
      /\ \A s \in Socks : life[s] = "freed" => life'[s] = "freed"
      /\ \A s \in Elems(release) \cap Socks : life'[s] = "freed"
  BY DEF Clean, Elems
<1>2. /\ \A v \in Workers : wpc[v] = "end" /\ wpc'[v] = "end"
      /\ \A v \in Workers : ~Active(v) /\ ~Active(v)'
      /\ relay = <<>> /\ drainRun
  <2>1. relay = <<>> /\ drainRun /\ \A v \in Workers : wpc[v] = "end"
    BY <1>1 DEF SessionInv, Stages
  <2>2. QED
    BY <1>1, <2>1 DEF Active, ActivePcs, EventPcs, SectionPcs
<1>3. events = <<>> /\ cons = {}
  BY <1>2, ElemsEmpty DEF DrainInv, Draining
<1>4. \A s \in Socks : sess[s] # "open"
  BY <1>2, <1>3 DEF DrainInv, OpenServed
<1>5. ASSUME NEW s \in Socks, sess[s] = "ended"
      PROVE  life'[s] = "freed"
  <2>1. CASE s \in Elems(release)
    BY <1>1, <2>1
  <2>2. CASE "FREE_ON_UNREF" \in flags[s]
    <3>1. s \notin Elems(release)
      BY <2>2 DEF SessionInv, Fates
    <3>2. Count(events, s) = 0 /\ Count(relay, s) = 0
      BY <1>2, <1>3, CountEmpty
    <3>3. Released(release, s) = 0
      <4>1. {i \in DOMAIN release : release[i] = s} = {}
        BY <3>1 DEF Elems
      <4>2. QED
        BY <4>1, FS_EmptySet DEF Released
    <3>4. Cardinality(WorkersOn(s)) = 0
      <4>1. \A v \in Workers : wev[v] = NoEvent
        BY <1>2 DEF RefInv, IdleWorkers, EventPcs, SectionPcs
      <4>2. WorkersOn(s) = {}
        BY <4>1, NoneNotSock DEF WorkersOn, S
      <4>3. QED
        BY <4>2, FS_EmptySet
    <3>5. Cardinality(AppsOn(s)) = 0
      <4>1. AppsOn(s) = {}
        BY DEF AppsOn, KeptOpen, OneDirection
      <4>2. QED
        BY <4>1, FS_EmptySet
    <3>6. ref[s] = 0
      <4>1. ref[s] = Holders(s)
        BY <1>1, AccountingAsHolders DEF RefInv
      <4>2. QED
        BY <3>2, <3>3, <3>4, <3>5, <4>1 DEF Holders
    <3>7. life[s] = "freed"
      BY <2>2, <3>6 DEF SessionInv, Fates
    <3>8. QED
      BY <1>1, <3>7
  <2>3. QED
    BY <1>1, <1>2, <1>5, <2>1, <2>2 DEF DrainInv, EndedFreed
<1>6. Orderly' /\ OpenServed'
  BY <1>1, <1>2, <1>4 DEF Orderly, OpenServed
<1>7. EndedFreed' /\ SessionsEnd'
  BY <1>1, <1>4, <1>5 DEF EndedFreed, SessionsEnd
<1>8. Draining'
  BY <1>1, <1>2, ElemsEmpty DEF Draining
<1>9. QED
  BY <1>6, <1>7, <1>8 DEF DrainInv

LEMMA ClientDrain ==
    ASSUME TypeOK, SessionInv, DrainInv, NEW c \in Socks,
           ClientSend(c) \/ ClientRecv(c) \/ ClientLeave(c)
    PROVE  DrainInv'
<1>1. UNCHANGED <<sockVars, mainVars, listVars, ctlVars, workVars>>
  BY DEF ClientSend, ClientRecv, ClientLeave
<1>2. \A v \in Workers : wpc[v] \in EventPcs => S(v) \in Socks
  BY EventOwned
<1>3. QuietStep
  BY <1>1 DEF QuietStep
<1>4. QED
  BY <1>1, <1>2, <1>3, QuietDrain

-----------------------------------------------------------------------------
(* The theorem *)

LEMMA DrainInit == Init => DrainInv
<1> SUFFICES ASSUME Init PROVE DrainInv
  OBVIOUS
<1>1. Orderly /\ OpenServed /\ EndedFreed
  BY DEF Init, Orderly, OpenServed, EndedFreed
<1>2. Draining /\ SessionsEnd
  BY DEF Init, Draining, SessionsEnd
<1>3. QED
  BY <1>1, <1>2 DEF DrainInv

LEMMA DrainStep ==
    ASSUME KeptOpen, TypeOK, RefInv, SessionInv, DrainInv, [Next]_vars
    PROVE  DrainInv'
<1>0. TypeOK'
  BY TypeStep
<1>1. CASE MainNext
  BY <1>1, MainLoopDrain, ListenDrain, MainInterruptedDrain, MainListenFailsDrain,
     MainLockEventsDrain, ReleaseDrain, RelayDrain, DispatchDrain, MainUnlockEventsDrain,
     AcceptDrain, MainAcceptAgainDrain, DrainSignalDrain, DrainAwaitDrain, CloseDrain,
     JoinDrain, CleanDrain DEF MainNext
<1>2. ASSUME NEW w \in Workers, WorkerNext(w) \/ SpuriousWake(w)
      PROVE  DrainInv'
  <2>1. CASE \/ WorkerTop(w) \/ WorkerPoll(w) \/ WorkerEmpty(w) \/ WorkerWait(w)
             \/ WorkerCount(w) \/ WorkerAwait(w) \/ WorkerEnd(w) \/ SpuriousWake(w)
    BY <2>1, WorkerTopDrain, PollDrain, WorkerEmptyDrain, WorkerWaitDrain,
       WorkerCountDrain, WorkerAwaitDrain, WorkerEndDrain, SpuriousWakeDrain
  <2>2. CASE \/ SockEventState(w) \/ SockTrylock(w) \/ AddEvent(w) \/ SockUnlock(w)
             \/ SockUnref(w) \/ SockAccepted(w) \/ SockConnected(w) \/ SockCheck(w)
    BY <1>0, <2>2, StateDrain, TrylockDrain, AddEventDrain, SockUnlockDrain, UnrefDrain,
       AcceptedDrain, ConnectedDrain, CheckDrain
  <2>3. CASE \/ SockAdd(w) \/ SockCanRead(w) \/ SockCanWrite(w) \/ SockRearm(w)
             \/ SockError(w) \/ SockClosed(w) \/ SockDisconnected(w) \/ SockFree(w)
    BY <1>0, <2>3, AddDrain, CanReadDrain, CanWriteDrain, RearmDrain, ErrorDrain,
       ClosedDrain, DisconnectedDrain, FreeDrain
  <2>4. QED
    BY <1>2, <2>1, <2>2, <2>3 DEF WorkerNext
<1>3. CASE \E a \in Apps : AppNext(a)
  BY <1>3 DEF KeptOpen, OneDirection
<1>4. ASSUME NEW c \in Socks, ClientNext(c)
      PROVE  DrainInv'
  BY <1>4, ConnectDrain, ClientDrain DEF ClientNext
<1>5. CASE Stop
  BY <1>5, StopDrain
<1>6. CASE UNCHANGED vars
  <2>1. QuietStep /\ \A v \in Workers : wpc[v] \in EventPcs => S(v) \in Socks
    BY <1>6, EventOwned DEF vars, QuietStep
  <2>2. QED
    BY <1>6, <2>1, QuietDrain DEF vars
<1>7. QED
  BY <1>1, <1>2, <1>3, <1>4, <1>5, <1>6 DEF Next, Done

\* When vtm_socket_stream_srv_run returns, every connection that was reported
\* as connected has been reported as disconnected and its socket is freed:
\* drain_queued closes all connections, the workers handle all their CLOSED
\* events before they end, and free_sockets takes what is left.
THEOREM EverySessionEnds == KeptOpen => (Spec => []SessionsEnd)
<1> SUFFICES ASSUME KeptOpen PROVE Spec => []SessionsEnd
  OBVIOUS
<1>1. Spec => [](TypeOK /\ RefInv /\ SessionInv)
  BY SessionAlways DEF KeptOpen
<1>2. Init => DrainInv
  BY DrainInit
<1>3. TypeOK /\ RefInv /\ SessionInv /\ DrainInv /\ [Next]_vars => DrainInv'
  BY DrainStep
<1>4. DrainInv => SessionsEnd
  BY DEF DrainInv
<1>5. QED
  BY <1>1, <1>2, <1>3, <1>4, PTL DEF Spec

=============================================================================
