----------------------------- MODULE Containers -----------------------------
(***************************************************************************)
(* The array list (list.c), the queue of the macros in squeue.h and the    *)
(* byte buffer (buffer.c), each beside the sequence it stands for.         *)
(*                                                                         *)
(* A slot of an array holds a number or an object, named by a number.      *)
(* Sizes are size_t: they wrap at SizeMax, which is small so that the      *)
(* overflow branches are reached.  Any allocation may fail.                *)
(*                                                                         *)
(* A list is made with room for at least one entry: doubling a size of 0   *)
(* gives 0.  Only the entry set of an empty map or dataset is made with 0, *)
(* and nothing is added to it.                                             *)
(***************************************************************************)
EXTENDS Elements, Sequences, SequencesExt, FiniteSetsExt

CONSTANTS
    Objects,        \* the objects and the numbers kept in a list
    ListSizes,      \* the sizes vtm_list_new is called with
    ListTypes,      \* the types of the lists
    MaxList,        \* bound: entries a caller keeps in a list
    QueueNodes,     \* the nodes of the queue
    StaticLen,      \* sizeof(sdata)
    SizeMax,        \* SIZE_MAX
    MaxPut          \* bound: bytes put between two clears of a buffer

ASSUME ContainersAssumption ==
    /\ Objects \subseteq Nat \ {0} /\ QueueNodes \subseteq Nat \ {0} /\ IsFiniteSet(QueueNodes)
    /\ SizeMax \in Nat \ {0, 1} /\ MaxList \in Nat /\ MaxPut \in Nat
    /\ ListSizes \subseteq 1 .. SizeMax /\ ListTypes \subseteq Integral \cup {"POINTER"}
    /\ StaticLen \in 1 .. SizeMax

\* sizeof(sdata), 1024, and the number of values of a size_t are powers of two.
DoubledTo(p, n) == /\ p[0] = StaticLen /\ p[n] = SizeMax + 1
                   /\ \A i \in 1 .. n : p[i] = 2 * p[i - 1]
ASSUME BufAssumption ==
    \E n \in 0 .. SizeMax : \E p \in [0 .. n -> 1 .. SizeMax + 1] : DoubledTo(p, n)

VARIABLES
    li,         \* the list
    liRef,      \* history: the sequence it stands for
    objs,       \* the live objects; doubly is TRUE after one was freed twice
    sq,         \* the queue: head, tail and the next pointers of its nodes
    sqRef,      \* history: the sequence it stands for
    adjacent,   \* history: two neighbours were removed in one pass
    bf,         \* the buffer
    bfRef,      \* history: the bytes that were put and not got
    bfGot       \* the value that was got last, and the value it should be

listVars  == <<li, liRef, objs>>
queueVars == <<sq, sqRef, adjacent>>
bufVars   == <<bf, bfRef, bfGot>>

NULL == 0

-----------------------------------------------------------------------------
(* The list.  array has the slots that were written; a list whose array    *)
(* could not be reallocated has lost it.                                   *)

NewList(t, f, n) == [type |-> t, fnFree |-> f, array |-> <<>>, used |-> 0, size |-> n, lost |-> FALSE]

\* Mutant: the size wraps.
ListDoubled_Wraps(l) == (l.size * 2) % (SizeMax + 1)
\* vtm_list_grow: the sizes it may leave and whether the array is there.
ListDoubled(l) == LET n == (l.size * 2) % (SizeMax + 1) IN IF n < l.size THEN SizeMax ELSE n
ListGrown(l) ==
    IF l.used < l.size THEN {l}
    ELSE IF l.size = SizeMax THEN {}
    ELSE {[l EXCEPT !.size = ListDoubled(l), !.lost = x] : x \in BOOLEAN}

WriteSlot(l, v) ==
    [l EXCEPT !.array = IF l.used < Len(@) THEN [@ EXCEPT ![l.used + 1] = v] ELSE Append(@, v),
              !.used  = @ + 1]

\* vtm_list_add with a variant of the list's type (another is refused, as is
\* an addition at SIZE_MAX) and vtm_list_add_va, which casts; a pointer is an
\* object that no list has.
ListAdd(v) ==
    /\ ~li.lost /\ li.used < MaxList
    /\ li.type = "POINTER" => v \notin objs.live
    /\ \E l \in ListGrown(li), x \in {IF li.type = "POINTER" THEN v ELSE Cast(li.type, v)} :
          IF l.lost THEN li' = l /\ UNCHANGED <<liRef, objs>>
          ELSE /\ li' = WriteSlot(l, x) /\ liRef' = Append(liRef, x)
               /\ objs' = [objs EXCEPT !.live = IF li.type = "POINTER" THEN @ \cup {v} ELSE @]

\* vtm_list_remove; the free function is not called.
ListRemove(i) ==
    /\ ~li.lost /\ i < li.used
    /\ li' = [li EXCEPT !.array = SubSeq(@, 1, i) \o SubSeq(@, i + 2, li.used)
                                  \o SubSeq(@, li.used, Len(@)),
                        !.used = @ - 1]
    /\ liRef' = RemoveAt(liRef, i + 1)
    /\ UNCHANGED objs

\* vtm_list_clear, which vtm_list_free begins with.
ListClear ==
    /\ ~li.lost
    /\ li' = [li EXCEPT !.used = 0] /\ liRef' = <<>>
    /\ objs' = IF ~li.fnFree THEN objs
               ELSE LET s == SubSeq(li.array, 1, li.used)
                    IN  [live   |-> objs.live \ ToSet(s),
                         doubly |-> objs.doubly \/ Cardinality(ToSet(s) \cap objs.live) # Len(s)]

\* The caller frees an object that it took out of the list.
ObjFree(o) ==
    /\ o \in objs.live \ ToSet(liRef)
    /\ objs' = [objs EXCEPT !.live = @ \ {o}]
    /\ UNCHANGED <<li, liRef>>

\* The getters (VTM_LIST_READ).
ListGet(l, i) == l.array[i + 1]

ListInit ==
    /\ li \in {NewList(t, f, n) : t \in ListTypes, f \in BOOLEAN, n \in ListSizes}
    /\ li.fnFree => li.type = "POINTER"
    /\ liRef = <<>> /\ objs = [live |-> {}, doubly |-> FALSE]
ListNext ==
    \/ \E v \in Objects : ListAdd(v)
    \/ \E i \in 0 .. MaxList : ListRemove(i)
    \/ ListClear
    \/ \E o \in Objects : ObjFree(o)
ListSpec == ListInit /\ [][ListNext]_listVars

\* A list holds what was added and not removed, in order, with the casts of
\* its type, never writes behind its array and frees no object twice or while
\* it is still in the list, through every growth up to SIZE_MAX (list.c).
ListAsSequence ==
    /\ ~li.lost => /\ li.used = Len(liRef) /\ li.used <= li.size
                   /\ \A i \in 1 .. li.used : ListGet(li, i - 1) = liRef[i]
    /\ ~objs.doubly
    /\ li.type = "POINTER" => ToSet(liRef) \subseteq objs.live

-----------------------------------------------------------------------------
(* The queue.                                                              *)

SqInit == sq = [head |-> NULL, tail |-> NULL, next |-> [n \in QueueNodes |-> NULL]]
          /\ sqRef = <<>> /\ adjacent = FALSE

\* VTM_SQUEUE_FOR_EACH: the nodes from the head on, one visit after the other.
\* A chain that comes back to a node is cut after as many visits as there are
\* nodes.
Onward(q, s) ==
    LET n == IF s = <<>> THEN q.head ELSE q.next[Last(s)]
    IN  IF n = NULL THEN s ELSE Append(s, n)
Chain(q) ==
    LET walk[i \in 0 .. Cardinality(QueueNodes)] == IF i = 0 THEN <<>> ELSE Onward(q, walk[i - 1])
    IN  walk[Cardinality(QueueNodes)]

SqAdd(n) ==
    /\ n \notin ToSet(sqRef)
    /\ sq' = [head |-> IF sq.head = NULL THEN n ELSE sq.head, tail |-> n,
              next |-> [m \in QueueNodes |-> CASE m = n                -> NULL
                                               [] m = sq.tail /\ m # n -> n
                                               [] OTHER                -> sq.next[m]]]
    /\ sqRef' = Append(sqRef, n) /\ UNCHANGED adjacent

SqPoll ==
    /\ sq.head # NULL
    /\ sq' = [sq EXCEPT !.head = sq.next[sq.head], !.tail = IF @ = sq.head THEN NULL ELSE @]
    /\ sqRef' = IF sqRef = <<>> THEN sqRef ELSE Tail(sqRef)
    /\ UNCHANGED adjacent

\* Mutant: the tail stays where it is.
SqRemoved_OldTail(q, n, prev) ==
    [head |-> IF prev = NULL THEN q.next[n] ELSE q.head, tail |-> q.tail,
     next |-> IF prev = NULL THEN q.next ELSE [q.next EXCEPT ![prev] = q.next[n]]]
\* VTM_SQUEUE_REMOVE.
SqRemoved(q, n, prev) ==
    [head |-> IF prev = NULL THEN q.next[n] ELSE q.head,
     tail |-> IF n = q.tail THEN prev ELSE q.tail,
     next |-> IF prev = NULL THEN q.next ELSE [q.next EXCEPT ![prev] = q.next[n]]]

\* The nodes of s that are not in S, in their order.
Without(s, S) ==
    LET kept[i \in 0 .. Len(s)] ==
            IF i = 0 THEN <<>> ELSE IF s[i] \in S THEN kept[i - 1] ELSE Append(kept[i - 1], s[i])
    IN  kept[Len(s)]

\* VTM_SQUEUE_FOR_EACH_MOD with a removal of the nodes of S: PREV_PTR is the
\* node visited before, whether it was removed or not.
SqSweep(S) ==
    LET c == Chain(sq)
        sweep[i \in 0 .. Len(c)] ==
            IF i = 0 THEN sq
            ELSE IF c[i] \in S THEN SqRemoved(sweep[i - 1], c[i], IF i = 1 THEN NULL ELSE c[i - 1])
                 ELSE sweep[i - 1]
    IN  /\ sq' = sweep[Len(c)]
        /\ sqRef' = Without(sqRef, S)
        /\ adjacent' = (adjacent \/ \E i \in 2 .. Len(c) : {c[i - 1], c[i]} \subseteq S)

SqClear == sq' = [sq EXCEPT !.head = NULL, !.tail = NULL] /\ sqRef' = <<>> /\ UNCHANGED adjacent

SqNext == ~adjacent /\ (\/ \E n \in QueueNodes : SqAdd(n)
                        \/ SqPoll
                        \/ \E S \in SUBSET QueueNodes : SqSweep(S)
                        \/ SqClear)
QueueSpec == SqInit /\ [][SqNext]_queueVars

\* The queue is first in, first out: following the next pointers from the head
\* gives the nodes in the order they were added, and the tail is the last of
\* them, through any mix of adding, polling and removing in a pass, unless a
\* pass removed two neighbours (squeue.h).
QueueAsSequence ==
    ~adjacent => /\ Chain(sq) = sqRef
                 /\ sq.tail = IF sqRef = <<>> THEN NULL ELSE Last(sqRef)

-----------------------------------------------------------------------------
(* The buffer.  data has the used bytes; a value has two bytes, most       *)
(* significant first in big endian order.                                  *)

Orders == {"BE", "LE"}
ValueBytes(v, order) == IF order = "BE" THEN v ELSE Reverse(v)
NewBuf(order) == [order |-> order, place |-> "sdata", data |-> <<>>, len |-> StaticLen,
                  read |-> 0, err |-> FALSE]
Used(b) == Len(b.data)

\* Mutant: the bytes that were read are taken for free space.
PutAvail_Unread(b, n) == Used(b) - b.read + n <= b.len
\* VTM_BUF_PUT_AVAIL with the wrap of size_t.
PutAvail(b, n) == LET e == (Used(b) + n) % (SizeMax + 1) IN e <= b.len /\ e >= Used(b)

\* vtm_buf_grow: the buffer doubles until the old size and the addition fit.
BufDoubled(old, target) ==
    LET dbl[i \in 0 .. SizeMax] == IF i = 0 THEN old ELSE (dbl[i - 1] * 2) % (SizeMax + 1)
        k == CHOOSE i \in 0 .. SizeMax : (dbl[i] >= target \/ dbl[i] < old)
                                    /\ \A j \in 0 .. i - 1 : dbl[j] < target /\ dbl[j] >= old
    IN  dbl[k]
BufGrown(b, n) ==
    LET target == (b.len + n) % (SizeMax + 1)
        new    == BufDoubled(b.len, target)
        failed == [b EXCEPT !.err = TRUE]
    IN  IF b.err THEN {b}
        ELSE IF target < b.len \/ new < b.len THEN {failed}
        ELSE {[b EXCEPT !.place = "heap", !.len = new],
              [failed EXCEPT !.place = IF @ = "sdata" THEN "NULL" ELSE @]}
BufEnsured(b, n) == IF PutAvail(b, n) THEN {b} ELSE BufGrown(b, n)

Untouched == bfGot' = bfGot
\* vtm_buf_puto, with vtm_buf_putm, vtm_buf_puts and vtm_buf_putc the case of
\* equal byte orders; the bytes come from a value in the order src.  After the
\* first growth has failed data is NULL, and a put after a clear writes to it.
BufPut(v, src) ==
    /\ Len(bfRef) + Len(v) <= MaxPut
    /\ \E b \in BufEnsured(bf, Len(v)) :
          IF b.err THEN bf' = b /\ UNCHANGED bfRef
          ELSE LET s == ValueBytes(v, src)
               IN  IF b.place = "NULL" THEN bf' = [b EXCEPT !.place = "crash"] /\ UNCHANGED bfRef
                   ELSE /\ bf' = [b EXCEPT !.data = @ \o (IF b.order = src THEN s ELSE Reverse(s))]
                        /\ bfRef' = bfRef \o ValueBytes(v, bf.order)
    /\ Untouched

BufEnsure(n) == bf' \in BufEnsured(bf, n) /\ UNCHANGED bfRef /\ Untouched

\* vtm_buf_geto, after VTM_BUF_GET_AVAIL.
BufGet(n, dst) ==
    /\ bf.read + n <= Used(bf)
    /\ LET s == SubSeq(bf.data, bf.read + 1, bf.read + n)
           d == IF bf.order = dst THEN s ELSE Reverse(s)
       IN  bfGot' = [got  |-> d,
                     want |-> LET w == SubSeq(bfRef, 1, n)
                              IN  ValueBytes(IF bf.order = "BE" THEN w ELSE Reverse(w), dst)]
    /\ bf' = [bf EXCEPT !.read = @ + n]
    /\ bfRef' = SubSeq(bfRef, n + 1, Len(bfRef))

BufDiscard ==
    /\ bf.read # 0
    /\ bf' = [bf EXCEPT !.data = SubSeq(@, bf.read + 1, Used(bf)), !.read = 0]
    /\ UNCHANGED bfRef /\ Untouched
BufMarkAll == bf' = [bf EXCEPT !.read = Used(bf)] /\ bfRef' = <<>> /\ Untouched
BufClear == /\ bf' = [bf EXCEPT !.data = <<>>, !.read = 0, !.err = FALSE] /\ bfRef' = <<>> /\ Untouched

BufInit == bf \in {NewBuf(o) : o \in Orders} /\ bfRef = <<>> /\ bfGot = [got |-> <<>>, want |-> <<>>]
BufNext ==
    /\ bf.place # "crash"
    /\ \/ \E a, b \in {0, 1}, o \in Orders : BufPut(<<a, b>>, o)
       \/ \E a \in {0, 1} : BufPut(<<a>>, bf.order)
       \/ \E n \in 1 .. StaticLen : BufEnsure(n)
       \/ \E n \in 1 .. 2, o \in Orders : BufGet(n, o)
       \/ BufDiscard \/ BufMarkAll \/ BufClear
BufSpec == BufInit /\ [][BufNext]_bufVars

\* A buffer gives back the bytes that were put, in order and each once, in the
\* byte order asked for, never holds more than its memory, and after an error
\* takes nothing until it is cleared (buffer.c).
BufAsBytes ==
    /\ bfGot.got = bfGot.want
    /\ Used(bf) <= bf.len /\ bf.read <= Used(bf)
    /\ SubSeq(bf.data, bf.read + 1, Used(bf)) = bfRef
    /\ bf.place = "sdata" => bf.len = StaticLen
=============================================================================
