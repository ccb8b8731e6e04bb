------------------------------ MODULE HashMaps ------------------------------
(***************************************************************************)
(* The hash map (map.c), the map of the macros in smap.h and the dataset   *)
(* built from it (dataset.c), with the hashes (hash.c) and the comparisons *)
(* (elem.c) that place and find a key.                                     *)
(*                                                                         *)
(* A string is a sequence of character codes.  An element is a number, a   *)
(* cell of the heap or static memory of the caller.  The heap has the live *)
(* cells with their content; a cell that is freed twice, or was never      *)
(* allocated, makes ill TRUE.                                              *)
(***************************************************************************)
EXTENDS StringOps, Bitwise, TLC

CONSTANTS
    Names,      \* the strings used as keys
    Numbers,    \* the integers used as keys
    Contents,   \* the values
    Capacity,   \* the capacity vtm_map_new is called with
    DsBuckets,  \* the buckets of a dataset (eight)
    MaxEntries  \* bound: entries a caller keeps in a map

ASSUME HashMapsAssumption ==
    /\ Capacity \in Nat \ {0} /\ DsBuckets \in Nat \ {0} /\ MaxEntries \in Nat

VARIABLES
    hm,         \* the map
    heap,       \* the live cells
    ill,        \* a cell was freed that is not live
    ref         \* history: the abstract map, by canonical key

mapVars == <<hm, heap, ill, ref>>

-----------------------------------------------------------------------------
(* Hashes.  Only the low bits of the 32-bit hash select a bucket and every *)
(* operation on it carries from low to high, so 16 bits are kept.          *)

HashWidth == 65536
HashInit  == 2503

HashStr(s)     == FoldLeft(LAMBDA h, c : ((h * 8191) % HashWidth) ^^ c, HashInit, s)
HashStrCase(s) == HashStr(Lowered(s))

\* vtm_hash_num: the halves of the 64-bit two's complement are added and
\* multiplied by the low half of VTM_HASH_MAGIC_32.
HashNum(n) == ((IF n < 0 THEN n - 1 ELSE n) * 7095) % HashWidth

\* The hashes of the names, computed once.
NameHash     == [k \in Names |-> HashStr(k)]
NameHashCase == [k \in Names |-> HashStrCase(k)]

HashOf(m, k) == CASE m.keytype = "INT"                        -> HashNum(k)
                  [] m.keytype = "STRING" /\ ~m.nocase        -> NameHash[k]
                  [] m.keytype = "STRING" /\ m.nocase         -> NameHashCase[k]

\* Mutant: a dataset that ignores case compares exactly.
KeyCmp_Exact(m, a, b) == a = b
\* vtm_elem_get_cmp_fn, and the comparison VTM_SMAP_SET_KEY_FN installs.
KeyCmp(m, a, b) == IF m.nocase THEN Lowered(a) = Lowered(b) ELSE a = b

-----------------------------------------------------------------------------
(* Elements and cells.                                                     *)

Num(n)    == <<"int", n>>
Cell(i)   == <<"cell", i>>
Static(s) == <<"static", s>>
NoStr     == <<"null", 0>>

Deref(e) == IF e[1] = "cell" THEN heap[e[2]] ELSE e[2]
\* A cell that is not live; it is named after the key and the use it is for.
Fresh(k, use) == CHOOSE c \in {<<k, use, g>> : g \in 0 .. 1} :
                    c \notin DOMAIN heap /\ (c[3] = 1 => <<k, use, 0>> \in DOMAIN heap)

\* Mutant: the cached text is freed whatever the type is.
NodeFrees_StrAlways(m, n) ==
    IF m.kind = "map"
    THEN (IF m.keytype = "STRING" THEN {n.key} ELSE {})
         \cup (IF m.valtype = "STRING" \/ (m.valtype = "POINTER" /\ m.fnFree) THEN {n.val} ELSE {})
    ELSE (IF n.str # NoStr THEN {n.str} ELSE {})
         \cup (IF n.freeKey THEN {n.key} ELSE {})
         \cup (IF n.freeVal /\ n.type \in {"BLOB", "STRING", "POINTER"} THEN {n.val} ELSE {})
\* The elements that are freed with a node: vtm_map_node_free and
\* vtm_dataset_free_node.
NodeFrees(m, n) ==
    IF m.kind = "map"
    THEN (IF m.keytype = "STRING" THEN {n.key} ELSE {})
         \cup (IF m.valtype = "STRING" \/ (m.valtype = "POINTER" /\ m.fnFree) THEN {n.val} ELSE {})
    ELSE (IF n.str # NoStr /\ n.type # "STRING" THEN {n.str} ELSE {})
         \cup (IF n.freeKey THEN {n.key} ELSE {})
         \cup (IF n.freeVal /\ n.type \in {"BLOB", "STRING", "POINTER"} THEN {n.val} ELSE {})

\* The heap after the nodes of a sequence were freed and cells were added.
Freed(m, nodes) == UNION {NodeFrees(m, nodes[i]) : i \in DOMAIN nodes}
FreeAndAdd(m, nodes, new) ==
    LET gone == Freed(m, nodes)
        all  == new @@ heap
    IN  /\ heap' = [i \in {j \in DOMAIN all : Cell(j) \notin gone} |-> all[i]]
        /\ ill' = (ill \/ \E e \in gone : ~(e[1] = "cell" /\ e[2] \in DOMAIN heap))

-----------------------------------------------------------------------------
(* Buckets.                                                                *)

\* The smallest power of two that is not less than the capacity.
BucketCount(m) == IF m.kind = "map"
                  THEN 2 ^ Min({k \in 0 .. Capacity : 2 ^ k >= Capacity}) ELSE DsBuckets
Index(m, k) == HashOf(m, k) % BucketCount(m)

\* vtm_map_find_bucket_node_pos, VTM_SMAP_GET: 0 when there is none.
Find(m, k) ==
    LET b == m.buckets[Index(m, k)]
    IN  SelectInSeq(b, LAMBDA n : KeyCmp(m, Deref(n.key), k))
Found(m, k) == m.buckets[Index(m, k)][Find(m, k)]

\* map.c puts a new node in front, VTM_SMAP_PUT behind; both replace in place.
PutNode(m, k, n) ==
    LET i == Index(m, k)
    IN  [m EXCEPT !.buckets[i] =
            CASE Find(m, k) # 0                       -> ReplaceAt(@, Find(m, k), n)
              [] Find(m, k) = 0 /\ m.kind = "map"     -> <<n>> \o @
              [] Find(m, k) = 0 /\ m.kind = "dataset" -> Append(@, n)]
Replaced(m, k) == IF Find(m, k) = 0 THEN <<>> ELSE <<Found(m, k)>>

\* vtm_map_entryset, vtm_dataset_entryset: the buckets one after the other.
EntrySet(m) == FlattenSeq([i \in 1 .. BucketCount(m) |-> m.buckets[i - 1]])

Canon(m, k) == IF m.nocase THEN Lowered(k) ELSE k

-----------------------------------------------------------------------------
(* The map.  vtm_map_put_va copies the strings it is given, vtm_map_put    *)
(* takes over strings the caller has allocated: both leave a node with     *)
(* cells of its own.                                                       *)

NewKey(m, k)    == IF m.keytype = "STRING" THEN Cell(Fresh(k, "key")) ELSE Num(k)
NewVal(m, k, v) == CASE m.valtype = "STRING" \/ (m.valtype = "POINTER" /\ m.fnFree) ->
                          Cell(Fresh(k, "val"))
                     [] m.valtype = "POINTER" /\ ~m.fnFree -> Static(v)
                     [] m.valtype = "INT"                  -> Num(v)
CellsOf(n, k, v) == (IF n.key[1] = "cell" THEN n.key[2] :> k ELSE <<>>)
                    @@ (IF n.val[1] = "cell" THEN n.val[2] :> v ELSE <<>>)

KeysOf(m) == IF m.keytype = "INT" THEN Numbers ELSE Names
Room(m, k) == Find(m, k) # 0 \/ Len(EntrySet(m)) < MaxEntries

MapPut(k, v) ==
    /\ hm.kind = "map" /\ Room(hm, k)
    /\ \E n \in {[key |-> NewKey(hm, k), val |-> NewVal(hm, k, v), type |-> hm.valtype, str |-> NoStr,
                  freeKey |-> TRUE, freeVal |-> TRUE]} :
          /\ hm' = PutNode(hm, k, n)
          /\ FreeAndAdd(hm, Replaced(hm, k), CellsOf(n, k, v))
    /\ ref' = (k :> [name |-> k, type |-> hm.valtype, content |-> v]) @@ ref

\* vtm_map_remove and vtm_dataset_remove; nothing happens when the key is absent.
RemoveKey(k) ==
    /\ Find(hm, k) # 0
    /\ hm' = [hm EXCEPT !.buckets[Index(hm, k)] = RemoveAt(@, Find(hm, k))]
    /\ FreeAndAdd(hm, <<Found(hm, k)>>, <<>>)
    /\ ref' = [c \in DOMAIN ref \ {Canon(hm, k)} |-> ref[c]]

\* vtm_map_clear, vtm_dataset_clear.
Clear ==
    /\ hm' = [hm EXCEPT !.buckets = [i \in DOMAIN @ |-> <<>>]]
    /\ FreeAndAdd(hm, EntrySet(hm), <<>>)
    /\ ref' = <<>>

-----------------------------------------------------------------------------
(* The dataset.                                                            *)

Owns(type, copied) == copied /\ type \in {"STRING", "BLOB"}
DsNode(type, k, v, copied) ==
    [key |-> IF hm.staticNames THEN Static(k) ELSE Cell(Fresh(k, "key")),
     val |-> CASE Owns(type, copied)                            -> Cell(Fresh(k, "val"))
               [] ~Owns(type, copied) /\ type \in {"INT", "NULL"} -> Num(v)
               [] ~Owns(type, copied) /\ type \notin {"INT", "NULL"} -> Static(v),
     type |-> type, str |-> NoStr, freeKey |-> ~hm.staticNames, freeVal |-> Owns(type, copied)]

\* The set functions: numbers and pointers are stored, strings are copied,
\* blobs are taken over, static strings and blobs stay the caller's.
DatasetSet(k, type, v, copied) ==
    /\ hm.kind = "dataset" /\ Room(hm, k)
    /\ \E n \in {DsNode(type, k, v, copied)} :
          /\ hm' = PutNode(hm, k, n)
          /\ FreeAndAdd(hm, Replaced(hm, k), CellsOf(n, k, v))
    /\ ref' = (Canon(hm, k) :> [name |-> k, type |-> type, content |-> v]) @@ ref

\* vtm_dataset_set_variant: a string is copied, a blob taken over without a copy.
DatasetSetVariant(k, type, v) == DatasetSet(k, type, v, TRUE)

\* The get functions read the element of the node; name and type are those of the
\* entry list.
DatasetGet(m, k) ==
    LET n == Found(m, k) IN [name |-> Deref(n.key), type |-> n.type, content |-> Deref(n.val)]

\* vtm_dataset_get_string: a value that is no string gets its text cached.
DatasetGetString(k) ==
    /\ hm.kind = "dataset" /\ Find(hm, k) # 0
    /\ Found(hm, k).type # "NULL" /\ Found(hm, k).str = NoStr
    /\ \E s \in {IF Found(hm, k).type = "STRING" THEN Found(hm, k).val ELSE Cell(Fresh(k, "str"))} :
          /\ hm' = [hm EXCEPT !.buckets[Index(hm, k)][Find(hm, k)].str = s]
          /\ heap' = (IF Found(hm, k).type = "STRING" THEN <<>> ELSE s[2] :> <<"text">>) @@ heap
    /\ UNCHANGED <<ill, ref>>

-----------------------------------------------------------------------------
NewMap(kind, keytype, valtype, fnFree, staticNames, nocase) ==
    LET m == [kind |-> kind, keytype |-> keytype, valtype |-> valtype, fnFree |-> fnFree,
              staticNames |-> staticNames, nocase |-> nocase, buckets |-> <<>>]
    IN  [m EXCEPT !.buckets = [i \in 0 .. BucketCount(m) - 1 |-> <<>>]]

Maps ==
    {NewMap("map", kt, vt, f, FALSE, FALSE) :
        kt \in {"INT", "STRING"}, vt \in {"INT", "STRING", "POINTER"}, f \in BOOLEAN}
    \cup {NewMap("dataset", "STRING", "", FALSE, s, c) : s \in BOOLEAN, c \in BOOLEAN}

MapInit == hm \in Maps /\ heap = <<>> /\ ill = FALSE /\ ref = <<>>

\* The content of the values that are no numbers.
Text == CHOOSE v \in Contents : TRUE

MapNext ==
    \/ \E k \in KeysOf(hm), v \in Contents : MapPut(k, v)
    \/ \E k \in KeysOf(hm) : RemoveKey(k)
    \/ Clear
    \/ \E k \in KeysOf(hm) :
          \/ \E v \in Contents : DatasetSet(k, "INT", v, FALSE)
          \/ \E type \in {"STRING", "BLOB", "POINTER"} : DatasetSet(k, type, Text, FALSE)
          \/ \E type \in {"STRING", "BLOB"} : DatasetSet(k, type, Text, TRUE)
          \/ \E type \in {"NULL", "INT", "STRING", "BLOB"} : DatasetSetVariant(k, type, Text)
    \/ \E k \in KeysOf(hm) : DatasetGetString(k)

MapSpec == MapInit /\ [][MapNext]_mapVars

-----------------------------------------------------------------------------
\* A map is the function the puts, sets and removes describe: every key finds
\* its last value and no other key does, also when keys share a bucket, differ
\* only in case or are replaced; the entry list has every entry once.
MapAsFunction ==
    LET all == EntrySet(hm)
    IN  /\ \A k \in KeysOf(hm) :
             /\ Find(hm, k) # 0 <=> Canon(hm, k) \in DOMAIN ref
             /\ Find(hm, k) # 0 => DatasetGet(hm, k) = ref[Canon(hm, k)]
        /\ Len(all) = Cardinality(DOMAIN ref)

\* The heap holds exactly the cells the nodes own, each of them owned once, and
\* no cell was ever freed twice: replacing, removing and clearing entries leaks
\* nothing and leaves no entry with memory of another.
HeapExact ==
    /\ ~ill
    /\ LET all == EntrySet(hm)
       IN  /\ {Cell(i) : i \in DOMAIN heap} = Freed(hm, all)
           /\ Cardinality(DOMAIN heap)
                = MapThenSumSet(LAMBDA i : Cardinality(NodeFrees(hm, all[i])), DOMAIN all)
=============================================================================
