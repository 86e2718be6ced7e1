------------------------------ MODULE ShlTrie -------------------------------
(***************************************************************************)
(* The crit-bit trie of src/shl_trie.c: insertion, removal, lookup, prefix *)
(* visits, clearing, and the traversal behind the last two, which needs no *)
(* stack because it keeps the way back in the child pointers of the nodes. *)
(*                                                                         *)
(* A byte is the set of its bits that are 1, so the terminating zero byte  *)
(* is {}.  A pointer is the object it leads to with the visited mark, bit  *)
(* 1; bit 0 of the code tells nodes from entries and is the set that `to`  *)
(* is in here.  A slot <<x, i>> is a place that holds a pointer: child i   *)
(* of the node x, or the root, which is the only slot of the trie head.    *)
(***************************************************************************)
EXTENDS Integers, Sequences, SequencesExt

CONSTANTS
    Width,       \* bits of a byte: 8
    Node,        \* memory for nodes
    Object,      \* the caller's objects that hold a key
    KeyOf,       \* the key of each object
    Misaligned,  \* objects whose address is not a multiple of 4
    Key,         \* the keys and prefixes that are asked for
    Trie,        \* the trie head
    None         \* the object of the NULL pointer

Bits == 0..(Width - 1)

ASSUME TrieAssumption ==
    /\ Width \in Nat \ {0}
    /\ Key \subseteq Seq((SUBSET Bits) \ {{}})
    /\ KeyOf \in [Object -> Key]
    /\ Misaligned \subseteq Object
    /\ IsFiniteSet(Node) /\ Node \cap Object = {}
    /\ Trie \notin Node \cup Object
    /\ None \notin Node \cup Object \cup {Trie}

VARIABLES
    childs,     \* the pointers: node->childs, and trie->root
    byte,       \* node->byte
    otherbits,  \* node->otherbits
    live,       \* the nodes that are allocated
    trav,       \* the traversal in progress
    stored      \* the objects that are in the trie as its users see it

vars == <<childs, byte, otherbits, live, trav, stored>>

Idle == [op |-> "none"]

To(x) == [to |-> x, mark |-> FALSE]
Null  == To(None)

shl_trie_is_node(ptr)      == ptr.to \in Node
shl_trie_is_visited(ptr)   == ptr.mark
shl_trie_clear_visited(ptr) == [ptr EXCEPT !.mark = FALSE]
shl_trie_mark_visited(ptr) == [ptr EXCEPT !.mark = TRUE]

RootSlot == <<Trie, 0>>
At(slot) == childs[slot[1]][slot[2]]
root     == At(RootSlot)

\* Byte i of a key that is followed by zeros for ever.
ByteAt(key, i) == IF i < Len(key) THEN key[i + 1] ELSE {}

\* The bits in which a and b differ.
Differing(a, b) == (a \ b) \cup (b \ a)

\* Comparison of the numbers: b has the highest bit in which they differ.
Less(a, b) == a # b /\ Max(Differing(a, b)) \in b

\* (1 + (otherbits | c)) >> 8: right if all bits are 1, and left otherwise.
DirectionOf(other, c) == IF other \cup c = Bits THEN 1 ELSE 0

Direction(n, key) == DirectionOf(otherbits[n], ByteAt(key, byte[n]))

\* The slots on the way down from the root that key takes, as long as it
\* meets nodes of the set pass; the last one repeats.
Path(key, pass) ==
    LET path[i \in 0..Cardinality(Node)] ==
            IF i = 0 THEN RootSlot
            ELSE LET ptr == At(path[i - 1])
                 IN  IF shl_trie_is_node(ptr) /\ ptr.to \in pass
                     THEN <<ptr.to, Direction(ptr.to, key)>>
                     ELSE path[i - 1]
    IN  path

LastOf(path) == path[Cardinality(Node)]

\* The slot of the entry that key leads to: the closest match.
ClosestSlot(key) == LastOf(Path(key, Node))
Closest(key)     == At(ClosestSlot(key)).to

\* The entry that is found, or None.
shl_trie_lookup(key) ==
    IF root # Null /\ KeyOf[Closest(key)] = key THEN Closest(key) ELSE None

(***************************************************************************)
(* Insertion and removal                                                   *)
(***************************************************************************)

\* Mutant of Differences: keys that are longer than the new one and start
\* with it are taken for equal.
DifferencesInKey(key, other) ==
    {i \in 0..(Len(key) - 1) : ByteAt(key, i) # ByteAt(other, i)}

\* The bytes of the new key, its terminating zero included, in which another
\* one differs.
Differences(key, other) ==
    {i \in 0..Len(key) : ByteAt(key, i) # ByteAt(other, i)}

\* All bits but the most significant one in which a and b differ.
OtherBits(a, b) == Bits \ {Max(Differing(a, b))}

\* The object is linked in as the only entry, or behind a new node that
\* takes the place of the first node below which all keys differ later.
InsertBefore(o, newbyte, entry, new) ==
    LET key    == KeyOf[o]
        nother == OtherBits(ByteAt(key, newbyte), ByteAt(entry, newbyte))
        ndir   == DirectionOf(nother, ByteAt(entry, newbyte))
        above  == {n \in Node : \/ byte[n] < newbyte
                                \/ byte[n] = newbyte /\ ~Less(nother, otherbits[n])}
        where  == LastOf(Path(key, above))
    IN  /\ live' = live \cup {new}
        /\ byte' = [byte EXCEPT ![new] = newbyte]
        /\ otherbits' = [otherbits EXCEPT ![new] = nother]
        /\ childs' = [childs EXCEPT ![new] = [i \in 0..1 |-> IF i = ndir THEN At(where) ELSE To(o)],
                                    ![where[1]][where[2]] = To(new)]

\* -EFAULT for a misaligned object, -EALREADY for a key that is stored, and
\* -ENOMEM when there is no memory for a node, which may be at any time.
shl_trie_insert(o, mem) ==
    /\ trav = Idle /\ o \notin stored /\ (mem => live # Node)
    /\ LET entry == KeyOf[Closest(KeyOf[o])]
           diff  == Differences(KeyOf[o], entry)
       IN  IF o \in Misaligned \/ (root # Null /\ (diff = {} \/ ~mem))
           THEN UNCHANGED <<childs, byte, otherbits, live>>
           ELSE IF root = Null
           THEN childs' = [childs EXCEPT ![Trie][0] = To(o)] /\ UNCHANGED <<byte, otherbits, live>>
           ELSE InsertBefore(o, Min(diff), entry, CHOOSE n \in Node : n \notin live)
    /\ stored' = IF \/ o \in Misaligned
                    \/ \E x \in stored : KeyOf[x] = KeyOf[o]
                    \/ stored # {} /\ ~mem
                 THEN stored ELSE stored \cup {o}
    /\ UNCHANGED trav

\* What free() leaves of a node.
Unused == [i \in 0..1 |-> Null]

\* The node above the entry goes with it, and the other child of the node
\* takes its place.
shl_trie_remove(key) ==
    /\ trav = Idle
    /\ LET slot == ClosestSlot(key)
           n    == slot[1]
           path == Path(key, Node \ {n})
       IN  IF shl_trie_lookup(key) = None
           THEN UNCHANGED <<childs, byte, otherbits, live>>
           ELSE IF slot = RootSlot
           THEN childs' = [childs EXCEPT ![Trie][0] = Null] /\ UNCHANGED <<byte, otherbits, live>>
           ELSE /\ childs' = [childs EXCEPT ![LastOf(path)[1]][LastOf(path)[2]] = childs[n][1 - slot[2]],
                                            ![n] = Unused]
                /\ byte' = [byte EXCEPT ![n] = 0]
                /\ otherbits' = [otherbits EXCEPT ![n] = {}]
                /\ live' = live \ {n}
    /\ stored' = {o \in stored : KeyOf[o] # key}
    /\ UNCHANGED trav

(***************************************************************************)
(* Traversal                                                               *)
(***************************************************************************)

Smaller(k, l) ==
    \E i \in 0..Len(l) : /\ Less(ByteAt(k, i), ByteAt(l, i))
                         /\ \A j \in 0..(i - 1) : ByteAt(k, j) = ByteAt(l, j)

\* The first of the objects, in the order of the alphabet.
IsFirst(x, objects) == x \in objects /\ \A o \in objects \ {x} : Smaller(KeyOf[x], KeyOf[o])

\* The stored objects whose key starts with the prefix.
Matching(prefix) == {o \in stored : IsPrefix(prefix, KeyOf[o])}

\* A traversal of what ptr leads to.  What its callbacks should still be called
\* with is left to do; ok tells whether each was called with the first of them.
shl_trie_traverse(ptr, free, prefix) ==
    trav' = [op |-> "traverse", iter |-> ptr, parent |-> Null, free |-> free,
             prefix |-> prefix, todo |-> Matching(prefix), ok |-> TRUE]

shl_trie_clear ==
    /\ trav = Idle
    /\ shl_trie_traverse(root, TRUE, << >>)
    /\ UNCHANGED <<childs, byte, otherbits, live, stored>>

\* Mutant of TopOf: it also follows a node that decides at the byte after
\* the prefix.
TopTooDeep(path, plen) ==
    LET common == {0} \cup {i \in DOMAIN path : path[i] # RootSlot /\ byte[path[i][1]] <= plen}
    IN  At(path[Max(common)])

\* The child below the last node that the prefix decided at.
TopOf(path, plen) ==
    LET common == {0} \cup {i \in DOMAIN path : path[i] # RootSlot /\ byte[path[i][1]] < plen}
    IN  At(path[Max(common)])

\* Where a visit starts: without a prefix at the trie head itself, which is
\* taken for an entry; otherwise at the sub-trie of all keys with the prefix,
\* if its closest match has it.
VisitStart(prefix) ==
    IF root = Null THEN Null
    ELSE IF prefix = << >> THEN To(Trie)
    ELSE IF \A i \in 0..(Len(prefix) - 1) : ByteAt(KeyOf[Closest(prefix)], i) = ByteAt(prefix, i)
    THEN TopOf(Path(prefix, Node), Len(prefix))
    ELSE Null

shl_trie_visit(prefix) ==
    /\ trav = Idle
    /\ shl_trie_traverse(VisitStart(prefix), FALSE, prefix)
    /\ UNCHANGED <<childs, byte, otherbits, live, stored>>

Traversing == trav # Idle /\ trav.iter # Null

\* The callback of an entry.  It may free the object when the trie is
\* cleared, and makes no call to the trie (shl_trie.h:63, 161).
TraverseEntry ==
    /\ Traversing /\ ~shl_trie_is_node(trav.iter)
    /\ trav' = [trav EXCEPT !.iter = trav.parent,
                            !.parent = shl_trie_clear_visited(trav.iter),
                            !.ok = @ /\ IsFirst(trav.iter.to, trav.todo),
                            !.todo = @ \ {trav.iter.to}]
    /\ UNCHANGED <<childs, byte, otherbits, live, stored>>

\* Mutant of RightVisited: the mark of the right child is not looked at.
RightForgotten(n) == FALSE

RightVisited(n) == shl_trie_is_visited(childs[n][1])

AtNode(n) == Traversing /\ trav.iter.to = n

\* Both children are done: the node gets its right child back, or is freed.
TraverseDone(n) ==
    /\ AtNode(n) /\ RightVisited(n)
    /\ trav' = [trav EXCEPT !.iter = shl_trie_clear_visited(childs[n][1]), !.parent = To(n)]
    /\ IF trav.free
       THEN /\ childs' = [childs EXCEPT ![n] = Unused]
            /\ byte' = [byte EXCEPT ![n] = 0]
            /\ otherbits' = [otherbits EXCEPT ![n] = {}]
            /\ live' = live \ {n}
       ELSE /\ childs' = [childs EXCEPT ![n][1] = shl_trie_clear_visited(trav.parent)]
            /\ UNCHANGED <<byte, otherbits, live>>
    /\ UNCHANGED stored

\* Mutant of TraverseRight: a node is freed when it goes to its right child.
FreeAtRight(n) ==
    /\ AtNode(n) /\ ~RightVisited(n) /\ shl_trie_is_visited(childs[n][0])
    /\ trav' = [trav EXCEPT !.iter = childs[n][1], !.parent = To(n)]
    /\ childs' = [childs EXCEPT ![n][0] = shl_trie_clear_visited(trav.parent), ![n][1] = childs[n][0]]
    /\ live' = IF trav.free THEN live \ {n} ELSE live
    /\ UNCHANGED <<byte, otherbits, stored>>

\* The left child is done: it gets its pointer back, and the way back moves
\* to the right one.
TraverseRight(n) ==
    /\ AtNode(n) /\ ~RightVisited(n) /\ shl_trie_is_visited(childs[n][0])
    /\ trav' = [trav EXCEPT !.iter = childs[n][1], !.parent = To(n)]
    /\ childs' = [childs EXCEPT ![n][0] = shl_trie_clear_visited(trav.parent), ![n][1] = childs[n][0]]
    /\ UNCHANGED <<byte, otherbits, live, stored>>

\* The node is new: the left child makes room for the way back.
TraverseLeft(n) ==
    /\ AtNode(n) /\ ~RightVisited(n) /\ ~shl_trie_is_visited(childs[n][0])
    /\ trav' = [trav EXCEPT !.iter = childs[n][0], !.parent = To(n)]
    /\ childs' = [childs EXCEPT ![n][0] = shl_trie_mark_visited(trav.parent)]
    /\ UNCHANGED <<byte, otherbits, live, stored>>

\* The end of the loop, and of shl_trie_clear() or shl_trie_visit().
TraverseReturn ==
    /\ trav # Idle /\ trav.iter = Null
    /\ trav' = Idle
    /\ childs' = IF trav.free THEN [childs EXCEPT ![Trie][0] = Null] ELSE childs
    /\ stored' = IF trav.free THEN {} ELSE stored
    /\ UNCHANGED <<byte, otherbits, live>>

(***************************************************************************)
(* The specification                                                       *)
(***************************************************************************)

\* shl_trie_zero().
Init ==
    /\ childs = [x \in Node \cup {Trie} |-> IF x = Trie THEN [i \in {0} |-> Null] ELSE Unused]
    /\ byte = [n \in Node |-> 0]
    /\ otherbits = [n \in Node |-> {}]
    /\ live = {}
    /\ trav = Idle
    /\ stored = {}

Caller ==
    \/ \E o \in Object, mem \in BOOLEAN : shl_trie_insert(o, mem)
    \/ \E key \in Key : shl_trie_remove(key) \/ shl_trie_visit(key)
    \/ shl_trie_clear

Traverse ==
    \/ TraverseEntry
    \/ \E n \in Node : TraverseDone(n) \/ TraverseRight(n) \/ TraverseLeft(n)
    \/ TraverseReturn

Next == Caller \/ Traverse

Spec == Init /\ [][Next]_vars

\* A traversal goes on: nothing is waited for.
FairSpec == Spec /\ WF_vars(Traverse)

(***************************************************************************)
(* Properties                                                              *)
(***************************************************************************)

Pointer == [to : Node \cup Object \cup {Trie, None}, mark : BOOLEAN]

TypeOK ==
    /\ \A n \in Node : childs[n] \in [0..1 -> Pointer]
    /\ childs[Trie] \in [{0} -> Pointer]
    /\ byte \in [Node -> Nat]
    /\ otherbits \in [Node -> SUBSET Bits]
    /\ live \subseteq Node
    /\ trav = Idle \/ {trav.iter, trav.parent} \subseteq Pointer
    /\ stored \subseteq Object \ Misaligned

\* No mark of a traversal is left in a node, and every node has two children.
NoTraces ==
    \A n \in live, i \in 0..1 : ~shl_trie_is_visited(childs[n][i]) /\ childs[n][i].to # None

\* Between two calls every key leads to the object that was stored with it
\* and no other key leads to any, no mark of a traversal is left, and there
\* is exactly one node less than there are objects.
TrieExact ==
    /\ TypeOK
    /\ trav = Idle =>
         /\ \A key \in Key :
              LET found == {o \in stored : KeyOf[o] = key}
              IN  IF found = {} THEN shl_trie_lookup(key) = None ELSE shl_trie_lookup(key) \in found
         /\ NoTraces
         /\ Cardinality(live) = Max({Cardinality(stored) - 1, 0})

Exact == trav.ok /\ trav.todo = {}

\* When a visit with a prefix or a clear is over, the callback was called
\* once for each object it is meant for, in the order of the keys.
VisitExact ==
    trav # Idle /\ trav.iter = Null /\ (trav.free \/ trav.prefix # << >>) => Exact

\* A traversal never looks into a node that it has freed itself or that a
\* removal has.
TraversalSafe ==
    Traversing => (shl_trie_is_node(trav.iter) => trav.iter.to \in live)

\* A traversal comes to its end whatever the shape of the trie.
TraversalEnds == (trav # Idle) ~> (trav = Idle)

\* A visit without a prefix visits the whole trie (shl_trie.h:156).
VisitsWholeTrie == trav # Idle /\ trav.iter = Null => Exact
=============================================================================
