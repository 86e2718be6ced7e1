------------------------------ MODULE ShlDlist ------------------------------
(***************************************************************************)
(* The circular doubly linked list of src/shl_dlist.h: its operations, and *)
(* its six loops, whose bodies are code of the caller that links and       *)
(* unlinks elements while the loop holds pointers into the list.           *)
(*                                                                         *)
(* The contents of the lists, as the caller sees them, are kept in order;  *)
(* the code knows only next and prev.                                      *)
(***************************************************************************)
EXTENDS Integers, Sequences, SequencesExt, FiniteSets

CONSTANTS
    ListHead,   \* the list heads
    Elem,       \* the elements: struct shl_dlist embedded in objects
    NULL        \* neither of them

Node == ListHead \cup Elem

VARIABLES
    next,    \* n->next
    prev,    \* n->prev
    order,   \* the elements the caller has linked to a head, in order
    loop     \* the loop in progress

vars == <<next, prev, order, loop>>

Idle  == [kind |-> "none"]
Kinds == {"each", "but_one", "safe"}

(***************************************************************************)
(* Operations                                                              *)
(***************************************************************************)

shl_dlist_linked(e) == next[e] # NULL /\ prev[e] # NULL
shl_dlist_empty(h)  == next[h] = h

\* Mutant of shl_dlist__link: the neighbour behind n is not told.
LinkOneWay(p, x, n) ==
    /\ next' = [next EXCEPT ![n] = x, ![p] = n]
    /\ prev' = [prev EXCEPT ![n] = p]

\* Between p and x, which are one node in an empty list.
shl_dlist__link(p, x, n) ==
    /\ next' = [next EXCEPT ![n] = x, ![p] = n]
    /\ prev' = [prev EXCEPT ![x] = n, ![n] = p]

\* The caller links only what is not linked: the code does not look.
shl_dlist_link(h, n) ==
    /\ ~shl_dlist_linked(n)
    /\ shl_dlist__link(h, next[h], n)
    /\ order' = [order EXCEPT ![h] = <<n>> \o @]
    /\ UNCHANGED loop

shl_dlist_link_tail(h, n) ==
    /\ ~shl_dlist_linked(n)
    /\ shl_dlist__link(prev[h], h, n)
    /\ order' = [order EXCEPT ![h] = Append(@, n)]
    /\ UNCHANGED loop

\* What a loop relies on while its body runs.
Pinned ==
    CASE loop = Idle -> {}
      [] loop.kind = "safe" -> {loop.tmp}
      [] OTHER -> {loop.iter, loop.start}

\* The loop forgets an element that did not stay in the list.
Forget(e) ==
    loop' = IF loop = Idle THEN loop
            ELSE [loop EXCEPT !.stay = @ \ {e}, !.visited = RemoveFirst(@, e)]

\* Nothing happens to an element that is not linked.
shl_dlist_unlink(e) ==
    /\ e \notin Pinned
    /\ IF shl_dlist_linked(e)
       THEN /\ next' = [next EXCEPT ![prev[e]] = next[e], ![e] = NULL]
            /\ prev' = [prev EXCEPT ![next[e]] = prev[e], ![e] = NULL]
            /\ order' = [h \in ListHead |-> RemoveFirst(order[h], e)]
            /\ Forget(e)
       ELSE UNCHANGED vars

(***************************************************************************)
(* Loops                                                                   *)
(***************************************************************************)

To(rev, n) == IF rev THEN prev[n] ELSE next[n]

\* Mutant of SkipHead: a loop over all but one element that has started at
\* the head skips it too.
SkipAlways(rev, s, h, n) == IF To(rev, n) = h THEN To(rev, h) ELSE To(rev, n)

\* The node behind n in a loop over all elements but s: not the head, unless
\* s is the head.
SkipHead(rev, s, h, n) == IF To(rev, n) = h /\ s # h THEN To(rev, h) ELSE To(rev, n)

\* The condition of a loop no longer holds.
AtEnd == loop # Idle /\ loop.iter = loop.start

\* The node at which a loop begins.
First(kind, rev, s, h) ==
    IF kind = "but_one" /\ To(rev, s) = h THEN To(rev, h) ELSE To(rev, s)

\* The loop l reaches node n, and runs its body for it unless it ends there.
Enter(l, n) ==
    [l EXCEPT !.iter = n,
              !.visited = IF n # l.start /\ n \in l.stay \cup ListHead THEN Append(@, n) ELSE @]

\* shl_dlist_for_each() and its relatives.  The loops over all elements start
\* at the head.
StartLoop(kind, rev, h, s) ==
    /\ loop = Idle
    /\ s = h \/ (kind = "but_one" /\ s \in ToSet(order[h]))
    /\ LET n == First(kind, rev, s, h)
           l == [kind |-> kind, rev |-> rev, head |-> h, start |-> s, iter |-> n,
                 tmp |-> IF kind = "safe" THEN To(rev, n) ELSE NULL,
                 stay |-> ToSet(order[h]) \ {s}, visited |-> << >>]
       IN  loop' = Enter(l, n)
    /\ UNCHANGED <<next, prev, order>>

\* Mutant of Advance: a safe loop reads the next node from the one that it
\* leaves.
AdvanceStaleTmp ==
    /\ loop # Idle /\ ~AtEnd
    /\ LET n == CASE loop.kind = "each" -> To(loop.rev, loop.iter)
                  [] loop.kind = "safe" -> loop.tmp
                  [] loop.kind = "but_one" -> SkipHead(loop.rev, loop.start, loop.head, loop.iter)
           t == IF loop.kind = "safe" THEN To(loop.rev, loop.iter) ELSE NULL
       IN  loop' = Enter([loop EXCEPT !.tmp = t], n)
    /\ UNCHANGED <<next, prev, order>>

\* The body is done, and the loop goes on.
Advance ==
    /\ loop # Idle /\ ~AtEnd
    /\ LET n == CASE loop.kind = "each" -> To(loop.rev, loop.iter)
                  [] loop.kind = "safe" -> loop.tmp
                  [] loop.kind = "but_one" -> SkipHead(loop.rev, loop.start, loop.head, loop.iter)
       IN  loop' = Enter([loop EXCEPT !.tmp = IF loop.kind = "safe" THEN To(loop.rev, n) ELSE NULL], n)
    /\ UNCHANGED <<next, prev, order>>

EndLoop ==
    /\ AtEnd
    /\ loop' = Idle
    /\ UNCHANGED <<next, prev, order>>

(***************************************************************************)
(* The specification                                                       *)
(***************************************************************************)

\* shl_dlist_init() for the heads; the elements are zeroed.
Init ==
    /\ next = [n \in Node |-> IF n \in ListHead THEN n ELSE NULL]
    /\ prev = [n \in Node |-> IF n \in ListHead THEN n ELSE NULL]
    /\ order = [h \in ListHead |-> << >>]
    /\ loop = Idle

\* What the caller does, between the loops and in their bodies.
Body ==
    /\ ~AtEnd
    /\ \E e \in Elem :
         \/ \E h \in ListHead : shl_dlist_link(h, e) \/ shl_dlist_link_tail(h, e)
         \/ shl_dlist_unlink(e)

Next ==
    \/ Body
    \/ \E kind \in Kinds, rev \in BOOLEAN, h \in ListHead, s \in Node : StartLoop(kind, rev, h, s)
    \/ Advance
    \/ EndLoop

Spec == Init /\ [][Next]_vars

(***************************************************************************)
(* Properties                                                              *)
(***************************************************************************)

TypeOK ==
    /\ next \in [Node -> Node \cup {NULL}]
    /\ prev \in [Node -> Node \cup {NULL}]
    /\ \A h \in ListHead : order[h] \in Seq(Elem)
    /\ loop = Idle \/
       loop \in [kind : Kinds, rev : BOOLEAN, head : ListHead, start : Node, iter : Node,
                 tmp : Node \cup {NULL}, stay : SUBSET Elem, visited : Seq(Node)]

\* The circle of a list: its head and its elements.
Circle(h) == <<h>> \o order[h]

\* Both chains of pointers run through exactly the elements the caller has
\* linked, in the order it has linked them, in opposite directions and back
\* to the head; no element is in two places, and one that is in none has
\* null pointers (so that it can be linked, or unlinked once more).
ListsExact ==
    /\ \A h \in ListHead : LET c == Circle(h) IN \A i \in 1..Len(c) :
           /\ next[c[i]] = c[(i % Len(c)) + 1]
           /\ prev[c[(i % Len(c)) + 1]] = c[i]
           /\ \A g \in ListHead : \A j \in 1..Len(Circle(g)) :
                  Circle(g)[j] = c[i] => g = h /\ j = i
    /\ \A h \in ListHead : shl_dlist_empty(h) <=> order[h] = << >>
    /\ \A e \in Elem : (\A h \in ListHead : e \notin ToSet(order[h])) =>
                       next[e] = NULL /\ prev[e] = NULL

\* A loop holds on to its list whatever its body links and unlinks: the node
\* it will take its next step from is still in the list, so the loop neither
\* follows a null pointer nor strays into another list.  Nothing but the
\* contract of the macros is asked of the body: a safe loop may lose
\* everything but the node behind the current one, the others everything but
\* the current one and the one they started with.
LoopStaysInList ==
    loop # Idle =>
        /\ (IF loop.kind = "safe" THEN loop.tmp ELSE loop.iter) \in ToSet(Circle(loop.head))
        /\ loop.start \in ToSet(Circle(loop.head))

\* The place of a node in the circle of a list.
Place(h, n) == CHOOSE i \in 1..Len(Circle(h)) : Circle(h)[i] = n

\* A loop that starts behind place s comes to place i before it comes to j.
Sooner(rev, s, i, j) ==
    IF rev THEN IF i < s <=> j < s THEN i > j ELSE i < s
           ELSE IF i > s <=> j > s THEN i < j ELSE i > s

\* A loop that has ended has visited each element that was in the list all the
\* time exactly once, in the order of the list (or against it), and neither the
\* one it was told to leave out nor a head, which is not part of an object.
LoopVisitsAll ==
    AtEnd =>
        /\ ToSet(loop.visited) = loop.stay
        /\ \A i, j \in 1..Len(loop.visited) :
               i < j => Sooner(loop.rev, Place(loop.head, loop.start),
                               Place(loop.head, loop.visited[i]), Place(loop.head, loop.visited[j]))

\* A loop ends, unless its body keeps on linking elements.
LoopEnds ==
    <>[][~\E e \in Elem, h \in ListHead : shl_dlist_link(h, e) \/ shl_dlist_link_tail(h, e)]_vars
        => []<>(loop = Idle)
=============================================================================
