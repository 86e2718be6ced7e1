---------------------------- MODULE ShlTrieProofs ---------------------------
(***************************************************************************)
(* Proofs about ShlTrie, for any number of nodes, objects and keys.        *)
(*                                                                         *)
(* A traversal stores its way back in the child pointers of the nodes it   *)
(* passes, so that while it runs the pointers are not those of a tree.     *)
(* The invariant says that there is a forest `kid` that they would make    *)
(* without it, and a stack of nodes, the way from the traversal back to    *)
(* where it began, each of which hides the child below it in the stack     *)
(* behind a marked pointer to the node above it.  A rank of the nodes that *)
(* grows downwards keeps the stack free of repetitions.                    *)
(*                                                                         *)
(* What a trie contains is the set `below` of objects under each slot and  *)
(* the bit `crit` that each node decides at.  All keys below a node agree  *)
(* before that bit of its byte, and the bit tells those on its left from   *)
(* those on its right.  A traversal still has to visit what is below the   *)
(* pointer it goes down to and below the right child of each node of the   *)
(* stack that it went left from.  None of this is in the code: all of it   *)
(* is bound in the invariant.                                              *)
(***************************************************************************)
EXTENDS ShlTrie, FiniteSetTheorems, NaturalsInduction, WellFoundedInduction, TLAPS

(***************************************************************************)
(* Numbers                                                                 *)
(***************************************************************************)

\* A set of numbers that is not empty has a smallest one.
LEMMA Least ==
    ASSUME NEW S, S \subseteq Nat, S # {}
    PROVE  \E x \in S : \A y \in S : x <= y
<1> DEFINE R == OpToRel(<, Nat)
<1>1. \A x, y \in Nat : x < y => <<x, y>> \in R
  BY Zenon DEF OpToRel
<1>2. \E x \in S : \A y \in S : ~(<<y, x>> \in R)
  BY NatLessThanWellFounded, WFMin
<1> HIDE DEF R
<1>3. PICK x \in S : \A y \in S : ~(<<y, x>> \in R)
  BY <1>2
<1>4. \A y \in S : ~(y < x)
  BY <1>1, <1>3, Zenon
<1> QED BY <1>4

\* The smallest number of a set is in it.
LEMMA MinIn ==
    ASSUME NEW S, S \subseteq Nat, S # {}
    PROVE  Min(S) \in S /\ \A y \in S : Min(S) <= y
<1>1. \E x \in S : \A y \in S : x =< y
  BY Least
<1> QED BY <1>1 DEF Min

\* A set of numbers up to n that is not empty has a largest one.
LEMMA MaxIn ==
    ASSUME NEW n \in Nat, NEW S, S \subseteq 0..n, S # {}
    PROVE  Max(S) \in S /\ \A y \in S : Max(S) >= y
<1> DEFINE T == {n - x : x \in S}
<1>1. T \subseteq Nat /\ T # {}
  <2>1. PICK x \in S : TRUE
    OBVIOUS
  <2>2. n - x \in T
    BY <2>1
  <2>3. \A y \in 0..n : n - y \in Nat
    OBVIOUS
  <2> QED BY <2>2, <2>3
<1>2. PICK z \in T : \A y \in T : z <= y
  BY <1>1, Least
<1>3. PICK x \in S : z = n - x
  BY <1>2
<1>4. \A y \in S : x >= y
  <2> SUFFICES ASSUME NEW y \in S PROVE x >= y
    OBVIOUS
  <2>1. n - y \in T
    OBVIOUS
  <2>2. n - x <= n - y
    BY <1>2, <1>3, <2>1
  <2> HIDE DEF T
  <2> QED BY <2>2
<1> HIDE DEF T
<1> QED BY <1>4 DEF Max

\* Induction, as a statement about a set.
LEMMA Induct ==
    ASSUME NEW S, 0 \in S, \A i \in Nat : i \in S => i + 1 \in S
    PROVE  Nat \subseteq S
<1> SUFFICES ASSUME Nat \ S # {} PROVE FALSE
  OBVIOUS
<1>1. PICK x \in Nat \ S : \A y \in Nat \ S : x <= y
  BY Least
<1>2. x - 1 \in Nat /\ x - 1 \in S
  BY <1>1
<1> QED BY <1>1, <1>2

(***************************************************************************)
(* Paths                                                                   *)
(***************************************************************************)

\* No path is longer than the number of nodes.
Depth == Cardinality(Node)

\* The number of nodes is a number: there are finitely many.
LEMMA DepthNat == Depth \in Nat
BY FS_CardinalityType, TrieAssumption DEF Depth

\* One step down.
Below(key, pass, s) ==
    IF At(s).to \in Node /\ At(s).to \in pass THEN <<At(s).to, Direction(At(s).to, key)>> ELSE s

\* A function that follows the key from the root.
Follows(f, key, pass) ==
    f = [i \in 0..Depth |-> IF i = 0 THEN RootSlot ELSE Below(key, pass, f[i - 1])]

\* The same up to a length n, without saying how f is written.
FollowsUpto(f, n, key, pass) ==
    /\ f[0] = RootSlot
    /\ \A i \in 1..n : f[i] = Below(key, pass, f[i - 1])

\* There is such a function, of every length.
LEMMA SomePath ==
    ASSUME NEW key, NEW pass, NEW n \in Nat
    PROVE  \E f : f = [i \in 0..n |-> f[i]] /\ FollowsUpto(f, n, key, pass)
<1> DEFINE Good(m, f) == f = [i \in 0..m |-> f[i]] /\ FollowsUpto(f, m, key, pass)
           S == {m \in Nat : \E f : Good(m, f)}
<1>1. 0 \in S
  <2>1. PICK f : f = [i \in 0..0 |-> RootSlot]
    OBVIOUS
  <2>2. f[0] = RootSlot /\ f = [i \in 0..0 |-> f[i]]
    BY <2>1
  <2>3. Good(0, f)
    BY <2>2 DEF FollowsUpto
  <2> QED BY <2>3
<1>2. ASSUME NEW m \in Nat, m \in S PROVE m + 1 \in S
  <2>1. PICK f : Good(m, f)
    BY <1>2
  <2>2. PICK v : v = Below(key, pass, f[m])
    OBVIOUS
  <2>3. PICK g : g = [i \in 0..(m + 1) |-> IF i = m + 1 THEN v ELSE f[i]]
    OBVIOUS
  <2>4. /\ g[m + 1] = v /\ \A i \in 0..m : g[i] = f[i]
        /\ g = [i \in 0..(m + 1) |-> g[i]]
    BY <2>3
  <2>5. g[0] = RootSlot /\ \A i \in 1..(m + 1) : g[i] = Below(key, pass, g[i - 1])
    <3>1. g[0] = RootSlot
      BY <2>1, <2>4 DEF FollowsUpto
    <3>2. ASSUME NEW i \in 1..(m + 1) PROVE g[i] = Below(key, pass, g[i - 1])
      <4>0. i - 1 \in 0..m
        BY ONLY <3>2, m \in Nat
      <4>1. g[i - 1] = f[i - 1]
        BY <2>4, <4>0
      <4>2. CASE i = m + 1
        BY <2>2, <2>4, <4>1, <4>2
      <4>3. CASE i # m + 1
        <5>1. i \in 1..m /\ i \in 0..m
          BY ONLY <3>2, <4>3, m \in Nat
        <5>2. g[i] = f[i]
          BY <2>4, <5>1
        <5> QED BY <5>1, <5>2, <2>1, <4>1 DEF FollowsUpto
      <4> QED BY <4>2, <4>3
    <3> QED BY <3>1, <3>2
  <2>6. Good(m + 1, g)
    BY <2>4, <2>5 DEF FollowsUpto
  <2> QED BY <2>6
<1>3. n \in S
  <2> HIDE DEF S
  <2> QED BY <1>1, <1>2, Induct
<1> QED BY <1>3

\* Path is such a function.
LEMMA PathIs ==
    ASSUME NEW key, NEW pass
    PROVE  Follows(Path(key, pass), key, pass)
<1>1. PICK f : f = [i \in 0..Depth |-> f[i]] /\ FollowsUpto(f, Depth, key, pass)
  BY SomePath, DepthNat
<1>2. Follows(f, key, pass)
  <2>1. \A i \in 0..Depth : f[i] = IF i = 0 THEN RootSlot ELSE Below(key, pass, f[i - 1])
    <3> SUFFICES ASSUME NEW i \in 0..Depth
                 PROVE  f[i] = IF i = 0 THEN RootSlot ELSE Below(key, pass, f[i - 1])
      OBVIOUS
    <3>1. i # 0 => i \in 1..Depth
      BY DepthNat
    <3>2. i # 0 => f[i] = Below(key, pass, f[i - 1])
      BY <1>1, <3>1, Zenon DEF FollowsUpto
    <3>3. f[0] = RootSlot
      BY <1>1 DEF FollowsUpto
    <3> QED BY <3>2, <3>3
  <2> QED BY <1>1, <2>1 DEF Follows
<1> QED BY <1>2, Zenon DEF Follows, Path, Below, Depth, shl_trie_is_node

\* What Path gives at each step.
LEMMA PathFollows ==
    ASSUME NEW key, NEW pass
    PROVE  FollowsUpto(Path(key, pass), Depth, key, pass)
<1>1. PICK g : g = Path(key, pass) /\ Follows(g, key, pass)
  BY PathIs
<1>2. \A i \in 0..Depth : g[i] = IF i = 0 THEN RootSlot ELSE Below(key, pass, g[i - 1])
  BY <1>1 DEF Follows
<1>3. FollowsUpto(g, Depth, key, pass)
  BY <1>2, DepthNat DEF FollowsUpto
<1> QED BY <1>1, <1>3

(***************************************************************************)
(* The pointers                                                            *)
(***************************************************************************)

\* What a pointer in the trie can lead to.
Target == Node \cup Object \cup {None}

\* The slots of the trie head and of the nodes of a set.
Slots(nodes) == {RootSlot} \cup (nodes \X {0, 1})

\* The pointers c are those of nodes and a trie head.
Typed(c) ==
    /\ c \in [Node \cup {Trie} -> [{0} -> Pointer] \cup [0..1 -> Pointer]]
    /\ c[Trie] \in [{0} -> Pointer]
    /\ \A n \in Node : c[n] \in [0..1 -> Pointer]

\* The pointer in the slot s.
In(c, s) == c[s[1]][s[2]]

\* What each slot leads to, if no way back hides it, makes the nodes a forest:
\* no two slots hold the same node, and nodes have a larger rank than the
\* nodes above them.
Forest(kid, rank, nodes) ==
    /\ kid \in [Slots(Node) -> Target]
    /\ rank \in [Node -> Nat \ {0}]
    /\ \A n \in nodes, i \in {0, 1} : kid[<<n, i>>] \in Node \cup Object
    /\ \A s, t \in Slots(nodes) : kid[s] \in Node /\ kid[s] = kid[t] => s = t
    /\ \A n \in nodes, i \in {0, 1} :
           kid[<<n, i>>] \in Node => rank[n] < rank[kid[<<n, i>>]]

\* Nothing is hidden, and no node was freed that a slot holds.
Whole(kid, c, nodes) ==
    \A s \in Slots(nodes) : In(c, s) = To(kid[s]) /\ (kid[s] \in Node => kid[s] \in nodes)

(***************************************************************************)
(* Paths lead to slots of the trie                                         *)
(***************************************************************************)

\* The root slot is the only one of the trie head, which is no node.
LEMMA RootIs == RootSlot[1] = Trie /\ RootSlot[2] = 0 /\ Trie \notin Node
BY TrieAssumption DEF RootSlot

\* A key goes left or right.
LEMMA DirectionIs == \A n, key : Direction(n, key) \in {0, 1}
BY DEF Direction, DirectionOf

\* As long as nothing was freed, a path only meets slots of live nodes.
LEMMA PathInSlots ==
    ASSUME NEW kid, Whole(kid, childs, live), NEW key, NEW pass
    PROVE  \A i \in 0..Depth : Path(key, pass)[i] \in Slots(live)
<1>1. PICK p : p = Path(key, pass)
  OBVIOUS
<1>2. FollowsUpto(p, Depth, key, pass)
  BY <1>1, PathFollows
<1> DEFINE S == {i \in Nat : i <= Depth => p[i] \in Slots(live)}
<1>3. 0 \in S
  BY <1>2 DEF FollowsUpto, Slots
<1>4. ASSUME NEW i \in Nat, i \in S PROVE i + 1 \in S
  <2> SUFFICES ASSUME i + 1 <= Depth PROVE p[i + 1] \in Slots(live)
    OBVIOUS
  <2>1. p[i] \in Slots(live)
    BY <1>4, DepthNat
  <2>2. i + 1 \in 1..Depth /\ (i + 1) - 1 = i
    BY DepthNat
  <2>3. p[i + 1] = Below(key, pass, p[i])
    BY <1>2, <2>2 DEF FollowsUpto
  <2>4. At(p[i]).to \in Node => At(p[i]).to \in live
    <3>1. At(p[i]) = To(kid[p[i]]) /\ (kid[p[i]] \in Node => kid[p[i]] \in live)
      BY <2>1, Zenon DEF Whole, In, At
    <3>2. At(p[i]).to = kid[p[i]]
      BY <3>1 DEF To
    <3> QED BY <3>1, <3>2
  <2> QED BY <2>1, <2>3, <2>4, DirectionIs DEF Below, Slots
<1>5. \A i \in Nat : i \in S
  <2> HIDE DEF S
  <2> QED BY <1>3, <1>4, Induct
<1> QED BY <1>1, <1>5, DepthNat

\* shl_trie_remove(): a second path that stops before the node that the first
\* one ends in stops at the slot that holds this node.
LEMMA PathAbove ==
    ASSUME NEW kid, Whole(kid, childs, live), NEW key, live \subseteq Node,
           ClosestSlot(key) # RootSlot
    PROVE  LET n == ClosestSlot(key)[1]
               w == LastOf(Path(key, Node \ {n}))
           IN  n \in live /\ w \in Slots(live) /\ w[1] # n /\ At(w).to = n
<1>1. PICK p : p = Path(key, Node)
  OBVIOUS
<1>2. FollowsUpto(p, Depth, key, Node)
  BY <1>1, PathFollows
<1>3. \A i \in 0..Depth : p[i] \in Slots(live)
  BY <1>1, PathInSlots
<1>4. PICK n : n = p[Depth][1]
  OBVIOUS
<1>5. p[Depth] = ClosestSlot(key) /\ n = ClosestSlot(key)[1]
  BY <1>1, <1>4, Zenon DEF ClosestSlot, LastOf, Depth
<1>6. n \in live
  BY <1>3, <1>4, <1>5, DepthNat DEF Slots
<1>7. PICK q : q = Path(key, Node \ {n})
  OBVIOUS
<1>8. FollowsUpto(q, Depth, key, Node \ {n})
  BY <1>7, PathFollows
<1> DEFINE M == {i \in 0..Depth : p[i][1] = n}
<1>9. M \subseteq Nat /\ Depth \in M
  BY <1>4, DepthNat
<1>10. PICK m \in M : \A i \in M : m <= i
  BY <1>9, Least
<1>11. m \in 1..Depth /\ m - 1 \in 0..Depth /\ m - 1 \in Nat /\ m - 1 <= Depth
  <2>1. p[0][1] # n
    BY <1>2, <1>6, RootIs DEF FollowsUpto
  <2>2. m # 0 /\ m \in 0..Depth
    BY <2>1, <1>10
  <2> QED BY ONLY <2>2, DepthNat
<1>12. \A i \in 0..Depth : i < m => p[i][1] # n
  <2> SUFFICES ASSUME NEW i \in 0..Depth, i < m, p[i][1] = n PROVE FALSE
    OBVIOUS
  <2>1. i \in M
    OBVIOUS
  <2>2. m <= i
    BY <1>10, <2>1
  <2>3. m \in Nat /\ i \in Nat
    BY <1>11, DepthNat
  <2> QED BY ONLY <2>2, <2>3, i < m
<1>13. p[m][1] = n
  BY <1>10
<1> HIDE DEF M
<1>14. p[m] = Below(key, Node, p[m - 1]) /\ p[m - 1][1] # n
  <2>1. m - 1 < m
    BY <1>11
  <2> QED BY <1>2, <1>11, <1>12, <2>1 DEF FollowsUpto
<1>15. At(p[m - 1]).to = n /\ p[m - 1] \in Slots(live)
  BY <1>3, <1>11, <1>13, <1>14 DEF Below
<1> DEFINE S == {i \in Nat : i <= Depth => q[i] = IF i < m THEN p[i] ELSE p[m - 1]}
<1>16. 0 \in S
  BY <1>2, <1>8, <1>11 DEF FollowsUpto
<1>17. ASSUME NEW i \in Nat, i \in S PROVE i + 1 \in S
  <2> SUFFICES ASSUME i + 1 <= Depth
               PROVE  q[i + 1] = IF i + 1 < m THEN p[i + 1] ELSE p[m - 1]
    OBVIOUS
  <2>1. /\ i + 1 \in 1..Depth /\ i + 1 \in 0..Depth /\ (i + 1) - 1 = i /\ i <= Depth
        /\ m \in Nat
    BY DepthNat, <1>11
  <2>2. q[i + 1] = Below(key, Node \ {n}, q[i]) /\ p[i + 1] = Below(key, Node, p[i])
    BY <1>2, <1>8, <2>1 DEF FollowsUpto
  <2>3. q[i] = IF i < m THEN p[i] ELSE p[m - 1]
    BY <1>17, <2>1
  <2>4. CASE i + 1 < m
    <3>1. q[i] = p[i] /\ p[i + 1][1] # n
      BY <2>1, <2>3, <2>4, <1>12
    <3>2. Below(key, Node \ {n}, p[i]) = Below(key, Node, p[i])
      BY <3>1, <2>2 DEF Below
    <3> QED BY <2>2, <2>4, <3>1, <3>2
  <2>5. CASE ~(i + 1 < m)
    <3>1. q[i] = p[m - 1]
      <4>1. i < m => i = m - 1
        BY <2>1, <2>5
      <4> QED BY <4>1, <2>3
    <3>2. q[i + 1] = p[m - 1]
      BY <2>2, <3>1, <1>15 DEF Below
    <3> QED BY <2>5, <3>2
  <2> QED BY <2>4, <2>5
<1>18. \A i \in Nat : i \in S
  <2> HIDE DEF S
  <2> QED BY <1>16, <1>17, Induct
<1>19. q[Depth] = p[m - 1]
  <2>1. ~(Depth < m) \/ Depth = m
    BY <1>11, DepthNat
  <2>2. ~(Depth < m)
    BY <2>1, <1>11, DepthNat
  <2> QED BY <1>18, <2>2, DepthNat
<1>20. LastOf(Path(key, Node \ {n})) = p[m - 1]
  BY <1>7, <1>19, Zenon DEF LastOf, Depth
<1> QED BY <1>5, <1>6, <1>14, <1>15, <1>20

(***************************************************************************)
(* Writing to slots                                                        *)
(***************************************************************************)

\* What slots are.
LEMMA SlotShape ==
    ASSUME NEW c, Typed(c), NEW nodes \in SUBSET Node, NEW s \in Slots(nodes)
    PROVE  /\ s = <<s[1], s[2]>> /\ s[1] \in Node \cup {Trie}
           /\ (s[1] = Trie /\ s[2] = 0 /\ s = RootSlot) \/ (s[1] \in nodes /\ s[2] \in {0, 1})
           /\ s[2] \in DOMAIN c[s[1]] /\ In(c, s) \in Pointer
<1>1. CASE s = RootSlot
  BY <1>1, RootIs DEF Typed, Slots, In, RootSlot
<1>2. CASE s # RootSlot
  <2>1. s \in nodes \X {0, 1}
    BY <1>2 DEF Slots
  <2>2. s = <<s[1], s[2]>> /\ s[1] \in nodes /\ s[2] \in {0, 1}
    BY <2>1
  <2>3. c[s[1]] \in [0..1 -> Pointer] /\ s[2] \in 0..1
    BY <2>2 DEF Typed
  <2> QED BY <2>2, <2>3 DEF In
<1> QED BY <1>1, <1>2

\* d is c with the pointer ptr in the slot s.
SlotSet(c, d, s, ptr) ==
    \A t \in Slots(Node) : In(d, t) = IF t = s THEN ptr ELSE In(c, t)

\* d is c with the two pointers k in the node n.
NodeSet(c, d, n, k) ==
    \A t \in Slots(Node) : In(d, t) = IF t[1] = n THEN k[t[2]] ELSE In(c, t)

\* A pointer is stored into a slot.
LEMMA SetSlot ==
    ASSUME NEW c, Typed(c), NEW s \in Slots(Node), NEW ptr \in Pointer, NEW d,
           d = [c EXCEPT ![s[1]][s[2]] = ptr]
    PROVE  Typed(d) /\ SlotSet(c, d, s, ptr)
<1>1. /\ s = <<s[1], s[2]>> /\ s[1] \in Node \cup {Trie}
      /\ (s[1] = Trie /\ s[2] = 0) \/ (s[1] \in Node /\ s[2] \in {0, 1})
  BY SlotShape
<1>2. PICK x, i : x = s[1] /\ i = s[2] /\ s = <<x, i>>
  BY <1>1
<1>3. PICK f : f = [c[x] EXCEPT ![i] = ptr]
  OBVIOUS
<1>4. d = [c EXCEPT ![x] = f]
  BY <1>2, <1>3
<1>5. /\ d[x] = f /\ \A y \in Node \cup {Trie} : y # x => d[y] = c[y]
      /\ DOMAIN d = Node \cup {Trie} /\ d = [y \in Node \cup {Trie} |-> d[y]]
  BY <1>1, <1>2, <1>4 DEF Typed
<1>6. /\ x = Trie => f \in [{0} -> Pointer]
      /\ x \in Node => f \in [0..1 -> Pointer]
  BY <1>1, <1>2, <1>3 DEF Typed
<1>7. Typed(d)
  <2>1. d[Trie] \in [{0} -> Pointer]
    BY <1>5, <1>6 DEF Typed
  <2>2. \A n \in Node : d[n] \in [0..1 -> Pointer]
    BY <1>5, <1>6 DEF Typed
  <2>3. \A y \in Node \cup {Trie} : d[y] \in [{0} -> Pointer] \cup [0..1 -> Pointer]
    BY <2>1, <2>2
  <2>4. d \in [Node \cup {Trie} -> [{0} -> Pointer] \cup [0..1 -> Pointer]]
    BY <1>5, <2>3, Zenon
  <2> QED BY <2>1, <2>2, <2>4 DEF Typed
<1>8. ASSUME NEW t \in Slots(Node) PROVE In(d, t) = IF t = s THEN ptr ELSE In(c, t)
  <2>1. /\ t = <<t[1], t[2]>> /\ t[1] \in Node \cup {Trie}
        /\ t[2] \in DOMAIN c[t[1]]
    BY SlotShape
  <2>2. In(d, t) = d[t[1]][t[2]] /\ In(c, t) = c[t[1]][t[2]]
    BY DEF In
  <2>3. CASE t = s
    <3>1. i \in DOMAIN c[x]
      BY <2>1, <2>3, <1>2
    <3>2. f[i] = ptr
      BY <1>3, <3>1
    <3> QED BY <2>2, <2>3, <3>2, <1>2, <1>5
  <2>4. CASE t # s /\ t[1] = x
    <3>1. t[2] # i
      BY <2>1, <2>4, <1>2
    <3>2. f[t[2]] = c[x][t[2]]
      BY <1>3, <2>1, <2>4, <3>1
    <3> QED BY <2>2, <2>4, <3>2, <1>5
  <2>5. CASE t # s /\ t[1] # x
    BY <2>1, <2>2, <2>5, <1>5
  <2> QED BY <2>3, <2>4, <2>5
<1> QED BY <1>7, <1>8 DEF SlotSet

\* Both pointers of a node are stored.
LEMMA SetNode ==
    ASSUME NEW c, Typed(c), NEW n \in Node, NEW k \in [0..1 -> Pointer], NEW d,
           d = [c EXCEPT ![n] = k]
    PROVE  Typed(d) /\ NodeSet(c, d, n, k)
<1>1. /\ d[n] = k /\ \A y \in Node \cup {Trie} : y # n => d[y] = c[y]
      /\ DOMAIN d = Node \cup {Trie} /\ d = [y \in Node \cup {Trie} |-> d[y]]
  BY DEF Typed
<1>2. Typed(d)
  <2>1. d[Trie] \in [{0} -> Pointer]
    BY <1>1, RootIs DEF Typed
  <2>2. \A m \in Node : d[m] \in [0..1 -> Pointer]
    BY <1>1 DEF Typed
  <2>3. \A y \in Node \cup {Trie} : d[y] \in [{0} -> Pointer] \cup [0..1 -> Pointer]
    BY <2>1, <2>2
  <2>4. d \in [Node \cup {Trie} -> [{0} -> Pointer] \cup [0..1 -> Pointer]]
    BY <1>1, <2>3, Zenon
  <2> QED BY <2>1, <2>2, <2>4 DEF Typed
<1>3. ASSUME NEW t \in Slots(Node) PROVE In(d, t) = IF t[1] = n THEN k[t[2]] ELSE In(c, t)
  <2>1. t[1] \in Node \cup {Trie}
    BY SlotShape
  <2> QED BY <2>1, <1>1 DEF In
<1> QED BY <1>2, <1>3 DEF NodeSet

\* One pointer of a node is stored.
LEMMA SetChild ==
    ASSUME NEW c, Typed(c), NEW n \in Node, NEW i \in {0, 1}, NEW ptr \in Pointer
    PROVE  /\ Typed([c EXCEPT ![n][i] = ptr])
           /\ SlotSet(c, [c EXCEPT ![n][i] = ptr], <<n, i>>, ptr)
<1>1. PICK s : s = <<n, i>>
  OBVIOUS
<1>2. s \in Slots(Node) /\ s[1] = n /\ s[2] = i
  BY <1>1 DEF Slots
<1>3. PICK d : d = [c EXCEPT ![s[1]][s[2]] = ptr]
  OBVIOUS
<1>4. Typed(d) /\ SlotSet(c, d, s, ptr)
  BY <1>2, <1>3, SetSlot
<1>5. d = [c EXCEPT ![n][i] = ptr]
  BY <1>2, <1>3
<1> QED BY <1>1, <1>4, <1>5

(***************************************************************************)
(***************************************************************************)
(* Insertion and removal                                                   *)
(***************************************************************************)

\* A pointer without a mark tells what it leads to.
LEMMA ToIs == \A x, y : To(x).to = x /\ To(x).mark = FALSE /\ (To(x) = To(y) => x = y)
BY DEF To

\* Pointers without a mark are pointers.
LEMMA ToType == \A x \in Target : To(x) \in Pointer
BY DEF To, Target, Pointer

\* The root is the pointer in its slot.
LEMMA RootIn ==
    ASSUME NEW kid, Whole(kid, childs, live)
    PROVE  root = To(kid[RootSlot]) /\ (kid[RootSlot] \in Node => kid[RootSlot] \in live)
<1>1. RootSlot \in Slots(live) /\ In(childs, RootSlot) = root
  BY DEF Slots, In, root, At
<1> QED BY <1>1 DEF Whole

\* kid2 is kid with a new node in the slot w, above what was there and o.
Inserted(kid, kid2, nodes, w, new, dir, o) ==
    /\ kid2[w] = new /\ kid2[<<new, dir>>] = kid[w] /\ kid2[<<new, 1 - dir>>] = o
    /\ \A t \in Slots(nodes) : t # w => kid2[t] = kid[t]

\* The pointers d are those of such a forest.
InsertedForest(kid, d, nodes, w, new, dir, o) ==
    \E kid2, rank2 : /\ Inserted(kid, kid2, nodes, w, new, dir, o)
                     /\ Forest(kid2, rank2, nodes \cup {new}) /\ Whole(kid2, d, nodes \cup {new})

\* InsertBefore(): a new node takes the place of what was in the slot w.
LEMMA InsertForest ==
    ASSUME NEW nodes \in SUBSET Node, NEW c, NEW e, NEW d, Typed(c),
           NEW kid, NEW rank, Forest(kid, rank, nodes), Whole(kid, c, nodes),
           NEW w \in Slots(nodes), kid[w] # None,
           NEW new \in Node \ nodes, NEW o \in Object, NEW dir \in {0, 1},
           NEW k, k[dir] = In(c, w), k[1 - dir] = To(o),
           NodeSet(c, e, new, k), SlotSet(e, d, w, To(new))
    PROVE  InsertedForest(kid, d, nodes, w, new, dir, o)
<1>1. \A t \in Slots(nodes) : t \in Slots(Node) /\ In(c, t) = To(kid[t]) /\ kid[t] \in Target
  BY DEF Slots, Whole, Forest
<1>2. /\ o \in Target /\ o \notin Node /\ new \in Target /\ kid[w] \in nodes \cup Object
      /\ To(o) \in Pointer /\ To(new) \in Pointer /\ To(kid[w]) \in Pointer
  <2>1. o \in Target /\ o \notin Node /\ new \in Target /\ kid[w] \in Target
    BY <1>1, TrieAssumption DEF Target
  <2>2. kid[w] \in nodes \cup Object
    BY <2>1 DEF Whole, Target
  <2> QED BY <2>1, <2>2, ToType
<1>3. k[dir] = To(kid[w]) /\ k[1 - dir] = To(o)
  BY <1>1
<1>4. PICK a, b : a = <<new, dir>> /\ b = <<new, 1 - dir>>
  OBVIOUS
<1>5. \A t \in Slots(nodes) : t[1] # new /\ t # a /\ t # b
  <2> SUFFICES ASSUME NEW t \in Slots(nodes) PROVE t[1] # new /\ t # a /\ t # b
    OBVIOUS
  <2>1. t[1] = Trie \/ t[1] \in nodes
    BY SlotShape
  <2>2. t[1] # new
    BY <2>1, RootIs
  <2>3. a[1] = new /\ b[1] = new
    BY <1>4
  <2> QED BY <2>2, <2>3
<1>6. /\ a \in Slots(Node) /\ b \in Slots(Node) /\ a # b
      /\ a[1] = new /\ a[2] = dir /\ b[1] = new /\ b[2] = 1 - dir
      /\ \A t \in Slots(nodes \cup {new}) : t \in Slots(nodes) \/ t = a \/ t = b
  <2>1. a[1] = new /\ a[2] = dir /\ b[1] = new /\ b[2] = 1 - dir /\ a # b
    BY <1>4
  <2>2. a \in Slots(Node) /\ b \in Slots(Node)
    BY <1>4 DEF Slots
  <2>3. \A t \in Slots(nodes \cup {new}) : t \in Slots(nodes) \/ t = a \/ t = b
    BY <1>4 DEF Slots
  <2> QED BY <2>1, <2>2, <2>3
<1>7. PICK kid2 : kid2 = [t \in Slots(Node) |-> IF t = w THEN new ELSE IF t = a THEN kid[w]
                                                ELSE IF t = b THEN o ELSE kid[t]]
  OBVIOUS
<1>8. /\ kid2[w] = new /\ kid2[a] = kid[w] /\ kid2[b] = o
      /\ \A t \in Slots(nodes) : t # w => kid2[t] = kid[t]
      /\ kid2 \in [Slots(Node) -> Target]
  <2>1. kid \in [Slots(Node) -> Target]
    BY DEF Forest
  <2>2. w # a /\ w # b /\ w \in Slots(Node)
    BY <1>1, <1>5
  <2>3. kid2[w] = new /\ kid2[a] = kid[w] /\ kid2[b] = o
    BY <1>6, <1>7, <2>2
  <2>4. \A t \in Slots(nodes) : t # w => kid2[t] = kid[t]
    BY <1>1, <1>5, <1>7
  <2>5. kid2 \in [Slots(Node) -> Target]
    BY <1>1, <1>2, <1>7, <2>1
  <2> QED BY <2>3, <2>4, <2>5
<1>9. /\ In(d, w) = To(new) /\ In(d, a) = To(kid[w]) /\ In(d, b) = To(o)
      /\ \A t \in Slots(nodes) : t # w => In(d, t) = In(c, t)
  <2>1. w # a /\ w # b
    BY <1>5
  <2> QED BY <1>1, <1>3, <1>5, <1>6, <2>1 DEF SlotSet, NodeSet
<1>10. Whole(kid2, d, nodes \cup {new})
  <2> SUFFICES ASSUME NEW s \in Slots(nodes \cup {new})
               PROVE  In(d, s) = To(kid2[s]) /\ (kid2[s] \in Node => kid2[s] \in nodes \cup {new})
    BY DEF Whole
  <2>1. CASE s = w
    BY <2>1, <1>8, <1>9
  <2>2. CASE s = a
    BY <2>2, <1>2, <1>8, <1>9, TrieAssumption
  <2>3. CASE s = b
    BY <2>3, <1>2, <1>8, <1>9
  <2>4. CASE s \in Slots(nodes) /\ s # w
    BY <2>4, <1>8, <1>9 DEF Whole
  <2> QED BY <1>6, <2>1, <2>2, <2>3, <2>4
<1>11. PICK owner : owner = IF w = RootSlot THEN 0 ELSE rank[w[1]]
  OBVIOUS
<1>12. PICK rank2 : rank2 = [m \in Node |-> IF m = new THEN 2 * owner + 1 ELSE 2 * rank[m]]
  OBVIOUS
<1>13. /\ owner \in Nat /\ rank2[new] = 2 * owner + 1
       /\ \A m \in nodes : rank[m] \in Nat \ {0} /\ rank2[m] = 2 * rank[m]
       /\ rank2 \in [Node -> Nat \ {0}]
  <2>1. rank \in [Node -> Nat \ {0}]
    BY DEF Forest
  <2>2. w # RootSlot => w[1] \in nodes
    BY SlotShape
  <2>3. owner \in Nat
    BY <1>11, <2>1, <2>2
  <2> QED BY <1>12, <2>1, <2>3
<1>14. kid[w] \in Node => kid[w] \in nodes /\ owner < rank[kid[w]]
  <2> SUFFICES ASSUME kid[w] \in Node PROVE kid[w] \in nodes /\ owner < rank[kid[w]]
    OBVIOUS
  <2>1. kid[w] \in nodes
    BY DEF Whole
  <2>2. CASE w = RootSlot
    BY <2>1, <2>2, <1>11, <1>13
  <2>3. CASE w # RootSlot
    <3>1. w = <<w[1], w[2]>> /\ w[1] \in nodes /\ w[2] \in {0, 1}
      BY <2>3, SlotShape
    <3>2. PICK n \in nodes, i \in {0, 1} : w = <<n, i>> /\ n = w[1]
      BY <3>1
    <3>3. rank[n] < rank[kid[w]]
      BY <3>2 DEF Forest
    <3> QED BY <2>1, <2>3, <3>2, <3>3, <1>11
  <2> QED BY <2>2, <2>3
<1>15. ASSUME NEW n \in nodes \cup {new}, NEW i \in {0, 1}
       PROVE  /\ kid2[<<n, i>>] \in Node \cup Object
              /\ kid2[<<n, i>>] \in Node => rank2[n] < rank2[kid2[<<n, i>>]]
  <2>1. PICK s : s = <<n, i>>
    OBVIOUS
  <2>2. s \in Slots(nodes \cup {new}) /\ s[1] = n /\ s # RootSlot
    BY <2>1, RootIs DEF Slots
  <2>3. CASE s = w
    <3>1. n \in nodes /\ owner = rank[n]
      BY <2>2, <2>3, <1>5, <1>11
    <3>2. kid2[s] = new /\ rank2[n] = 2 * rank[n] /\ rank2[new] = 2 * rank[n] + 1 /\ rank[n] \in Nat
      BY <2>3, <3>1, <1>8, <1>13
    <3> QED BY <2>1, <3>2
  <2>4. CASE s = a
    <3>1. kid2[s] = kid[w] /\ n = new
      BY <2>2, <2>4, <1>6, <1>8
    <3>2. kid[w] \in Node => rank2[new] < rank2[kid[w]]
      <4> SUFFICES ASSUME kid[w] \in Node PROVE rank2[new] < rank2[kid[w]]
        OBVIOUS
      <4>1. PICK x \in nodes : x = kid[w] /\ owner < rank[x]
        BY <1>14
      <4>2. rank2[x] = 2 * rank[x] /\ rank[x] \in Nat /\ owner \in Nat /\ rank2[new] = 2 * owner + 1
        BY <4>1, <1>13
      <4>3. 2 * owner + 1 < 2 * rank[x]
        BY <4>1, <4>2
      <4> QED BY <4>1, <4>2, <4>3
    <3> QED BY <2>1, <3>1, <3>2, <1>2
  <2>5. CASE s = b
    BY <2>1, <2>5, <1>2, <1>8
  <2>6. CASE s \in Slots(nodes) /\ s # w
    <3>1. n \in nodes /\ kid2[s] = kid[s]
      BY <2>2, <2>6, <1>5, <1>8
    <3>2. kid[s] \in Node \cup Object /\ (kid[s] \in Node => rank[n] < rank[kid[s]])
      BY <2>1, <3>1 DEF Forest
    <3>3. kid[s] \in Node => kid[s] \in nodes
      BY <2>6 DEF Whole
    <3>4. kid[s] \in Node => rank2[n] < rank2[kid[s]]
      <4> SUFFICES ASSUME kid[s] \in Node PROVE rank2[n] < rank2[kid[s]]
        OBVIOUS
      <4>1. PICK x \in nodes : x = kid[s] /\ rank[n] < rank[x]
        BY <3>2, <3>3
      <4>2. rank2[x] = 2 * rank[x] /\ rank2[n] = 2 * rank[n] /\ rank[x] \in Nat /\ rank[n] \in Nat
        BY <3>1, <1>13
      <4>3. 2 * rank[n] < 2 * rank[x]
        BY <4>1, <4>2
      <4> QED BY <4>1, <4>2, <4>3
    <3> QED BY <2>1, <3>1, <3>2, <3>4
  <2> QED BY <2>2, <2>3, <2>4, <2>5, <2>6, <1>6
<1>16. ASSUME NEW s \in Slots(nodes \cup {new}), NEW t \in Slots(nodes \cup {new}),
              kid2[s] \in Node, kid2[s] = kid2[t]
       PROVE  s = t
  <2>1. \A x \in Slots(nodes) : kid[x] # new
    BY DEF Whole
  <2>2. \A x, y \in Slots(nodes) : kid[x] \in Node /\ kid[x] = kid[y] => x = y
    BY DEF Forest
  <2>3. (s = w \/ s = a \/ s = b \/ (s \in Slots(nodes) /\ s # w)) /\
        (t = w \/ t = a \/ t = b \/ (t \in Slots(nodes) /\ t # w))
    BY <1>6
  <2> QED BY <1>2, <1>8, <1>16, <2>1, <2>2, <2>3
<1>17. Forest(kid2, rank2, nodes \cup {new})
  <2>1. kid2 \in [Slots(Node) -> Target] /\ rank2 \in [Node -> Nat \ {0}]
    BY <1>8, <1>13
  <2>2. \A n \in nodes \cup {new}, i \in {0, 1} : kid2[<<n, i>>] \in Node \cup Object
    BY <1>15
  <2>3. \A n \in nodes \cup {new}, i \in {0, 1} :
            kid2[<<n, i>>] \in Node => rank2[n] < rank2[kid2[<<n, i>>]]
    BY <1>15
  <2>4. \A s, t \in Slots(nodes \cup {new}) : kid2[s] \in Node /\ kid2[s] = kid2[t] => s = t
    BY <1>16
  <2> QED BY ONLY <2>1, <2>2, <2>3, <2>4 DEF Forest
<1>18. Inserted(kid, kid2, nodes, w, new, dir, o)
  BY <1>4, <1>8 DEF Inserted
<1> QED BY <1>10, <1>17, <1>18 DEF InsertedForest

\* A node that was freed still has two pointers in the model.
LEMMA UnusedType == Unused \in [0..1 -> Pointer]
<1>1. Null \in Pointer
  BY DEF Null, To, Pointer
<1> QED BY <1>1 DEF Unused

\* kid2 is kid with what is in the slot v moved to the slot w.
Removed(kid, kid2, nodes, w, v) ==
    /\ kid2[w] = kid[v]
    /\ \A t \in Slots(nodes) : t # w => kid2[t] = kid[t]

\* The pointers d are those of such a forest without the node n.
RemovedForest(kid, d, nodes, w, v, n) ==
    \E kid2, rank2 : /\ Removed(kid, kid2, nodes, w, v)
                     /\ Forest(kid2, rank2, nodes \ {n}) /\ Whole(kid2, d, nodes \ {n})

\* shl_trie_remove(): one child of the node n takes its place in the slot w.
LEMMA RemoveForest ==
    ASSUME NEW nodes \in SUBSET Node, NEW c, NEW d, Typed(c),
           NEW kid, NEW rank, Forest(kid, rank, nodes), Whole(kid, c, nodes),
           NEW n \in nodes, NEW i \in {0, 1}, NEW w \in Slots(nodes), w[1] # n, kid[w] = n,
           d = [c EXCEPT ![w[1]][w[2]] = c[n][i], ![n] = Unused]
    PROVE  Typed(d) /\ RemovedForest(kid, d, nodes, w, <<n, i>>, n)
<1>1. PICK v : v = <<n, i>>
  OBVIOUS
<1>2. v \in Slots(nodes) /\ v[1] = n /\ v[2] = i /\ v # w
  BY <1>1 DEF Slots
<1>3. In(c, v) = To(kid[v]) /\ kid[v] \in nodes \cup Object /\ kid[v] \in Target
  BY <1>1, <1>2 DEF Whole, Forest, Target
<1>4. kid[v] \in Node => rank[n] < rank[kid[v]]
  BY <1>1 DEF Forest
<1>5. /\ rank \in [Node -> Nat \ {0}] /\ kid \in [Slots(Node) -> Target] /\ kid[v] # n
      /\ \A t \in Slots(nodes) : t \in Slots(Node)
  <2>1. rank \in [Node -> Nat \ {0}] /\ kid \in [Slots(Node) -> Target]
    BY DEF Forest
  <2>2. kid[v] # n
    BY <1>4, <2>1
  <2> QED BY <2>1, <2>2 DEF Slots
<1>6. PICK e : e = [c EXCEPT ![w[1]][w[2]] = To(kid[v])]
  OBVIOUS
<1>7. d = [e EXCEPT ![n] = Unused]
  <2>1. c[n][i] = To(kid[v])
    BY <1>2, <1>3 DEF In
  <2> QED BY <1>6, <2>1
<1>8. Typed(e) /\ SlotSet(c, e, w, To(kid[v]))
  <2>1. To(kid[v]) \in Pointer /\ w \in Slots(Node)
    BY <1>3, <1>5, ToType
  <2> QED BY <1>6, <2>1, SetSlot
<1>9. Typed(d) /\ NodeSet(e, d, n, Unused)
  BY <1>7, <1>8, SetNode, UnusedType
<1>10. PICK kid2 : kid2 = [kid EXCEPT ![w] = kid[v]]
  OBVIOUS
<1>11. /\ kid2 \in [Slots(Node) -> Target] /\ kid2[w] = kid[v]
       /\ \A t \in Slots(nodes) : t # w => kid2[t] = kid[t]
  BY <1>3, <1>5, <1>10
<1>12. \A t \in Slots(nodes \ {n}) : t \in Slots(nodes) /\ t[1] # n /\ t # v
  <2> SUFFICES ASSUME NEW t \in Slots(nodes \ {n}) PROVE t \in Slots(nodes) /\ t[1] # n
    BY <1>2
  <2>1. nodes \ {n} \in SUBSET Node
    OBVIOUS
  <2>2. t[1] = Trie \/ t[1] \in nodes \ {n}
    BY <2>1, SlotShape
  <2> QED BY <2>2, RootIs DEF Slots
<1>13. \A t \in Slots(nodes \ {n}) : In(d, t) = IF t = w THEN To(kid[v]) ELSE In(c, t)
  BY <1>5, <1>8, <1>9, <1>12 DEF SlotSet, NodeSet
<1>14. \A s, t \in Slots(nodes) : kid[s] \in Node /\ kid[s] = kid[t] => s = t
  BY DEF Forest
<1>15. Whole(kid2, d, nodes \ {n})
  <2> SUFFICES ASSUME NEW t \in Slots(nodes \ {n})
               PROVE  In(d, t) = To(kid2[t]) /\ (kid2[t] \in Node => kid2[t] \in nodes \ {n})
    BY DEF Whole
  <2>1. CASE t = w
    BY <2>1, <1>3, <1>5, <1>11, <1>13, TrieAssumption
  <2>2. CASE t # w
    <3>1. kid2[t] = kid[t] /\ In(d, t) = In(c, t) /\ t \in Slots(nodes)
      BY <2>2, <1>11, <1>12, <1>13
    <3>2. kid[t] # n
      BY <2>2, <3>1, <1>14
    <3> QED BY <3>1, <3>2 DEF Whole
  <2> QED BY <2>1, <2>2
<1>16. ASSUME NEW m \in nodes \ {n}, NEW j \in {0, 1}
       PROVE  /\ kid2[<<m, j>>] \in Node \cup Object
              /\ kid2[<<m, j>>] \in Node => rank[m] < rank[kid2[<<m, j>>]]
  <2>1. PICK s : s = <<m, j>>
    OBVIOUS
  <2>2. s \in Slots(nodes)
    BY <2>1 DEF Slots
  <2>3. kid[s] \in Node \cup Object /\ (kid[s] \in Node => rank[m] < rank[kid[s]])
    BY <2>1 DEF Forest
  <2>4. CASE s = w
    <3>1. rank[m] < rank[n] /\ kid2[s] = kid[v]
      BY <2>3, <2>4, <1>11
    <3>2. rank[m] \in Nat /\ rank[n] \in Nat /\ (kid[v] \in Node => rank[kid[v]] \in Nat)
      BY <1>5
    <3>3. kid[v] \in Node => rank[m] < rank[kid[v]]
      BY <3>1, <3>2, <1>4
    <3> QED BY <2>1, <3>1, <3>3, <1>3
  <2>5. CASE s # w
    <3>1. kid2[s] = kid[s]
      BY <2>2, <2>5, <1>11
    <3> QED BY <2>1, <2>3, <3>1
  <2> QED BY <2>4, <2>5
<1>17. ASSUME NEW s \in Slots(nodes \ {n}), NEW t \in Slots(nodes \ {n}),
              kid2[s] \in Node, kid2[s] = kid2[t]
       PROVE  s = t
  BY <1>2, <1>11, <1>12, <1>14, <1>17
<1>18. Forest(kid2, rank, nodes \ {n})
  BY <1>5, <1>11, <1>16, <1>17 DEF Forest
<1>19. Removed(kid, kid2, nodes, w, <<n, i>>)
  BY <1>1, <1>11 DEF Removed
<1> QED BY <1>9, <1>15, <1>18, <1>19 DEF RemovedForest

(***************************************************************************)
(* Bits and keys                                                           *)
(***************************************************************************)

\* A number of a set that is at least as large as the others is the largest.
LEMMA MaxOf ==
    ASSUME NEW n \in Nat, NEW S, S \subseteq 0..n, NEW x \in S, \A y \in S : x >= y
    PROVE  Max(S) = x
<1>1. Max(S) \in S /\ Max(S) >= x
  BY MaxIn
<1>2. x >= Max(S) /\ x \in 0..n /\ Max(S) \in 0..n
  BY <1>1, Zenon
<1> QED BY ONLY <1>1, <1>2

\* The bits of a byte are numbers.
LEMMA BitsAre == Width - 1 \in Nat /\ Bits = 0..(Width - 1)
BY TrieAssumption DEF Bits

\* The bytes of a key that are not zero, and the zeros behind them.
LEMMA ByteIs ==
    ASSUME NEW key \in Key
    PROVE  /\ key \in Seq((SUBSET Bits) \ {{}}) /\ Len(key) \in Nat
           /\ \A i \in Nat : /\ ByteAt(key, i) \in SUBSET Bits
                             /\ ByteAt(key, i) = {} <=> i >= Len(key)
                             /\ i < Len(key) => ByteAt(key, i) = key[i + 1]
<1>1. key \in Seq((SUBSET Bits) \ {{}}) /\ Len(key) \in Nat
  BY TrieAssumption
<1>2. ASSUME NEW i \in Nat
      PROVE  /\ ByteAt(key, i) \in SUBSET Bits
             /\ ByteAt(key, i) = {} <=> i >= Len(key)
             /\ i < Len(key) => ByteAt(key, i) = key[i + 1]
  <2>1. CASE i < Len(key)
    <3>1. i + 1 \in 1..Len(key)
      BY <1>1, <2>1
    <3>2. key[i + 1] \in (SUBSET Bits) \ {{}}
      BY <1>1, <3>1
    <3> QED BY <1>1, <2>1, <3>2 DEF ByteAt
  <2>2. CASE ~(i < Len(key))
    BY <1>1, <2>2 DEF ByteAt
  <2> QED BY <2>1, <2>2
<1> QED BY <1>1, <1>2

\* Keys that differ in no byte of the first one are the same.
LEMMA SameKey ==
    ASSUME NEW key \in Key, NEW other \in Key, Differences(key, other) = {}
    PROVE  key = other
<1>1. \A i \in 0..Len(key) : ByteAt(key, i) = ByteAt(other, i)
  BY DEF Differences
<1>2. /\ key \in Seq((SUBSET Bits) \ {{}}) /\ Len(key) \in Nat
      /\ other \in Seq((SUBSET Bits) \ {{}}) /\ Len(other) \in Nat
  BY ByteIs
<1>3. Len(other) <= Len(key)
  <2>1. ByteAt(key, Len(key)) = {}
    BY <1>2, ByteIs
  <2>2. ByteAt(other, Len(key)) = {}
    BY <1>1, <1>2, <2>1
  <2> QED BY <1>2, <2>2, ByteIs
<1>4. ASSUME NEW i \in 1..Len(key) PROVE i <= Len(other) /\ key[i] = other[i]
  <2>1. i - 1 \in Nat /\ i - 1 \in 0..Len(key) /\ (i - 1) + 1 = i /\ i - 1 < Len(key)
    BY <1>2
  <2>2. ByteAt(key, i - 1) = ByteAt(other, i - 1)
    BY <1>1, <2>1
  <2>3. ByteAt(key, i - 1) # {} /\ ByteAt(key, i - 1) = key[i]
    <3>1. PICK j \in Nat : j = i - 1 /\ j + 1 = i /\ j < Len(key)
      BY <2>1
    <3>2. ByteAt(key, j) # {} /\ ByteAt(key, j) = key[j + 1]
      BY <1>2, <3>1, ByteIs
    <3> QED BY <3>1, <3>2
  <2>4. i - 1 < Len(other)
    BY <1>2, <2>1, <2>2, <2>3, ByteIs
  <2>5. ByteAt(other, i - 1) = other[i]
    <3>1. PICK j \in Nat : j = i - 1 /\ j + 1 = i /\ j < Len(other)
      BY <2>1, <2>4
    <3>2. ByteAt(other, j) = other[j + 1]
      BY <1>2, <3>1, ByteIs
    <3> QED BY <3>1, <3>2
  <2> QED BY <1>2, <2>1, <2>2, <2>3, <2>4, <2>5
<1>5. Len(other) = Len(key)
  <2>1. Len(key) # 0 => Len(key) <= Len(other)
    BY <1>2, <1>4
  <2> QED BY <1>2, <1>3, <2>1
<1> QED BY <1>2, <1>4, <1>5

\* k and l are the same up to bit c of byte j, which is not compared; the bits
\* of a byte come from the most significant one.
Agree(k, l, j, c) ==
    /\ \A i \in Nat : i < j => ByteAt(k, i) = ByteAt(l, i)
    /\ \A b \in Bits : b > c => (b \in ByteAt(k, j) <=> b \in ByteAt(l, j))

\* Bit c of byte j comes before bit d of byte i.
Earlier(j, c, i, d) == j < i \/ (j = i /\ c > d)

\* Agreement is an equivalence.
LEMMA AgreeSym ==
    \A k, l, j, c : Agree(k, l, j, c) => Agree(l, k, j, c)
BY DEF Agree

\* Two keys that agree with a third one agree.
LEMMA AgreeTrans ==
    \A k, l, m, j, c : Agree(k, l, j, c) /\ Agree(l, m, j, c) => Agree(k, m, j, c)
BY DEF Agree

\* Keys that are the same up to a bit are the same up to an earlier one, and
\* in it.
LEMMA AgreeEarlier ==
    ASSUME NEW k, NEW l, NEW i \in Nat, NEW d \in Bits, Agree(k, l, i, d),
           NEW j \in Nat, NEW c \in Bits, Earlier(j, c, i, d)
    PROVE  Agree(k, l, j, c) /\ (c \in ByteAt(k, j) <=> c \in ByteAt(l, j))
<1>1. \A a \in Nat : a < i => ByteAt(k, a) = ByteAt(l, a)
  BY DEF Agree
<1>2. \A b \in Bits : b > d => (b \in ByteAt(k, i) <=> b \in ByteAt(l, i))
  BY DEF Agree
<1>3. \A b \in Bits : b \in Nat
  BY BitsAre
<1>4. \A a \in Nat : a < j => a < i
  BY DEF Earlier
<1>5. CASE j < i
  <2>1. ByteAt(k, j) = ByteAt(l, j)
    BY <1>1, <1>5
  <2> QED BY <1>1, <1>4, <2>1 DEF Agree
<1>6. CASE j = i /\ c > d
  <2>1. \A b \in Bits : b > c => b > d
    BY <1>3, <1>6
  <2> QED BY <1>1, <1>2, <1>4, <1>6, <2>1 DEF Agree
<1> QED BY <1>5, <1>6 DEF Earlier

\* The bits in which bytes differ.
LEMMA DifferingIs ==
    ASSUME NEW a \in SUBSET Bits, NEW b \in SUBSET Bits, a # b, NEW c, c = Max(Differing(a, b))
    PROVE  /\ c \in Bits /\ ~(c \in a <=> c \in b)
           /\ \A x \in Bits : x > c => (x \in a <=> x \in b)
<1>1. Differing(a, b) \subseteq 0..(Width - 1) /\ Differing(a, b) # {} /\ Width - 1 \in Nat
  BY BitsAre DEF Differing
<1>3. c \in Differing(a, b) /\ \A y \in Differing(a, b) : c >= y
  BY <1>1, MaxIn
<1>4. c \in Bits /\ ~(c \in a <=> c \in b)
  BY <1>3, Zenon DEF Differing
<1>5. ASSUME NEW x \in Bits, x > c PROVE x \in a <=> x \in b
  <2>1. x \in Nat /\ c \in Nat
    BY <1>4, BitsAre
  <2>2. x \notin Differing(a, b)
    BY <1>3, <1>5, <2>1
  <2> QED BY <2>2, Zenon DEF Differing
<1> QED BY <1>4, <1>5

\* A bit in which bytes differ, and above which they do not.
LEMMA DifferingMax ==
    ASSUME NEW a \in SUBSET Bits, NEW b \in SUBSET Bits, NEW c \in Bits,
           ~(c \in a <=> c \in b), \A x \in Bits : x > c => (x \in a <=> x \in b)
    PROVE  Max(Differing(a, b)) = c
<1>1. Differing(a, b) \subseteq 0..(Width - 1) /\ Width - 1 \in Nat
  BY BitsAre DEF Differing
<1>2. c \in Differing(a, b)
  BY Zenon DEF Differing
<1>3. ASSUME NEW y \in Differing(a, b) PROVE c >= y
  <2>1. y \in Bits /\ ~(y \in a <=> y \in b)
    BY Zenon DEF Differing
  <2>2. y \in Nat /\ c \in Nat
    BY <2>1, BitsAre
  <2> QED BY <2>1, <2>2
<1> QED BY <1>1, <1>2, <1>3, MaxOf

\* The comparison of the otherbits of two nodes: the larger of them, as a
\* number, lacks the lower bit.
LEMMA LessOne ==
    ASSUME NEW c \in Bits, NEW d \in Bits
    PROVE  Less(Bits \ {c}, Bits \ {d}) <=> d < c
<1>1. c \in Nat /\ d \in Nat
  BY BitsAre
<1>2. CASE c = d
  BY <1>1, <1>2 DEF Less
<1>3. CASE d < c
  <2>1. \A x \in Bits : x > c => (x \in Bits \ {c} <=> x \in Bits \ {d})
    <3>1. \A x \in Bits : x \in Nat
      BY BitsAre
    <3> QED BY <1>1, <1>3, <3>1
  <2>2. Max(Differing(Bits \ {c}, Bits \ {d})) = c
    BY <1>1, <1>3, <2>1, DifferingMax
  <2> QED BY <1>1, <1>3, <2>2 DEF Less
<1>4. CASE c < d
  <2>1. \A x \in Bits : x > d => (x \in Bits \ {c} <=> x \in Bits \ {d})
    <3>1. \A x \in Bits : x \in Nat
      BY BitsAre
    <3> QED BY <1>1, <1>4, <3>1
  <2>2. Max(Differing(Bits \ {c}, Bits \ {d})) = d
    BY <1>1, <1>4, <2>1, DifferingMax
  <2> QED BY <1>1, <1>4, <2>2 DEF Less
<1> QED BY <1>1, <1>2, <1>3, <1>4

\* A node looks at the one bit that is not in its otherbits.
LEMMA DirectionBit ==
    ASSUME NEW c \in Bits, NEW b \in SUBSET Bits
    PROVE  DirectionOf(Bits \ {c}, b) = IF c \in b THEN 1 ELSE 0
<1>1. (Bits \ {c}) \cup b = Bits <=> c \in b
  OBVIOUS
<1> QED BY <1>1 DEF DirectionOf

\* Where a new key leaves the path of an old one.
LEMMA FirstDifference ==
    ASSUME NEW key \in Key, NEW other \in Key, Differences(key, other) # {}
    PROVE  LET j == Min(Differences(key, other))
               c == Max(Differing(ByteAt(key, j), ByteAt(other, j)))
           IN  /\ j \in Nat /\ c \in Bits /\ Agree(key, other, j, c)
               /\ ~(c \in ByteAt(key, j) <=> c \in ByteAt(other, j))
<1>1. PICK diff : diff = Differences(key, other)
  OBVIOUS
<1>2. Len(key) \in Nat /\ diff \subseteq Nat /\ diff # {}
  BY <1>1, ByteIs DEF Differences
<1>3. PICK j : j = Min(diff)
  OBVIOUS
<1>4. j \in diff /\ \A y \in diff : j <= y
  BY <1>2, <1>3, MinIn
<1>5. j \in 0..Len(key) /\ j \in Nat /\ ByteAt(key, j) # ByteAt(other, j)
  BY <1>1, <1>2, <1>4 DEF Differences
<1>6. ASSUME NEW i \in Nat, i < j PROVE ByteAt(key, i) = ByteAt(other, i)
  <2>1. i \notin diff /\ i \in 0..Len(key)
    BY <1>2, <1>4, <1>5, <1>6
  <2> QED BY <1>1, <2>1 DEF Differences
<1>7. PICK c : c = Max(Differing(ByteAt(key, j), ByteAt(other, j)))
  OBVIOUS
<1>8. /\ c \in Bits /\ ~(c \in ByteAt(key, j) <=> c \in ByteAt(other, j))
      /\ \A x \in Bits : x > c => (x \in ByteAt(key, j) <=> x \in ByteAt(other, j))
  <2>1. ByteAt(key, j) \in SUBSET Bits /\ ByteAt(other, j) \in SUBSET Bits
    BY <1>5, ByteIs
  <2>2. PICK a \in SUBSET Bits, b \in SUBSET Bits : a = ByteAt(key, j) /\ b = ByteAt(other, j)
    BY <2>1
  <2>3. a # b /\ c = Max(Differing(a, b))
    BY <1>5, <1>7, <2>2
  <2>4. /\ c \in Bits /\ ~(c \in a <=> c \in b)
        /\ \A x \in Bits : x > c => (x \in a <=> x \in b)
    BY <2>3, DifferingIs
  <2> QED BY <2>2, <2>4
<1>9. Agree(key, other, j, c)
  BY <1>6, <1>8 DEF Agree
<1> QED BY <1>1, <1>3, <1>5, <1>7, <1>8, <1>9

\* The order of keys is decided by the first bit in which they differ.
LEMMA SmallerAt ==
    ASSUME NEW k \in Key, NEW l \in Key, NEW j \in Nat, NEW c \in Bits, Agree(k, l, j, c),
           c \notin ByteAt(k, j), c \in ByteAt(l, j)
    PROVE  Smaller(k, l)
<1>1. ByteAt(k, j) \in SUBSET Bits /\ ByteAt(l, j) \in SUBSET Bits /\ Len(l) \in Nat
  BY ByteIs
<1>2. j \in 0..Len(l)
  BY <1>1, ByteIs
<1>3. Max(Differing(ByteAt(k, j), ByteAt(l, j))) = c
  <2>1. \A x \in Bits : x > c => (x \in ByteAt(k, j) <=> x \in ByteAt(l, j))
    BY DEF Agree
  <2> QED BY <1>1, <2>1, DifferingMax
<1>4. Less(ByteAt(k, j), ByteAt(l, j))
  BY <1>3 DEF Less
<1>5. \A i \in 0..(j - 1) : ByteAt(k, i) = ByteAt(l, i)
  BY DEF Agree
<1> QED BY <1>2, <1>4, <1>5 DEF Smaller

\* The key has the bytes of the prefix.
Matches(prefix, key) == \A i \in 0..(Len(prefix) - 1) : ByteAt(key, i) = ByteAt(prefix, i)

\* This is what it means to start with the prefix.
LEMMA PrefixBytes ==
    ASSUME NEW prefix \in Key, NEW key \in Key
    PROVE  IsPrefix(prefix, key) <=> Matches(prefix, key)
<1>1. /\ prefix \in Seq((SUBSET Bits) \ {{}}) /\ Len(prefix) \in Nat
      /\ key \in Seq((SUBSET Bits) \ {{}}) /\ Len(key) \in Nat
  BY ByteIs
<1>2. PICK n \in Nat : n = Len(prefix)
  BY <1>1
<1>3. ASSUME n <= Len(key) PROVE IsPrefix(prefix, key) <=> \A i \in 1..n : prefix[i] = key[i]
  <2>1. SubSeq(prefix, 1, n) = [i \in 1..n |-> prefix[i]] /\ SubSeq(key, 1, n) = [i \in 1..n |-> key[i]]
    BY <1>1, <1>2, <1>3
  <2> QED BY <1>2, <1>3, <2>1 DEF IsPrefix
<1>4. ASSUME NEW i \in 0..(n - 1)
      PROVE  /\ i \in Nat /\ i < n /\ i + 1 \in 1..n
             /\ ByteAt(prefix, i) = prefix[i + 1] /\ ByteAt(prefix, i) # {}
  <2>1. i \in Nat /\ i < n /\ i + 1 \in 1..n
    BY <1>4
  <2> QED BY <1>2, <2>1, ByteIs
<1>5. ASSUME IsPrefix(prefix, key) PROVE Matches(prefix, key)
  <2>1. n <= Len(key) /\ \A i \in 1..n : prefix[i] = key[i]
    BY <1>2, <1>3, <1>5 DEF IsPrefix
  <2>2. ASSUME NEW i \in 0..(n - 1) PROVE ByteAt(key, i) = ByteAt(prefix, i)
    <3>1. i \in Nat /\ i < Len(key)
      BY <1>1, <1>4, <2>1
    <3>2. ByteAt(key, i) = key[i + 1]
      BY <3>1, ByteIs
    <3> QED BY <1>4, <2>1, <3>2
  <2> QED BY <1>2, <2>2 DEF Matches
<1>6. ASSUME Matches(prefix, key) PROVE IsPrefix(prefix, key)
  <2>1. ASSUME NEW i \in 0..(n - 1) PROVE i < Len(key) /\ key[i + 1] = prefix[i + 1]
    <3>1. ByteAt(key, i) = ByteAt(prefix, i)
      BY <1>2, <1>6 DEF Matches
    <3>2. i \in Nat /\ ByteAt(key, i) # {} /\ ByteAt(key, i) = prefix[i + 1]
      BY <1>4, <3>1
    <3>3. i < Len(key)
      BY <1>1, <3>2, ByteIs
    <3>4. ByteAt(key, i) = key[i + 1]
      BY <3>2, <3>3, ByteIs
    <3> QED BY <3>2, <3>3, <3>4
  <2>2. n <= Len(key)
    <3>1. n # 0 => n - 1 \in 0..(n - 1)
      OBVIOUS
    <3>2. n # 0 => n - 1 < Len(key)
      BY <2>1, <3>1
    <3> QED BY <1>1, <3>2
  <2>3. ASSUME NEW i \in 1..n PROVE prefix[i] = key[i]
    <3>1. i - 1 \in 0..(n - 1) /\ (i - 1) + 1 = i
      OBVIOUS
    <3>2. key[(i - 1) + 1] = prefix[(i - 1) + 1]
      BY <2>1, <3>1
    <3> QED BY <3>1, <3>2
  <2> QED BY <1>3, <2>2, <2>3
<1> QED BY <1>5, <1>6

(***************************************************************************)
(* What the nodes know about the keys below them                           *)
(***************************************************************************)

\* The objects below a node.
Content(below, n) == below[<<n, 0>>] \cup below[<<n, 1>>]

\* The objects below each slot, which are all below the root.
Gathers(kid, below, nodes, objs) ==
    /\ below \in [Slots(Node) -> SUBSET objs] /\ below[RootSlot] = objs
    /\ \A s \in Slots(nodes) :
           /\ kid[s] = None => below[s] = {}
           /\ kid[s] \in Object => below[s] = {kid[s]}
           /\ kid[s] \in Node => kid[s] \in nodes /\ below[s] = Content(below, kid[s])

\* A node sends the objects below it to its left or right by bit crit of byte
\* at of their keys; none of its children is empty.
Splits(below, crit, at, nodes) ==
    \A n \in nodes, i \in {0, 1} :
        /\ below[<<n, i>>] # {}
        /\ \A o \in below[<<n, i>>] : crit[n] \in ByteAt(KeyOf[o], at[n]) <=> i = 1

\* It is the first bit in which the keys differ.
Shares(below, crit, at, nodes) ==
    \A n \in nodes : \A o, p \in Content(below, n) : Agree(KeyOf[o], KeyOf[p], at[n], crit[n])

\* Every object is at one place only, and every node is at some place.
Once(kid, nodes) ==
    /\ \A s, t \in Slots(nodes) : kid[s] \in Object /\ kid[s] = kid[t] => s = t
    /\ \A n \in nodes : \E s \in Slots(nodes) : kid[s] = n

\* There is one node less than there are objects.
Counted(nodes, objs) ==
    /\ IsFiniteSet(objs)
    /\ objs = {} => nodes = {}
    /\ objs # {} => Cardinality(objs) = Cardinality(nodes) + 1

\* The nodes make a crit-bit trie of the objects.
Keyed(kid, below, crit, at, nodes, objs) ==
    /\ crit \in [Node -> Bits] /\ at \in [Node -> Nat]
    /\ Gathers(kid, below, nodes, objs)
    /\ Splits(below, crit, at, nodes)
    /\ Shares(below, crit, at, nodes)
    /\ Once(kid, nodes)
    /\ Counted(nodes, objs)

\* node->otherbits has all bits but one.
Critical(crit, nodes, ob) == \A n \in nodes : ob[n] = Bits \ {crit[n]}

(***************************************************************************)
(* Where keys lead to                                                      *)
(***************************************************************************)

\* The slot that a key goes to from the slot s.
Further(kid, key, s) == <<kid[s], Direction(kid[s], key)>>

\* One step down, in terms of kid.
LEMMA BelowIs ==
    ASSUME NEW kid, Whole(kid, childs, live), NEW key, NEW pass, NEW s \in Slots(live)
    PROVE  /\ kid[s] \in Node => kid[s] \in live /\ Further(kid, key, s) \in Slots(live)
           /\ Below(key, pass, s) = IF kid[s] \in Node /\ kid[s] \in pass THEN Further(kid, key, s) ELSE s
<1>1. At(s) = To(kid[s]) /\ (kid[s] \in Node => kid[s] \in live)
  BY Zenon DEF Whole, In, At
<1>2. At(s).to = kid[s]
  BY <1>1 DEF To
<1>3. kid[s] \in Node => Further(kid, key, s) \in Slots(live)
  BY <1>1, DirectionIs DEF Further, Slots
<1> QED BY <1>1, <1>2, <1>3, Zenon DEF Below, Further

\* A set of slots that a key cannot leave has its path in it.
LEMMA PathIn ==
    ASSUME NEW kid, Whole(kid, childs, live), NEW key, NEW pass, NEW T, RootSlot \in T,
           \A s \in T \cap Slots(live) : kid[s] \in Node /\ kid[s] \in pass => Further(kid, key, s) \in T
    PROVE  \A i \in 0..Depth : Path(key, pass)[i] \in T
<1>1. PICK p : p = Path(key, pass)
  OBVIOUS
<1>2. FollowsUpto(p, Depth, key, pass)
  BY <1>1, PathFollows
<1>3. \A i \in 0..Depth : p[i] \in Slots(live)
  BY <1>1, PathInSlots
<1> DEFINE S == {i \in Nat : i <= Depth => p[i] \in T}
<1>4. 0 \in S
  BY <1>2 DEF FollowsUpto
<1>5. ASSUME NEW i \in Nat, i \in S PROVE i + 1 \in S
  <2> SUFFICES ASSUME i + 1 <= Depth PROVE p[i + 1] \in T
    OBVIOUS
  <2>1. p[i] \in T /\ i + 1 \in 1..Depth /\ (i + 1) - 1 = i /\ i \in 0..Depth
    BY <1>5, DepthNat
  <2>2. p[i + 1] = Below(key, pass, p[i])
    BY <1>2, <2>1 DEF FollowsUpto
  <2>3. PICK s \in T \cap Slots(live) : s = p[i]
    BY <1>3, <2>1
  <2>4. Below(key, pass, s) = IF kid[s] \in Node /\ kid[s] \in pass THEN Further(kid, key, s) ELSE s
    BY BelowIs
  <2> QED BY <2>2, <2>3, <2>4
<1>6. \A i \in Nat : i \in S
  <2> HIDE DEF S
  <2> QED BY <1>4, <1>5, Induct
<1> QED BY <1>1, <1>6, DepthNat

\* The path p goes on at its i-th slot.
GoesOn(kid, p, pass, i) == kid[p[i]] \in Node /\ kid[p[i]] \in pass

\* p is a path.
IsPath(kid, p, key, pass) ==
    /\ p[0] = RootSlot
    /\ \A i \in 0..Depth : p[i] \in Slots(live)
    /\ \A i \in 0..Depth : GoesOn(kid, p, pass, i) => kid[p[i]] \in live
    /\ \A i \in Nat : i + 1 \in 0..Depth =>
           p[i + 1] = IF GoesOn(kid, p, pass, i) THEN Further(kid, key, p[i]) ELSE p[i]

\* Path is one.
LEMMA PathIsPath ==
    ASSUME NEW kid, Whole(kid, childs, live), NEW key, NEW pass
    PROVE  IsPath(kid, Path(key, pass), key, pass)
<1>1. PICK p : p = Path(key, pass)
  OBVIOUS
<1>2. FollowsUpto(p, Depth, key, pass)
  BY <1>1, PathFollows
<1>3. \A i \in 0..Depth : p[i] \in Slots(live)
  BY <1>1, PathInSlots
<1>4. ASSUME NEW i \in 0..Depth PROVE GoesOn(kid, p, pass, i) => kid[p[i]] \in live
  <2>1. p[i] \in Slots(live)
    BY <1>3
  <2> QED BY <2>1 DEF Whole, GoesOn
<1>5. ASSUME NEW i \in Nat, i + 1 \in 0..Depth
      PROVE  p[i + 1] = IF GoesOn(kid, p, pass, i) THEN Further(kid, key, p[i]) ELSE p[i]
  <2>1. i + 1 \in 1..Depth /\ (i + 1) - 1 = i /\ i \in 0..Depth
    BY <1>5, DepthNat
  <2>2. p[i + 1] = Below(key, pass, p[i])
    BY <1>2, <2>1 DEF FollowsUpto
  <2>3. PICK s \in Slots(live) : s = p[i]
    BY <1>3, <2>1
  <2>4. Below(key, pass, s) = IF kid[s] \in Node /\ kid[s] \in pass THEN Further(kid, key, s) ELSE s
    BY BelowIs
  <2> QED BY <2>2, <2>3, <2>4 DEF GoesOn
<1>6. p[0] = RootSlot
  BY <1>2 DEF FollowsUpto
<1>7. IsPath(kid, p, key, pass)
  BY <1>3, <1>4, <1>5, <1>6 DEF IsPath
<1> QED BY <1>1, <1>7

\* A path that does not go on stays where it is.
LEMMA PathStays ==
    ASSUME NEW kid, NEW p, NEW key, NEW pass, IsPath(kid, p, key, pass),
           NEW i \in 0..Depth, ~GoesOn(kid, p, pass, i)
    PROVE  p[Depth] = p[i]
<1> DEFINE S == {m \in Nat : i + m <= Depth => p[i + m] = p[i]}
<1>0. i \in Nat /\ i <= Depth
  BY DepthNat
<1>1. 0 \in S
  BY <1>0
<1>2. ASSUME NEW m \in Nat, m \in S PROVE m + 1 \in S
  <2> SUFFICES ASSUME i + (m + 1) <= Depth PROVE p[i + (m + 1)] = p[i]
    OBVIOUS
  <2>1. PICK j \in Nat : j = i + m /\ j + 1 = i + (m + 1) /\ j + 1 \in 0..Depth
    BY <1>0, DepthNat
  <2>2. p[j] = p[i]
    BY <1>2, <2>1, DepthNat
  <2>3. ~GoesOn(kid, p, pass, j)
    BY <2>2 DEF GoesOn
  <2>4. p[j + 1] = p[j]
    BY <2>1, <2>3 DEF IsPath
  <2> QED BY <2>1, <2>2, <2>4
<1>3. \A m \in Nat : m \in S
  <2> HIDE DEF S
  <2> QED BY <1>1, <1>2, Induct
<1>4. Depth - i \in Nat /\ i + (Depth - i) = Depth
  BY <1>0, DepthNat
<1>5. Depth - i \in S
  BY <1>3, <1>4
<1>6. i + (Depth - i) <= Depth => p[i + (Depth - i)] = p[i]
  BY <1>5
<1> HIDE DEF S
<1> QED BY <1>4, <1>6, DepthNat

\* There are not enough nodes for a path to go on at its end.
LEMMA PathEnds ==
    ASSUME NEW kid, NEW rank, Forest(kid, rank, live), live \subseteq Node,
           NEW p, NEW key, NEW pass, IsPath(kid, p, key, pass)
    PROVE  ~GoesOn(kid, p, pass, Depth)
<1> SUFFICES ASSUME GoesOn(kid, p, pass, Depth) PROVE FALSE
  OBVIOUS
<1>1. \A i \in 0..Depth : GoesOn(kid, p, pass, i)
  <2> SUFFICES ASSUME NEW i \in 0..Depth, ~GoesOn(kid, p, pass, i) PROVE FALSE
    OBVIOUS
  <2>1. p[Depth] = p[i]
    BY PathStays
  <2> QED BY <2>1 DEF GoesOn
<1>2. PICK f : f = [i \in 0..Depth |-> kid[p[i]]]
  OBVIOUS
<1>3. /\ f \in [0..Depth -> Node]
      /\ \A i \in 0..Depth : f[i] = kid[p[i]] /\ f[i] \in live
  BY <1>1, <1>2 DEF GoesOn, IsPath
<1>4. rank \in [Node -> Nat \ {0}]
  BY DEF Forest
<1>5. PICK h : h = [i \in Nat |-> rank[f[i]]]
  OBVIOUS
<1>6. \A i \in 0..Depth : h[i] = rank[f[i]] /\ h[i] \in Nat
  BY <1>3, <1>4, <1>5
<1>7. ASSUME NEW i \in Nat, i + 1 \in 0..Depth PROVE h[i] < h[i + 1]
  <2>1. i \in 0..Depth
    BY <1>7, DepthNat
  <2>2. p[i + 1] = Further(kid, key, p[i])
    BY <1>1, <1>7, <2>1 DEF IsPath
  <2>3. PICK n \in live, d \in {0, 1} : n = f[i] /\ p[i + 1] = <<n, d>>
    BY <1>3, <2>1, <2>2, DirectionIs DEF Further
  <2>4. f[i + 1] = kid[<<n, d>>] /\ f[i + 1] \in Node
    BY <1>3, <1>7, <2>3
  <2>5. rank[n] < rank[kid[<<n, d>>]]
    BY <2>4 DEF Forest
  <2> QED BY <1>6, <1>7, <2>1, <2>3, <2>4, <2>5
<1>8. ASSUME NEW i \in Nat, NEW j \in Nat, i < j, j <= Depth PROVE h[i] < h[j]
  <2> DEFINE S == {m \in Nat : (i + 1) + m <= Depth => h[i] < h[(i + 1) + m]}
  <2>1. 0 \in S
    <3>1. i + 1 \in 0..Depth
      BY <1>8, DepthNat
    <3>2. h[i] < h[i + 1]
      BY <1>7, <3>1
    <3>3. (i + 1) + 0 = i + 1
      OBVIOUS
    <3> QED BY <3>2, <3>3
  <2>2. ASSUME NEW m \in Nat, m \in S PROVE m + 1 \in S
    <3> SUFFICES ASSUME (i + 1) + (m + 1) <= Depth PROVE h[i] < h[(i + 1) + (m + 1)]
      OBVIOUS
    <3>1. PICK k \in Nat : k = (i + 1) + m /\ k + 1 = (i + 1) + (m + 1)
      OBVIOUS
    <3>2. k + 1 \in 0..Depth /\ k \in 0..Depth /\ i \in 0..Depth
      BY <3>1, DepthNat
    <3>3. h[i] < h[k] /\ h[k] < h[k + 1]
      BY <1>7, <2>2, <3>1, <3>2, DepthNat
    <3>4. h[i] \in Nat /\ h[k] \in Nat /\ h[k + 1] \in Nat
      BY <1>6, <3>2
    <3>5. h[i] < h[k + 1]
      BY ONLY <3>3, <3>4
    <3> QED BY <3>1, <3>5
  <2>3. \A m \in Nat : m \in S
    <3> HIDE DEF S
    <3> QED BY <2>1, <2>2, Induct
  <2>4. PICK m \in Nat : m = j - (i + 1) /\ (i + 1) + m = j
    BY <1>8
  <2>5. (i + 1) + m <= Depth => h[i] < h[(i + 1) + m]
    BY <2>3, <2>4
  <2> HIDE DEF S
  <2> QED BY <1>8, <2>4, <2>5
<1>9. \A i, j \in 0..Depth : i # j => f[i] # f[j]
  <2> SUFFICES ASSUME NEW i \in 0..Depth, NEW j \in 0..Depth, i # j, f[i] = f[j] PROVE FALSE
    OBVIOUS
  <2>1. i \in Nat /\ j \in Nat /\ i <= Depth /\ j <= Depth /\ (i < j \/ j < i)
    BY DepthNat
  <2>2. h[i] < h[j] \/ h[j] < h[i]
    BY <1>8, <2>1
  <2>3. h[i] = h[j] /\ h[i] \in Nat
    BY <1>6
  <2> QED BY ONLY <2>2, <2>3
<1>10. IsFiniteSet(0..Depth) /\ Cardinality(0..Depth) = Depth + 1
  <2>1. 0 \in Int /\ Depth \in Int /\ ~(0 > Depth)
    BY DepthNat
  <2> QED BY <2>1, FS_Interval
<1>11. IsFiniteSet(Node) /\ Cardinality(Node) < Cardinality(0..Depth)
  <2>1. IsFiniteSet(Node)
    BY TrieAssumption
  <2>2. Cardinality(Node) = Depth
    BY DEF Depth
  <2> QED BY <1>10, <2>1, <2>2, DepthNat
<1>12. \E i, j \in 0..Depth : i # j /\ f[i] = f[j]
  <2>1. PICK D : D = 0..Depth
    OBVIOUS
  <2>2. IsFiniteSet(D) /\ IsFiniteSet(Node) /\ Cardinality(Node) < Cardinality(D) /\ f \in [D -> Node]
    BY <1>3, <1>10, <1>11, <2>1
  <2>3. \E x, y \in D : x # y /\ f[x] = f[y]
    BY ONLY <2>2, FS_PigeonHole, Zenon
  <2> QED BY <2>1, <2>3
<1> QED BY <1>9, <1>12

\* The slots P on the way of a key as long as it meets nodes of the set pass;
\* the last one is w.
Way(kid, key, pass, P, w) ==
    /\ RootSlot \in P /\ w \in P /\ P \subseteq Slots(live)
    /\ kid[w] \in Node => kid[w] \notin pass
    /\ \A s \in P : s # w => kid[s] \in live /\ kid[s] \in pass /\ Further(kid, key, s) \in P
    /\ \A s \in P : s # RootSlot => \E t \in P : t # w /\ s = Further(kid, key, t)

\* The slots of a path.
Track(key, pass) == {Path(key, pass)[i] : i \in 0..Depth}

\* A path is the way of its key.
LEMMA PathWay ==
    ASSUME NEW kid, NEW rank, Forest(kid, rank, live), Whole(kid, childs, live),
           live \subseteq Node, NEW key, NEW pass
    PROVE  Way(kid, key, pass, Track(key, pass), LastOf(Path(key, pass)))
<1>1. PICK p : p = Path(key, pass)
  OBVIOUS
<1>2. IsPath(kid, p, key, pass)
  BY <1>1, PathIsPath
<1>3. ~GoesOn(kid, p, pass, Depth)
  BY <1>2, PathEnds
<1>4. PICK P, w : P = {p[i] : i \in 0..Depth} /\ w = p[Depth]
  OBVIOUS
<1>5. 0 \in 0..Depth /\ Depth \in 0..Depth
  BY DepthNat
<1>6. RootSlot \in P /\ w \in P /\ P \subseteq Slots(live)
  BY <1>2, <1>4, <1>5 DEF IsPath
<1>7. kid[w] \in Node => kid[w] \notin pass
  BY <1>3, <1>4 DEF GoesOn
<1>8. ASSUME NEW s \in P, s # w
      PROVE  kid[s] \in live /\ kid[s] \in pass /\ Further(kid, key, s) \in P
  <2>1. PICK i \in 0..Depth : s = p[i]
    BY <1>4
  <2>2. GoesOn(kid, p, pass, i)
    BY <1>2, <1>4, <1>8, <2>1, PathStays
  <2>3. i # Depth
    BY <1>4, <1>8, <2>1
  <2>4. i \in Nat /\ i + 1 \in 0..Depth
    BY <2>3, DepthNat
  <2>5. p[i + 1] = Further(kid, key, s)
    BY <1>2, <2>1, <2>2, <2>4 DEF IsPath
  <2> QED BY <1>2, <1>4, <2>1, <2>2, <2>4, <2>5 DEF IsPath, GoesOn
<1>9. ASSUME NEW s \in P, s # RootSlot
      PROVE  \E t \in P : t # w /\ s = Further(kid, key, t)
  <2> DEFINE T == {x \in P : x = RootSlot \/ \E t \in P : t # w /\ x = Further(kid, key, t)}
  <2>1. RootSlot \in T
    BY <1>6
  <2>2. \A x \in T \cap Slots(live) : kid[x] \in Node /\ kid[x] \in pass => Further(kid, key, x) \in T
    <3> SUFFICES ASSUME NEW x \in P, kid[x] \in Node, kid[x] \in pass PROVE Further(kid, key, x) \in T
      OBVIOUS
    <3>1. x # w
      BY <1>7
    <3>2. Further(kid, key, x) \in P
      BY <1>8, <3>1
    <3> QED BY <3>1, <3>2
  <2>3. \A i \in 0..Depth : p[i] \in T
    <3> HIDE DEF T
    <3> QED BY <1>1, <2>1, <2>2, PathIn
  <2>4. s \in T
    BY <1>4, <2>3
  <2> QED BY <1>9, <2>4
<1>10. Way(kid, key, pass, P, w)
  BY <1>6, <1>7, <1>8, <1>9 DEF Way
<1>11. P = Track(key, pass) /\ w = LastOf(Path(key, pass))
  BY <1>1, <1>4, Zenon DEF Track, LastOf, Depth
<1> QED BY <1>10, <1>11

\* The path that stops earlier is a part of the path that does not.
LEMMA TrackIn ==
    ASSUME NEW kid, Whole(kid, childs, live), NEW key, NEW pass,
           NEW P, NEW w, Way(kid, key, Node, P, w)
    PROVE  Track(key, pass) \subseteq P
<1>1. RootSlot \in P
  BY DEF Way
<1>2. \A s \in P \cap Slots(live) : kid[s] \in Node /\ kid[s] \in pass => Further(kid, key, s) \in P
  BY DEF Way
<1>3. \A i \in 0..Depth : Path(key, pass)[i] \in P
  BY <1>1, <1>2, PathIn
<1> QED BY <1>3 DEF Track

\* What is below the end of a path is below all of it.
LEMMA PathGathers ==
    ASSUME NEW kid, Whole(kid, childs, live), NEW key, NEW pass, NEW below, NEW objs,
           Gathers(kid, below, live, objs), live \subseteq Node
    PROVE  \A s \in Track(key, pass) : below[LastOf(Path(key, pass))] \subseteq below[s]
<1>1. PICK p : p = Path(key, pass)
  OBVIOUS
<1>2. IsPath(kid, p, key, pass)
  BY <1>1, PathIsPath
<1>3. ASSUME NEW i \in Nat, i + 1 \in 0..Depth PROVE below[p[i + 1]] \subseteq below[p[i]]
  <2>1. i \in 0..Depth
    BY <1>3, DepthNat
  <2>2. p[i] \in Slots(live)
    BY <1>2, <2>1 DEF IsPath
  <2>3. p[i + 1] = IF GoesOn(kid, p, pass, i) THEN Further(kid, key, p[i]) ELSE p[i]
    BY <1>2, <1>3 DEF IsPath
  <2>4. CASE GoesOn(kid, p, pass, i)
    <3>1. below[p[i]] = Content(below, kid[p[i]])
      BY <2>2, <2>4 DEF Gathers, GoesOn
    <3>2. p[i + 1] = <<kid[p[i]], 0>> \/ p[i + 1] = <<kid[p[i]], 1>>
      BY <2>3, <2>4, DirectionIs DEF Further
    <3> QED BY <3>1, <3>2 DEF Content
  <2>5. CASE ~GoesOn(kid, p, pass, i)
    BY <2>3, <2>5
  <2> QED BY <2>4, <2>5
<1> DEFINE S == {m \in Nat : m <= Depth => below[p[Depth]] \subseteq below[p[Depth - m]]}
<1>4. 0 \in S
  BY DepthNat
<1>5. ASSUME NEW m \in Nat, m \in S PROVE m + 1 \in S
  <2> SUFFICES ASSUME m + 1 <= Depth PROVE below[p[Depth]] \subseteq below[p[Depth - (m + 1)]]
    OBVIOUS
  <2>1. PICK i \in Nat : i = Depth - (m + 1) /\ i + 1 = Depth - m /\ i + 1 \in 0..Depth
    BY DepthNat
  <2>2. below[p[i + 1]] \subseteq below[p[i]]
    BY <1>3, <2>1
  <2>3. below[p[Depth]] \subseteq below[p[i + 1]]
    BY <1>5, <2>1, DepthNat
  <2> QED BY <2>1, <2>2, <2>3
<1>6. \A m \in Nat : m \in S
  <2> HIDE DEF S
  <2> QED BY <1>4, <1>5, Induct
<1>7. ASSUME NEW i \in 0..Depth PROVE below[p[Depth]] \subseteq below[p[i]]
  <2>1. PICK m \in Nat : m <= Depth /\ Depth - m = i
    <3>1. Depth - i \in Nat /\ Depth - i <= Depth /\ Depth - (Depth - i) = i
      BY DepthNat
    <3> QED BY <3>1
  <2>2. m \in S
    BY <1>6
  <2>3. below[p[Depth]] \subseteq below[p[Depth - m]]
    BY <2>1, <2>2
  <2> QED BY <2>1, <2>3
<1> HIDE DEF S
<1>8. LastOf(Path(key, pass)) = p[Depth]
  BY <1>1, Zenon DEF LastOf, Depth
<1> QED BY <1>1, <1>7, <1>8 DEF Track

\* A key turns by the bit of the node.
LEMMA TurnBit ==
    ASSUME NEW kid, NEW below, NEW crit, NEW objs, Keyed(kid, below, crit, byte, live, objs),
           Critical(crit, live, otherbits), live \subseteq Node, NEW n \in live, NEW key \in Key
    PROVE  /\ crit[n] \in Bits /\ byte[n] \in Nat
           /\ Direction(n, key) = IF crit[n] \in ByteAt(key, byte[n]) THEN 1 ELSE 0
<1>1. crit[n] \in Bits /\ byte[n] \in Nat
  BY DEF Keyed
<1>2. otherbits[n] = Bits \ {crit[n]}
  BY DEF Critical
<1>3. PICK b : b = ByteAt(key, byte[n])
  OBVIOUS
<1>4. b \in SUBSET Bits
  BY <1>1, <1>3, ByteIs
<1>5. DirectionOf(Bits \ {crit[n]}, b) = IF crit[n] \in b THEN 1 ELSE 0
  BY <1>1, <1>4, DirectionBit
<1> QED BY <1>1, <1>2, <1>3, <1>5 DEF Direction

\* The objects below the slot that the key goes to have the bit that it has.
LEMMA SameSide ==
    ASSUME NEW kid, NEW below, NEW crit, NEW objs, Keyed(kid, below, crit, byte, live, objs),
           Critical(crit, live, otherbits), live \subseteq Node, NEW n \in live, NEW key \in Key,
           NEW o \in Content(below, n)
    PROVE  /\ o \in below[<<n, Direction(n, key)>>]
                 <=> (crit[n] \in ByteAt(KeyOf[o], byte[n]) <=> crit[n] \in ByteAt(key, byte[n]))
<1>1. Direction(n, key) = IF crit[n] \in ByteAt(key, byte[n]) THEN 1 ELSE 0
  BY TurnBit
<1>2. \A i \in {0, 1} : o \in below[<<n, i>>] => (crit[n] \in ByteAt(KeyOf[o], byte[n]) <=> i = 1)
  BY DEF Keyed, Splits
<1>3. o \in below[<<n, 0>>] \/ o \in below[<<n, 1>>]
  BY DEF Content
<1>4. (crit[n] \in ByteAt(KeyOf[o], byte[n]) => o \in below[<<n, 1>>] /\ o \notin below[<<n, 0>>]) /\
      (crit[n] \notin ByteAt(KeyOf[o], byte[n]) => o \in below[<<n, 0>>] /\ o \notin below[<<n, 1>>])
  BY <1>2, <1>3
<1>5. CASE crit[n] \in ByteAt(key, byte[n])
  <2>1. Direction(n, key) = 1
    BY <1>1, <1>5
  <2> QED BY <1>4, <1>5, <2>1
<1>6. CASE crit[n] \notin ByteAt(key, byte[n])
  <2>1. Direction(n, key) = 0
    BY <1>1, <1>6
  <2> QED BY <1>4, <1>6, <2>1
<1> QED BY <1>5, <1>6

\* An object is at the end of the path of its own key.
LEMMA PathLeads ==
    ASSUME NEW kid, Whole(kid, childs, live), NEW below, NEW crit, NEW objs,
           Keyed(kid, below, crit, byte, live, objs),
           Critical(crit, live, otherbits), live \subseteq Node, NEW o \in objs, objs \subseteq Object,
           NEW pass
    PROVE  o \in below[LastOf(Path(KeyOf[o], pass))]
<1>1. PICK key \in Key : key = KeyOf[o]
  BY TrieAssumption
<1>2. PICK T : T = {s \in Slots(live) : o \in below[s]}
  OBVIOUS
<1>3. RootSlot \in T
  BY <1>2 DEF Keyed, Gathers, Slots
<1>4. ASSUME NEW s \in T \cap Slots(live), kid[s] \in Node, kid[s] \in pass
      PROVE  Further(kid, key, s) \in T
  <2>1. PICK n \in live : n = kid[s]
    BY <1>4 DEF Keyed, Gathers
  <2>2. o \in Content(below, n)
    BY <1>2, <1>4, <2>1 DEF Keyed, Gathers
  <2>3. o \in below[<<n, Direction(n, key)>>]
    BY <1>1, <2>2, SameSide
  <2>4. <<n, Direction(n, key)>> \in Slots(live)
    BY DirectionIs DEF Slots
  <2> QED BY <1>2, <2>1, <2>3, <2>4 DEF Further
<1>5. \A i \in 0..Depth : Path(key, pass)[i] \in T
  BY <1>3, <1>4, PathIn
<1>6. LastOf(Path(key, pass)) = Path(key, pass)[Depth] /\ Depth \in 0..Depth
  BY DepthNat DEF LastOf, Depth
<1> QED BY <1>1, <1>2, <1>5, <1>6

\* The trie is empty when there is no object in it.
LEMMA EmptyIs ==
    ASSUME NEW kid, NEW rank, Forest(kid, rank, live), Whole(kid, childs, live),
           NEW below, NEW crit, NEW at, NEW objs,
           Keyed(kid, below, crit, at, live, objs), live \subseteq Node
    PROVE  /\ root = Null <=> objs = {}
           /\ kid[RootSlot] = None <=> objs = {}
<1>1. root = To(kid[RootSlot])
  BY RootIn
<1>2. RootSlot \in Slots(live) /\ RootSlot \in Slots(Node)
  BY DEF Slots
<1>3. kid[RootSlot] \in Target /\ below[RootSlot] = objs
  BY <1>2 DEF Forest, Keyed, Gathers
<1>4. CASE kid[RootSlot] = None
  <2>1. objs = {}
    BY <1>2, <1>3, <1>4 DEF Keyed, Gathers
  <2> QED BY <1>1, <1>4, <2>1 DEF Null
<1>5. CASE kid[RootSlot] \in Object
  <2>1. objs = {kid[RootSlot]} /\ kid[RootSlot] # None
    BY <1>2, <1>3, <1>5, TrieAssumption DEF Keyed, Gathers
  <2> QED BY <1>1, <2>1, ToIs DEF Null
<1>6. CASE kid[RootSlot] \in Node
  <2>1. kid[RootSlot] \in live /\ objs = Content(below, kid[RootSlot])
    BY <1>2, <1>3, <1>6 DEF Keyed, Gathers
  <2>2. below[<<kid[RootSlot], 0>>] # {}
    BY <2>1 DEF Keyed, Splits
  <2>3. objs # {} /\ kid[RootSlot] # None
    BY <1>6, <2>1, <2>2, TrieAssumption DEF Content
  <2> QED BY <1>1, <2>3, ToIs DEF Null
<1> QED BY <1>3, <1>4, <1>5, <1>6 DEF Target

\* Where a lookup ends: at an object, and with a key that is stored at the
\* one that has it.
LEMMA ClosestIs ==
    ASSUME NEW kid, NEW rank, Forest(kid, rank, live), Whole(kid, childs, live),
           NEW below, NEW crit, NEW objs,
           Keyed(kid, below, crit, byte, live, objs), Critical(crit, live, otherbits),
           live \subseteq Node, objs \subseteq Object, objs # {}, NEW key \in Key
    PROVE  /\ ClosestSlot(key) \in Slots(live) /\ kid[ClosestSlot(key)] = Closest(key)
           /\ Closest(key) \in objs /\ below[ClosestSlot(key)] = {Closest(key)}
           /\ \A x \in objs : KeyOf[x] = key => x = Closest(key)
<1>1. PICK w : w = ClosestSlot(key)
  OBVIOUS
<1>2. w = LastOf(Path(key, Node))
  BY <1>1 DEF ClosestSlot
<1>3. Way(kid, key, Node, Track(key, Node), w)
  BY <1>2, PathWay
<1>4. w \in Slots(live) /\ kid[w] \notin Node
  BY <1>3 DEF Way
<1>5. At(w) = To(kid[w])
  BY <1>4, Zenon DEF Whole, In, At
<1>6. kid[w] = Closest(key)
  BY <1>1, <1>5, ToIs DEF Closest
<1>7. kid[w] \in Object
  <2>1. CASE w = RootSlot
    <3>1. kid[w] # None
      BY <2>1, EmptyIs
    <3>2. kid[w] \in Target
      BY <2>1 DEF Forest, Slots
    <3> QED BY <1>4, <3>1, <3>2 DEF Target
  <2>2. CASE w # RootSlot
    <3>1. PICK n \in live, i \in {0, 1} : w = <<n, i>>
      BY <1>4, <2>2 DEF Slots
    <3>2. kid[w] \in Node \cup Object
      BY <3>1 DEF Forest
    <3> QED BY <1>4, <3>2
  <2> QED BY <2>1, <2>2
<1>8. below[w] = {kid[w]}
  BY <1>4, <1>7 DEF Keyed, Gathers
<1>9. below[w] \subseteq objs
  <2>1. w \in Slots(Node)
    BY <1>4 DEF Slots
  <2> QED BY <2>1 DEF Keyed, Gathers
<1>10. ASSUME NEW x \in objs, KeyOf[x] = key PROVE x = kid[w]
  BY <1>2, <1>8, <1>10, PathLeads
<1> QED BY <1>1, <1>4, <1>6, <1>8, <1>9, <1>10

(***************************************************************************)
(* Insertion and removal of keys                                           *)
(***************************************************************************)

\* The object is now also below the slots P on its way.
BelowInserted(below, below2, P, w, new, dir, o) ==
    /\ below2[<<new, dir>>] = below[w] /\ below2[<<new, 1 - dir>>] = {o}
    /\ \A s \in Slots(live) : below2[s] = IF s \in P THEN below[s] \cup {o} ELSE below[s]

\* The slots of a larger trie.
LEMMA MoreSlots ==
    ASSUME live \subseteq Node, NEW new \in Node \ live, NEW dir \in {0, 1}
    PROVE  /\ \A t \in Slots(live \cup {new}) :
                  t \in Slots(live) \/ t = <<new, dir>> \/ t = <<new, 1 - dir>>
           /\ \A t \in Slots(live) : /\ t \in Slots(Node) /\ t \in Slots(live \cup {new})
                                     /\ t # <<new, dir>> /\ t # <<new, 1 - dir>>
           /\ <<new, dir>> \in Slots(live \cup {new}) /\ <<new, 1 - dir>> \in Slots(live \cup {new})
           /\ <<new, dir>> # <<new, 1 - dir>>
           /\ <<new, dir>> \in Slots(Node) /\ <<new, 1 - dir>> \in Slots(Node)
<1>1. \A t \in Slots(live \cup {new}) : t \in Slots(live) \/ t = <<new, dir>> \/ t = <<new, 1 - dir>>
  BY DEF Slots
<1>2. ASSUME NEW t \in Slots(live)
      PROVE  /\ t \in Slots(Node) /\ t \in Slots(live \cup {new})
             /\ t # <<new, dir>> /\ t # <<new, 1 - dir>>
  <2>1. t \in Slots(Node) /\ t \in Slots(live \cup {new})
    BY DEF Slots
  <2>2. t[1] # new
    BY RootIs DEF Slots
  <2> QED BY <2>1, <2>2
<1>3. /\ <<new, dir>> \in Slots(live \cup {new}) /\ <<new, 1 - dir>> \in Slots(live \cup {new})
      /\ <<new, dir>> \in Slots(Node) /\ <<new, 1 - dir>> \in Slots(Node)
  BY DEF Slots
<1>4. <<new, dir>> # <<new, 1 - dir>>
  OBVIOUS
<1> QED BY <1>1, <1>2, <1>3, <1>4

\* A way goes to one side of a node, and comes to it from above.
LEMMA WaySide ==
    ASSUME NEW kid, NEW key, NEW pass, NEW P, NEW w, Way(kid, key, pass, P, w),
           NEW n \in Node, NEW i, <<n, i>> \in P
    PROVE  i = Direction(n, key) /\ \E t \in P : t # w /\ kid[t] = n
<1>1. <<n, i>> # RootSlot
  BY RootIs DEF RootSlot
<1>2. PICK t \in P : t # w /\ <<n, i>> = Further(kid, key, t)
  BY <1>1 DEF Way
<1>3. kid[t] = n /\ i = Direction(kid[t], key)
  BY <1>2 DEF Further
<1> QED BY <1>2, <1>3

\* What InsertBefore() does to the forest and to the objects below its slots.
GatherSite(kid, rank, below, objs, o, new, dir, key, pass, P, w, kid2, below2) ==
    /\ live \subseteq Node /\ Forest(kid, rank, live)
    /\ objs \subseteq Object /\ Gathers(kid, below, live, objs)
    /\ o \in Object /\ new \in Node \ live /\ dir \in {0, 1}
    /\ Way(kid, key, pass, P, w) /\ kid[w] # None
    /\ Inserted(kid, kid2, live, w, new, dir, o)
    /\ BelowInserted(below, below2, P, w, new, dir, o)
    /\ below2 \in [Slots(Node) -> SUBSET (objs \cup {o})]

\* InsertBefore(): the objects below each slot.
LEMMA InsertGathers ==
    ASSUME NEW kid, NEW rank, NEW below, NEW objs, NEW o, NEW new, NEW dir, NEW key, NEW pass,
           NEW P, NEW w, NEW kid2, NEW below2,
           GatherSite(kid, rank, below, objs, o, new, dir, key, pass, P, w, kid2, below2)
    PROVE  Gathers(kid2, below2, live \cup {new}, objs \cup {o})
<1>0. /\ live \subseteq Node /\ Forest(kid, rank, live)
      /\ objs \subseteq Object /\ Gathers(kid, below, live, objs)
      /\ o \in Object /\ new \in Node \ live /\ dir \in {0, 1}
      /\ Way(kid, key, pass, P, w) /\ kid[w] # None
      /\ Inserted(kid, kid2, live, w, new, dir, o)
      /\ BelowInserted(below, below2, P, w, new, dir, o)
      /\ below2 \in [Slots(Node) -> SUBSET (objs \cup {o})]
  BY DEF GatherSite
<1> USE <1>0
<1>1. PICK a, b : a = <<new, dir>> /\ b = <<new, 1 - dir>>
  OBVIOUS
<1>2. /\ \A t \in Slots(live \cup {new}) : t \in Slots(live) \/ t = a \/ t = b
      /\ \A t \in Slots(live) : t # a /\ t # b
  BY <1>1, MoreSlots
<1>3. /\ kid2[w] = new /\ kid2[a] = kid[w] /\ kid2[b] = o
      /\ \A t \in Slots(live) : t # w => kid2[t] = kid[t]
  BY <1>1 DEF Inserted
<1>4. /\ below2[a] = below[w] /\ below2[b] = {o}
      /\ \A s \in Slots(live) : below2[s] = IF s \in P THEN below[s] \cup {o} ELSE below[s]
  BY <1>1 DEF BelowInserted
<1>5. /\ RootSlot \in P /\ w \in P /\ P \subseteq Slots(live)
      /\ \A s \in P : s # w => kid[s] \in live /\ Further(kid, key, s) \in P
  BY DEF Way
<1>6. \A s, t \in Slots(live) : kid[s] \in Node /\ kid[s] = kid[t] => s = t
  BY DEF Forest
<1>7. \A n \in live : <<n, 0>> \in Slots(live) /\ <<n, 1>> \in Slots(live)
  BY DEF Slots
<1>8. \A n \in Node : \A i : <<n, i>> \in P => i = Direction(n, key) /\ \E t \in P : t # w /\ kid[t] = n
  BY WaySide
<1>9. below2[RootSlot] = objs \cup {o}
  BY <1>4, <1>5 DEF Gathers
<1>10. Content(below2, new) = below[w] \cup {o}
  <2>1. CASE dir = 0
    BY <2>1, <1>1, <1>4 DEF Content
  <2>2. CASE dir = 1
    BY <2>2, <1>1, <1>4 DEF Content
  <2> QED BY <2>1, <2>2
<1>11. ASSUME NEW s \in Slots(live \cup {new})
       PROVE  /\ kid2[s] = None => below2[s] = {}
              /\ kid2[s] \in Object => below2[s] = {kid2[s]}
              /\ kid2[s] \in Node => kid2[s] \in live \cup {new} /\ below2[s] = Content(below2, kid2[s])
  <2>1. CASE s = w
    <3>1. below2[s] = below[w] \cup {o} /\ kid2[s] = new
      BY <2>1, <1>3, <1>4, <1>5
    <3> QED BY <3>1, <1>10, TrieAssumption
  <2>2. CASE s = a
    <3>1. kid2[s] = kid[w] /\ below2[s] = below[w] /\ w \in Slots(live)
      BY <2>2, <1>3, <1>4, <1>5
    <3>2. CASE kid[w] \in Node
      <4>1. PICK m \in live : m = kid[w]
        BY <3>1, <3>2 DEF Gathers
      <4>2. below[w] = Content(below, m)
        BY <3>1, <4>1 DEF Gathers
      <4>3. <<m, 0>> \notin P /\ <<m, 1>> \notin P
        BY <1>5, <1>6, <1>8, <4>1
      <4>4. Content(below2, m) = Content(below, m)
        BY <1>4, <1>7, <4>3 DEF Content
      <4> QED BY <3>1, <4>1, <4>2, <4>4, TrieAssumption
    <3>3. CASE kid[w] \notin Node
      BY <3>1, <3>3 DEF Gathers
    <3> QED BY <3>2, <3>3
  <2>3. CASE s = b
    BY <2>3, <1>3, <1>4, TrieAssumption
  <2>4. CASE s \in Slots(live) /\ s # w /\ s \in P
    <3>1. PICK n \in live : n = kid[s] /\ kid2[s] = n
      BY <2>4, <1>3, <1>5
    <3>2. below[s] = Content(below, n) /\ below2[s] = below[s] \cup {o}
      BY <2>4, <3>1, <1>4 DEF Gathers
    <3>3. <<n, Direction(n, key)>> \in P
      BY <2>4, <3>1, <1>5 DEF Further
    <3>4. Content(below2, n) = Content(below, n) \cup {o}
      <4>1. CASE Direction(n, key) = 0
        <5>1. <<n, 0>> \in P /\ <<n, 1>> \notin P
          BY <3>3, <4>1, <1>8
        <5> QED BY <5>1, <1>4, <1>7 DEF Content
      <4>2. CASE Direction(n, key) = 1
        <5>1. <<n, 1>> \in P /\ <<n, 0>> \notin P
          BY <3>3, <4>2, <1>8
        <5> QED BY <5>1, <1>4, <1>7 DEF Content
      <4> QED BY <4>1, <4>2, DirectionIs
    <3> QED BY <3>1, <3>2, <3>4, TrieAssumption
  <2>5. CASE s \in Slots(live) /\ s \notin P
    <3>1. kid2[s] = kid[s] /\ below2[s] = below[s]
      BY <2>5, <1>3, <1>4, <1>5
    <3>2. CASE kid[s] \in Node
      <4>1. PICK n \in live : n = kid[s] /\ below[s] = Content(below, n)
        BY <2>5, <3>2 DEF Gathers
      <4>2. <<n, 0>> \notin P /\ <<n, 1>> \notin P
        BY <2>5, <4>1, <1>5, <1>6, <1>8
      <4>3. Content(below2, n) = Content(below, n)
        BY <1>4, <1>7, <4>2 DEF Content
      <4> QED BY <3>1, <4>1, <4>3, TrieAssumption
    <3>3. CASE kid[s] \notin Node
      BY <2>5, <3>1, <3>3 DEF Gathers
    <3> QED BY <3>2, <3>3
  <2> QED BY <1>2, <2>1, <2>2, <2>3, <2>4, <2>5
<1> QED BY <1>9, <1>11 DEF Gathers

\* The keys of the objects below every node on the way agree with the new one
\* before the bit of the node.
Joins(below, crit, P, key) ==
    \A n \in live, i \in {0, 1} : <<n, i>> \in P =>
        /\ crit[n] \in ByteAt(key, byte[n]) <=> i = 1
        /\ \A x \in Content(below, n) : Agree(KeyOf[x], key, byte[n], crit[n])

\* Those below the new node agree with it before bit c of byte j, and differ
\* there.
Parts(below, w, dir, key, j, c) ==
    /\ c \in ByteAt(key, j) <=> dir = 0
    /\ \A x \in below[w] : Agree(KeyOf[x], key, j, c) /\ (c \in ByteAt(KeyOf[x], j) <=> dir = 1)

\* What it does to the bits of the nodes.
SplitSite(below, crit, o, new, dir, P, w, key, j, c, below2, crit2, at2) ==
    /\ live \subseteq Node /\ crit \in [Node -> Bits] /\ byte \in [Node -> Nat]
    /\ Splits(below, crit, byte, live) /\ Shares(below, crit, byte, live)
    /\ o \in Object /\ new \in Node \ live /\ dir \in {0, 1}
    /\ w \in P /\ P \subseteq Slots(live) /\ key = KeyOf[o]
    /\ j \in Nat /\ c \in Bits /\ below[w] # {}
    /\ Joins(below, crit, P, key) /\ Parts(below, w, dir, key, j, c)
    /\ BelowInserted(below, below2, P, w, new, dir, o)
    /\ crit2 = [crit EXCEPT ![new] = c] /\ at2 = [byte EXCEPT ![new] = j]

\* InsertBefore(): the nodes tell the keys apart.
LEMMA InsertSplits ==
    ASSUME NEW below, NEW crit, NEW o, NEW new, NEW dir, NEW P, NEW w, NEW key, NEW j, NEW c,
           NEW below2, NEW crit2, NEW at2,
           SplitSite(below, crit, o, new, dir, P, w, key, j, c, below2, crit2, at2)
    PROVE  /\ crit2 \in [Node -> Bits] /\ at2 \in [Node -> Nat]
           /\ Splits(below2, crit2, at2, live \cup {new}) /\ Shares(below2, crit2, at2, live \cup {new})
<1>0. /\ live \subseteq Node /\ crit \in [Node -> Bits] /\ byte \in [Node -> Nat]
      /\ Splits(below, crit, byte, live) /\ Shares(below, crit, byte, live)
      /\ o \in Object /\ new \in Node \ live /\ dir \in {0, 1}
      /\ w \in P /\ P \subseteq Slots(live) /\ key = KeyOf[o]
      /\ j \in Nat /\ c \in Bits /\ below[w] # {}
      /\ Joins(below, crit, P, key) /\ Parts(below, w, dir, key, j, c)
      /\ BelowInserted(below, below2, P, w, new, dir, o)
      /\ crit2 = [crit EXCEPT ![new] = c] /\ at2 = [byte EXCEPT ![new] = j]
  BY DEF SplitSite
<1> USE <1>0
<1>1. /\ crit2 \in [Node -> Bits] /\ at2 \in [Node -> Nat]
      /\ crit2[new] = c /\ at2[new] = j
      /\ \A n \in live : crit2[n] = crit[n] /\ at2[n] = byte[n]
  OBVIOUS
<1>2. \A n \in live, i \in {0, 1} : <<n, i>> \in Slots(live)
  BY DEF Slots
<1>3. \A s \in Slots(live) : below2[s] = IF s \in P THEN below[s] \cup {o} ELSE below[s]
  BY DEF BelowInserted
<1>4. \A i \in {0, 1} : below2[<<new, i>>] = IF i = dir THEN below[w] ELSE {o}
  <2>1. below2[<<new, dir>>] = below[w] /\ below2[<<new, 1 - dir>>] = {o}
    BY DEF BelowInserted
  <2>2. ASSUME NEW i \in {0, 1} PROVE i # dir => i = 1 - dir
    OBVIOUS
  <2> QED BY <2>1, <2>2
<1>5. ASSUME NEW n \in live \cup {new}, NEW i \in {0, 1}
      PROVE  /\ below2[<<n, i>>] # {}
             /\ \A x \in below2[<<n, i>>] : crit2[n] \in ByteAt(KeyOf[x], at2[n]) <=> i = 1
  <2>1. CASE n = new
    <3>1. c \in ByteAt(key, j) <=> dir = 0
      BY DEF Parts
    <3>2. \A x \in below[w] : c \in ByteAt(KeyOf[x], j) <=> dir = 1
      BY DEF Parts
    <3> QED BY <2>1, <3>1, <3>2, <1>1, <1>4
  <2>2. CASE n \in live
    <3>1. /\ below[<<n, i>>] # {}
          /\ \A x \in below[<<n, i>>] : crit[n] \in ByteAt(KeyOf[x], byte[n]) <=> i = 1
      BY <2>2 DEF Splits
    <3>2. <<n, i>> \in P => (crit[n] \in ByteAt(key, byte[n]) <=> i = 1)
      BY <2>2 DEF Joins
    <3>3. below2[<<n, i>>] = IF <<n, i>> \in P THEN below[<<n, i>>] \cup {o} ELSE below[<<n, i>>]
      BY <2>2, <1>2, <1>3
    <3> QED BY <2>2, <3>1, <3>2, <3>3, <1>1
  <2> QED BY <2>1, <2>2
<1>6. ASSUME NEW n \in live \cup {new}, NEW x \in Content(below2, n), NEW y \in Content(below2, n)
      PROVE  Agree(KeyOf[x], KeyOf[y], at2[n], crit2[n])
  <2>1. CASE n = new
    <3>1. ASSUME NEW z \in Content(below2, n) PROVE Agree(KeyOf[z], key, j, c)
      <4>1. z \in below[w] \/ z = o
        BY <2>1, <3>1, <1>4 DEF Content
      <4>2. Agree(key, key, j, c)
        BY DEF Agree
      <4> QED BY <4>1, <4>2 DEF Parts
    <3>2. Agree(KeyOf[x], key, j, c) /\ Agree(key, KeyOf[y], j, c)
      BY <3>1, AgreeSym
    <3> QED BY <2>1, <3>2, <1>1, AgreeTrans
  <2>2. CASE n \in live
    <3>1. \A z \in Content(below2, n) : z \in Content(below, n) \/
             (z = o /\ \E i \in {0, 1} : <<n, i>> \in P)
      BY <2>2, <1>2, <1>3 DEF Content
    <3>2. \A z \in Content(below, n), v \in Content(below, n) : Agree(KeyOf[z], KeyOf[v], byte[n], crit[n])
      BY <2>2 DEF Shares
    <3>3. (\E i \in {0, 1} : <<n, i>> \in P) =>
             \A z \in Content(below, n) : /\ Agree(KeyOf[z], key, byte[n], crit[n])
                                          /\ Agree(key, KeyOf[z], byte[n], crit[n])
      BY <2>2, AgreeSym DEF Joins
    <3>4. Agree(key, key, byte[n], crit[n])
      BY DEF Agree
    <3>5. Agree(KeyOf[x], KeyOf[y], byte[n], crit[n])
      BY <3>1, <3>2, <3>3, <3>4, <1>6
    <3> QED BY <2>2, <3>5, <1>1
  <2> QED BY <2>1, <2>2
<1> QED BY <1>1, <1>5, <1>6 DEF Splits, Shares

\* InsertBefore(): nodes and objects are counted.
LEMMA InsertOnce ==
    ASSUME live \subseteq Node, NEW kid, Once(kid, live),
           NEW objs, objs # {}, Counted(live, objs),
           \A s \in Slots(live) : kid[s] \in Object => kid[s] \in objs,
           NEW o \in Object \ objs, NEW new \in Node \ live, NEW dir \in {0, 1}, NEW w \in Slots(live),
           NEW kid2, Inserted(kid, kid2, live, w, new, dir, o)
    PROVE  Once(kid2, live \cup {new}) /\ Counted(live \cup {new}, objs \cup {o})
<1>1. PICK a, b : a = <<new, dir>> /\ b = <<new, 1 - dir>>
  OBVIOUS
<1>2. /\ \A t \in Slots(live \cup {new}) : t \in Slots(live) \/ t = a \/ t = b
      /\ \A t \in Slots(live) : t # a /\ t # b /\ t \in Slots(live \cup {new})
      /\ a \in Slots(live \cup {new}) /\ b \in Slots(live \cup {new}) /\ a # b
  BY <1>1, MoreSlots
<1>3. /\ kid2[w] = new /\ kid2[a] = kid[w] /\ kid2[b] = o
      /\ \A t \in Slots(live) : t # w => kid2[t] = kid[t]
  BY <1>1 DEF Inserted
<1>4. ASSUME NEW s \in Slots(live \cup {new}), NEW t \in Slots(live \cup {new}),
             kid2[s] \in Object, kid2[s] = kid2[t]
      PROVE  s = t
  <2>1. \A x, y \in Slots(live) : kid[x] \in Object /\ kid[x] = kid[y] => x = y
    BY DEF Once
  <2>2. \A x \in Slots(live) : kid[x] # o
    OBVIOUS
  <2>3. new \notin Object
    BY TrieAssumption
  <2>4. (s = a \/ s = b \/ s = w \/ (s \in Slots(live) /\ s # w)) /\
        (t = a \/ t = b \/ t = w \/ (t \in Slots(live) /\ t # w))
    BY <1>2
  <2> QED BY <1>3, <1>4, <2>1, <2>2, <2>3, <2>4
<1>5. ASSUME NEW n \in live \cup {new} PROVE \E s \in Slots(live \cup {new}) : kid2[s] = n
  <2>1. CASE n = new
    BY <2>1, <1>2, <1>3
  <2>2. CASE n \in live
    <3>1. PICK s \in Slots(live) : kid[s] = n
      BY <2>2 DEF Once
    <3>2. CASE s = w
      BY <3>1, <3>2, <1>2, <1>3
    <3>3. CASE s # w
      BY <3>1, <3>3, <1>2, <1>3
    <3> QED BY <3>2, <3>3
  <2> QED BY <2>1, <2>2
<1>6. Counted(live \cup {new}, objs \cup {o})
  <2>1. IsFiniteSet(live) /\ IsFiniteSet(objs) /\ Cardinality(objs) = Cardinality(live) + 1
    BY FS_Subset, TrieAssumption DEF Counted
  <2>2. IsFiniteSet(objs \cup {o}) /\ Cardinality(objs \cup {o}) = Cardinality(objs) + 1
    BY <2>1, FS_AddElement
  <2>3. Cardinality(live \cup {new}) = Cardinality(live) + 1
    BY <2>1, FS_AddElement
  <2> QED BY <2>1, <2>2, <2>3 DEF Counted
<1> QED BY <1>4, <1>5, <1>6 DEF Once

\* InsertBefore(): the nodes whose bit comes before, or is, bit c of byte j.
NodesAbove(nother, j) ==
    {n \in Node : byte[n] < j \/ (byte[n] = j /\ ~Less(nother, otherbits[n]))}

\* InsertBefore(): the new node belongs where the path stops.
LEMMA InsertPlace ==
    ASSUME NEW kid, NEW rank, Forest(kid, rank, live), Whole(kid, childs, live),
           NEW below, NEW crit, NEW objs,
           Keyed(kid, below, crit, byte, live, objs), Critical(crit, live, otherbits),
           live \subseteq Node, objs \subseteq Object, objs # {},
           NEW key \in Key, NEW entry, entry = KeyOf[Closest(key)],
           NEW j \in Nat, NEW c \in Bits, Agree(key, entry, j, c),
           ~(c \in ByteAt(key, j) <=> c \in ByteAt(entry, j)),
           NEW above, above = NodesAbove(Bits \ {c}, j),
           NEW w, w = LastOf(Path(key, above)), NEW P, P = Track(key, above),
           NEW dir, dir = DirectionOf(Bits \ {c}, ByteAt(entry, j))
    PROVE  /\ Way(kid, key, above, P, w) /\ Joins(below, crit, P, key)
           /\ Parts(below, w, dir, key, j, c)
           /\ below[w] # {} /\ kid[w] # None /\ dir \in {0, 1}
<1>1. PICK e : e = Closest(key)
  OBVIOUS
<1>2. e \in objs /\ entry = KeyOf[e] /\ entry \in Key /\ below[ClosestSlot(key)] = {e}
  BY <1>1, ClosestIs, TrieAssumption
<1>3. PICK F, v : F = Track(key, Node) /\ v = LastOf(Path(key, Node))
  OBVIOUS
<1>4. Way(kid, key, Node, F, v) /\ Way(kid, key, above, P, w)
  BY <1>3, PathWay
<1>5. P \subseteq F
  BY <1>4, TrackIn
<1>6. \A s \in F : e \in below[s]
  <2>1. Gathers(kid, below, live, objs)
    BY DEF Keyed
  <2>2. \A s \in Track(key, Node) : below[LastOf(Path(key, Node))] \subseteq below[s]
    BY <2>1, PathGathers
  <2>3. below[v] = {e}
    BY <1>2, <1>3 DEF ClosestSlot
  <2> QED BY <1>3, <2>2, <2>3
<1>7. e \in below[w] /\ w \in Slots(live)
  BY <1>4, <1>5, <1>6 DEF Way
<1>8. dir = IF c \in ByteAt(entry, j) THEN 1 ELSE 0
  <2>1. ByteAt(entry, j) \in SUBSET Bits
    BY <1>2, ByteIs
  <2> QED BY <2>1, DirectionBit
<1>9. Agree(entry, key, j, c)
  BY AgreeSym
<1>10. ASSUME NEW n \in live PROVE /\ byte[n] \in Nat /\ crit[n] \in Bits /\ crit[n] \in Nat /\ c \in Nat
                                   /\ n \in above <=> byte[n] < j \/ (byte[n] = j /\ crit[n] >= c)
  <2>1. byte[n] \in Nat /\ crit[n] \in Bits
    BY DEF Keyed
  <2>2. crit[n] \in Nat /\ c \in Nat
    BY <2>1, BitsAre
  <2>3. otherbits[n] = Bits \ {crit[n]}
    BY DEF Critical
  <2>4. Less(Bits \ {c}, Bits \ {crit[n]}) <=> crit[n] < c
    BY <2>1, LessOne
  <2>5. n \in above <=> byte[n] < j \/ (byte[n] = j /\ ~(crit[n] < c))
    BY <2>3, <2>4 DEF NodesAbove
  <2> QED BY <2>1, <2>2, <2>5
<1>11. ASSUME NEW n \in live, NEW i \in {0, 1}, <<n, i>> \in P
       PROVE  /\ crit[n] \in ByteAt(key, byte[n]) <=> i = 1
              /\ \A x \in Content(below, n) : Agree(KeyOf[x], key, byte[n], crit[n])
  <2>1. i = Direction(n, key) /\ \E t \in P : t # w /\ kid[t] = n
    BY <1>4, <1>11, WaySide
  <2>2. n \in above
    BY <1>4, <2>1 DEF Way
  <2>3. e \in below[<<n, i>>] /\ e \in Content(below, n)
    BY <1>5, <1>6, <1>11 DEF Content
  <2>4. crit[n] \in ByteAt(entry, byte[n]) <=> crit[n] \in ByteAt(key, byte[n])
    BY <1>2, <2>1, <2>3, SameSide
  <2>5. Earlier(byte[n], crit[n], j, c)
    <3>1. byte[n] < j \/ (byte[n] = j /\ crit[n] >= c)
      BY <1>10, <2>2
    <3>2. ~(byte[n] = j /\ crit[n] = c)
      BY <2>4
    <3>3. byte[n] = j /\ crit[n] >= c => crit[n] > c
      BY <1>10, <3>2
    <3> QED BY <3>1, <3>3 DEF Earlier
  <2>6. Agree(entry, key, byte[n], crit[n])
    BY <1>9, <1>10, <2>5, AgreeEarlier
  <2>7. crit[n] \in ByteAt(key, byte[n]) <=> i = 1
    BY <2>1, TurnBit
  <2>8. \A x \in Content(below, n) : Agree(KeyOf[x], entry, byte[n], crit[n])
    BY <1>2, <2>3 DEF Keyed, Shares
  <2> QED BY <2>6, <2>7, <2>8, AgreeTrans
<1>12. ASSUME NEW x \in below[w]
       PROVE  Agree(KeyOf[x], entry, j, c) /\ (c \in ByteAt(KeyOf[x], j) <=> c \in ByteAt(entry, j))
  <2>1. CASE kid[w] \in Node
    <3>1. PICK m \in live : m = kid[w] /\ below[w] = Content(below, m)
      BY <1>7, <2>1 DEF Keyed, Gathers
    <3>2. m \notin above
      BY <1>4, <2>1, <3>1 DEF Way
    <3>3. Earlier(j, c, byte[m], crit[m])
      BY <1>10, <3>2 DEF Earlier
    <3>4. Agree(KeyOf[x], entry, byte[m], crit[m])
      BY <1>2, <1>7, <3>1 DEF Keyed, Shares
    <3> QED BY <1>10, <3>3, <3>4, AgreeEarlier
  <2>2. CASE kid[w] \notin Node
    <3>1. kid[w] \in Target
      BY <1>7 DEF Forest, Slots
    <3>2. kid[w] = None => below[w] = {}
      BY <1>7 DEF Keyed, Gathers
    <3>3. kid[w] \in Object => below[w] = {kid[w]}
      BY <1>7 DEF Keyed, Gathers
    <3>4. x = e
      BY <1>7, <2>2, <3>1, <3>2, <3>3 DEF Target
    <3> QED BY <1>2, <3>4 DEF Agree
  <2> QED BY <2>1, <2>2
<1>13. Parts(below, w, dir, key, j, c)
  <2>1. c \in ByteAt(key, j) <=> dir = 0
    BY <1>8
  <2>2. \A x \in below[w] : Agree(KeyOf[x], key, j, c)
    BY <1>9, <1>12, AgreeTrans
  <2>3. \A x \in below[w] : c \in ByteAt(KeyOf[x], j) <=> dir = 1
    <3>1. dir = 1 <=> c \in ByteAt(entry, j)
      BY <1>8
    <3> QED BY <1>12, <3>1
  <2> QED BY <2>1, <2>2, <2>3 DEF Parts
<1>14. kid[w] # None
  BY <1>7 DEF Keyed, Gathers
<1>15. Joins(below, crit, P, key)
  BY <1>11 DEF Joins
<1> QED BY <1>4, <1>7, <1>8, <1>13, <1>14, <1>15

\* There is a trie of the objects that has the forest kid.
KeyedTrie(kid, nodes, objs, at, ob) ==
    \E below, crit : Keyed(kid, below, crit, at, nodes, objs) /\ Critical(crit, nodes, ob)

\* What InsertBefore() finds and does.
InsertSite(kid, rank, below, crit, objs, o, new, dir, pass, P, w, key, j, c, kid2, at2, ob2) ==
    /\ live \subseteq Node /\ Forest(kid, rank, live) /\ objs \subseteq Object /\ objs # {}
    /\ Keyed(kid, below, crit, byte, live, objs) /\ Critical(crit, live, otherbits)
    /\ o \in Object \ objs /\ new \in Node \ live /\ dir \in {0, 1}
    /\ key = KeyOf[o] /\ Way(kid, key, pass, P, w)
    /\ j \in Nat /\ c \in Bits /\ Joins(below, crit, P, key) /\ Parts(below, w, dir, key, j, c)
    /\ below[w] # {} /\ kid[w] # None
    /\ Inserted(kid, kid2, live, w, new, dir, o)
    /\ otherbits \in [Node -> SUBSET Bits]
    /\ at2 = [byte EXCEPT ![new] = j] /\ ob2 = [otherbits EXCEPT ![new] = Bits \ {c}]

\* InsertBefore(): the result is a trie of the objects and the new one.
LEMMA InsertKeyed ==
    ASSUME NEW kid, NEW rank, NEW below, NEW crit, NEW objs, NEW o, NEW new, NEW dir, NEW pass,
           NEW P, NEW w, NEW key, NEW j, NEW c, NEW kid2, NEW at2, NEW ob2,
           InsertSite(kid, rank, below, crit, objs, o, new, dir, pass, P, w, key, j, c, kid2, at2, ob2)
    PROVE  KeyedTrie(kid2, live \cup {new}, objs \cup {o}, at2, ob2)
<1>0. /\ live \subseteq Node /\ Forest(kid, rank, live) /\ objs \subseteq Object /\ objs # {}
      /\ Keyed(kid, below, crit, byte, live, objs) /\ Critical(crit, live, otherbits)
      /\ o \in Object \ objs /\ new \in Node \ live /\ dir \in {0, 1}
      /\ key = KeyOf[o] /\ Way(kid, key, pass, P, w)
      /\ j \in Nat /\ c \in Bits /\ Joins(below, crit, P, key) /\ Parts(below, w, dir, key, j, c)
      /\ below[w] # {} /\ kid[w] # None
      /\ Inserted(kid, kid2, live, w, new, dir, o)
      /\ otherbits \in [Node -> SUBSET Bits]
      /\ at2 = [byte EXCEPT ![new] = j] /\ ob2 = [otherbits EXCEPT ![new] = Bits \ {c}]
  BY DEF InsertSite
<1> USE <1>0
<1>1. PICK a, b : a = <<new, dir>> /\ b = <<new, 1 - dir>>
  OBVIOUS
<1>2. /\ \A t \in Slots(live) : t # a /\ t # b /\ t \in Slots(Node)
      /\ a \in Slots(Node) /\ b \in Slots(Node) /\ a # b
  BY <1>1, MoreSlots
<1>3. w \in P /\ P \subseteq Slots(live)
  BY DEF Way
<1>4. PICK below2 : below2 = [s \in Slots(Node) |-> IF s = a THEN below[w] ELSE IF s = b THEN {o}
                                  ELSE IF s \in P THEN below[s] \cup {o} ELSE below[s]]
  OBVIOUS
<1>5. /\ below2[a] = below[w] /\ below2[b] = {o}
      /\ \A s \in Slots(live) : below2[s] = IF s \in P THEN below[s] \cup {o} ELSE below[s]
  BY <1>2, <1>4
<1>6. BelowInserted(below, below2, P, w, new, dir, o)
  BY <1>1, <1>5 DEF BelowInserted
<1>7. below2 \in [Slots(Node) -> SUBSET (objs \cup {o})]
  <2>1. \A s \in Slots(Node) : below[s] \subseteq objs
    BY DEF Keyed, Gathers
  <2>2. below[w] \subseteq objs
    BY <1>2, <1>3, <2>1
  <2>3. \A s \in Slots(Node) : below2[s] \in SUBSET (objs \cup {o})
    BY <1>4, <2>1, <2>2
  <2> QED BY <1>4, <2>3
<1>8. PICK crit2 : crit2 = [crit EXCEPT ![new] = c]
  OBVIOUS
<1>9. Gathers(kid, below, live, objs) /\ crit \in [Node -> Bits] /\ byte \in [Node -> Nat]
  BY DEF Keyed
<1>10. Splits(below, crit, byte, live) /\ Shares(below, crit, byte, live)
  BY DEF Keyed
<1>11. Once(kid, live) /\ Counted(live, objs)
  BY DEF Keyed
<1>12. Gathers(kid2, below2, live \cup {new}, objs \cup {o})
  <2>1. GatherSite(kid, rank, below, objs, o, new, dir, key, pass, P, w, kid2, below2)
    BY <1>6, <1>7, <1>9 DEF GatherSite
  <2> QED BY <2>1, InsertGathers
<1>13. /\ crit2 \in [Node -> Bits] /\ at2 \in [Node -> Nat]
       /\ Splits(below2, crit2, at2, live \cup {new}) /\ Shares(below2, crit2, at2, live \cup {new})
  <2>1. SplitSite(below, crit, o, new, dir, P, w, key, j, c, below2, crit2, at2)
    BY <1>3, <1>6, <1>8, <1>9, <1>10 DEF SplitSite
  <2> QED BY <2>1, InsertSplits
<1>14. Once(kid2, live \cup {new}) /\ Counted(live \cup {new}, objs \cup {o})
  <2>1. \A s \in Slots(live) : kid[s] \in Object => kid[s] \in objs
    <3> SUFFICES ASSUME NEW s \in Slots(live), kid[s] \in Object PROVE kid[s] \in objs
      OBVIOUS
    <3>1. below[s] = {kid[s]} /\ below[s] \subseteq objs
      BY <1>2, <1>9 DEF Gathers
    <3> QED BY <3>1
  <2> QED BY <1>3, <1>11, <2>1, InsertOnce
<1>15. Keyed(kid2, below2, crit2, at2, live \cup {new}, objs \cup {o})
  BY <1>12, <1>13, <1>14 DEF Keyed
<1>16. Critical(crit2, live \cup {new}, ob2)
  BY <1>8, <1>9 DEF Critical
<1> QED BY <1>15, <1>16 DEF KeyedTrie

\* What shl_trie_remove() does to the forest when it removes the object x and
\* the node n above it.
RemoveSite(kid, rank, below, crit, objs, n, i, x, w, kid2) ==
    /\ live \subseteq Node /\ Forest(kid, rank, live) /\ objs \subseteq Object
    /\ Keyed(kid, below, crit, byte, live, objs)
    /\ n \in live /\ i \in {0, 1} /\ x \in objs /\ kid[<<n, 1 - i>>] = x
    /\ w \in Slots(live) /\ w[1] # n /\ kid[w] = n
    /\ Removed(kid, kid2, live, w, <<n, i>>)

\* The slots that are left, and what they hold.
LEMMA RemoveSlots ==
    ASSUME NEW kid, NEW rank, NEW below, NEW crit, NEW objs, NEW n, NEW i, NEW x, NEW w, NEW kid2,
           RemoveSite(kid, rank, below, crit, objs, n, i, x, w, kid2)
    PROVE  /\ \A t \in Slots(live) : t \in Slots(live \ {n}) \/ t = <<n, i>> \/ t = <<n, 1 - i>>
           /\ \A t \in Slots(live \ {n}) : t \in Slots(live) /\ t # <<n, i>> /\ t # <<n, 1 - i>>
           /\ \A t \in Slots(live \ {n}) : t # w => kid[t] # n /\ kid[t] # x /\ kid2[t] = kid[t]
           /\ w \in Slots(live \ {n}) /\ kid2[w] = kid[<<n, i>>] /\ kid[<<n, i>>] # n
           /\ x \notin below[<<n, i>>] /\ below[w] = below[<<n, i>>] \cup {x}
           /\ <<n, i>> \in Slots(live)
<1>0. /\ live \subseteq Node /\ Forest(kid, rank, live) /\ objs \subseteq Object
      /\ Keyed(kid, below, crit, byte, live, objs)
      /\ n \in live /\ i \in {0, 1} /\ x \in objs /\ kid[<<n, 1 - i>>] = x
      /\ w \in Slots(live) /\ w[1] # n /\ kid[w] = n
      /\ Removed(kid, kid2, live, w, <<n, i>>)
  BY DEF RemoveSite
<1> USE <1>0
<1>1. PICK u, v : u = <<n, 1 - i>> /\ v = <<n, i>>
  OBVIOUS
<1>2. u[1] = n /\ v[1] = n /\ u \in Slots(live) /\ v \in Slots(live) /\ u # v
  BY <1>1 DEF Slots
<1>3. ASSUME NEW t \in Slots(live) PROVE t \in Slots(live \ {n}) \/ t = v \/ t = u
  <2>1. CASE t = RootSlot
    BY <2>1 DEF Slots
  <2>2. CASE t # RootSlot
    <3>1. PICK m \in live, k \in {0, 1} : t = <<m, k>>
      BY <2>2 DEF Slots
    <3>2. m # n => t \in Slots(live \ {n})
      BY <3>1 DEF Slots
    <3>3. k = i \/ k = 1 - i
      OBVIOUS
    <3> QED BY <1>1, <3>1, <3>2, <3>3
  <2> QED BY <2>1, <2>2
<1>4. ASSUME NEW t \in Slots(live \ {n}) PROVE t \in Slots(live) /\ t # v /\ t # u /\ t[1] # n
  <2>1. t \in Slots(live)
    BY DEF Slots
  <2>2. t[1] # n
    BY RootIs DEF Slots
  <2> QED BY <1>2, <2>1, <2>2
<1>5. ASSUME NEW t \in Slots(live \ {n}), t # w PROVE kid[t] # n /\ kid[t] # x /\ kid2[t] = kid[t]
  <2>1. kid[t] # n
    BY <1>4, <1>5 DEF Forest
  <2>2. kid[t] # x
    BY <1>1, <1>2, <1>4 DEF Keyed, Once
  <2> QED BY <1>4, <1>5, <2>1, <2>2 DEF Removed
<1>6. w \in Slots(live \ {n})
  BY <1>1, <1>2, <1>3
<1>7. kid[v] # n
  BY <1>1 DEF Forest
<1>8. below[u] = {x} /\ below[w] = below[u] \cup below[v]
  <2>1. below[u] = {x}
    BY <1>1, <1>2 DEF Keyed, Gathers
  <2>2. below[w] = Content(below, n)
    BY DEF Keyed, Gathers
  <2>3. (i = 0 /\ 1 - i = 1) \/ (i = 1 /\ 1 - i = 0)
    OBVIOUS
  <2> QED BY <1>1, <2>1, <2>2, <2>3 DEF Content
<1>9. x \notin below[v]
  <2>1. x \in below[<<n, 1 - i>>] /\ 1 - i \in {0, 1} /\ 1 - i # i
    BY <1>1, <1>8
  <2>2. crit[n] \in ByteAt(KeyOf[x], byte[n]) <=> 1 - i = 1
    BY <2>1 DEF Keyed, Splits
  <2>3. x \in below[<<n, i>>] => (crit[n] \in ByteAt(KeyOf[x], byte[n]) <=> i = 1)
    BY DEF Keyed, Splits
  <2> QED BY <1>1, <2>1, <2>2, <2>3
<1>10. kid2[w] = kid[v]
  BY <1>1 DEF Removed
<1> QED BY <1>1, <1>2, <1>3, <1>4, <1>5, <1>6, <1>7, <1>8, <1>9, <1>10

\* shl_trie_remove(): the result is a trie of the other objects.
LEMMA RemoveKeyed ==
    ASSUME NEW kid, NEW rank, NEW below, NEW crit, NEW objs, NEW n, NEW i, NEW x, NEW w, NEW kid2,
           RemoveSite(kid, rank, below, crit, objs, n, i, x, w, kid2),
           Critical(crit, live, otherbits),
           NEW at2, at2 = [byte EXCEPT ![n] = 0], NEW ob2, ob2 = [otherbits EXCEPT ![n] = {}],
           otherbits \in [Node -> SUBSET Bits]
    PROVE  KeyedTrie(kid2, live \ {n}, objs \ {x}, at2, ob2)
<1>0. /\ live \subseteq Node /\ Forest(kid, rank, live) /\ objs \subseteq Object
      /\ Keyed(kid, below, crit, byte, live, objs)
      /\ n \in live /\ i \in {0, 1} /\ x \in objs /\ kid[<<n, 1 - i>>] = x
      /\ w \in Slots(live) /\ w[1] # n /\ kid[w] = n
  BY DEF RemoveSite
<1>1. PICK u, v : u = <<n, 1 - i>> /\ v = <<n, i>>
  OBVIOUS
<1>2. /\ \A t \in Slots(live) : t \in Slots(live \ {n}) \/ t = v \/ t = u
      /\ \A t \in Slots(live \ {n}) : t \in Slots(live) /\ t # v /\ t # u
      /\ \A t \in Slots(live \ {n}) : t # w => kid[t] # n /\ kid[t] # x /\ kid2[t] = kid[t]
      /\ w \in Slots(live \ {n}) /\ kid2[w] = kid[v] /\ kid[v] # n
      /\ x \notin below[v] /\ below[w] = below[v] \cup {x} /\ v \in Slots(live)
  <2>1. /\ \A t \in Slots(live) : t \in Slots(live \ {n}) \/ t = <<n, i>> \/ t = <<n, 1 - i>>
        /\ \A t \in Slots(live \ {n}) : t \in Slots(live) /\ t # <<n, i>> /\ t # <<n, 1 - i>>
        /\ \A t \in Slots(live \ {n}) : t # w => kid[t] # n /\ kid[t] # x /\ kid2[t] = kid[t]
        /\ w \in Slots(live \ {n}) /\ kid2[w] = kid[<<n, i>>] /\ kid[<<n, i>>] # n
        /\ x \notin below[<<n, i>>] /\ below[w] = below[<<n, i>>] \cup {x}
        /\ <<n, i>> \in Slots(live)
    BY RemoveSlots, Zenon
  <2> QED BY <1>1, <2>1, Zenon
<1>3. PICK below2 : below2 = [s \in Slots(Node) |-> below[s] \ {x}]
  OBVIOUS
<1>4. \A s \in Slots(Node) : below2[s] = below[s] \ {x}
  BY <1>3
<1>5. \A s \in Slots(live) : s \in Slots(Node)
  BY <1>0 DEF Slots
<1>6. \A m \in live : Content(below2, m) = Content(below, m) \ {x}
  <2> SUFFICES ASSUME NEW m \in live PROVE Content(below2, m) = Content(below, m) \ {x}
    OBVIOUS
  <2>1. <<m, 0>> \in Slots(Node) /\ <<m, 1>> \in Slots(Node)
    BY <1>0 DEF Slots
  <2> QED BY <1>4, <2>1 DEF Content
<1>7. Gathers(kid, below, live, objs)
  BY <1>0 DEF Keyed
<1>8. Gathers(kid2, below2, live \ {n}, objs \ {x})
  <2>1. below2 \in [Slots(Node) -> SUBSET (objs \ {x})]
    BY <1>3, <1>7 DEF Gathers
  <2>2. below2[RootSlot] = objs \ {x}
    BY <1>4, <1>7 DEF Gathers, Slots
  <2>3. ASSUME NEW s \in Slots(live \ {n})
        PROVE  /\ kid2[s] = None => below2[s] = {}
               /\ kid2[s] \in Object => below2[s] = {kid2[s]}
               /\ kid2[s] \in Node => kid2[s] \in live \ {n} /\ below2[s] = Content(below2, kid2[s])
    <3>1. PICK r : r = IF s = w THEN v ELSE s
      OBVIOUS
    <3>2. r \in Slots(live) /\ kid2[s] = kid[r] /\ kid[r] # n
      BY <1>2, <3>1
    <3>3. below2[s] = below[r] \ {x}
      <4>1. below2[s] = below[s] \ {x}
        BY <1>2, <1>4, <1>5
      <4> QED BY <1>2, <3>1, <4>1
    <3>4. kid[r] = None => below[r] = {}
      BY <1>7, <3>2 DEF Gathers
    <3>5. kid[r] \in Object => below[r] = {kid[r]} /\ kid[r] # x
      <4>1. kid[r] \in Object => below[r] = {kid[r]}
        BY <1>7, <3>2 DEF Gathers
      <4>2. CASE s = w
        BY <1>2, <3>1, <4>1, <4>2
      <4>3. CASE s # w
        BY <1>2, <3>1, <4>1, <4>3
      <4> QED BY <4>2, <4>3
    <3>6. kid[r] \in Node => kid[r] \in live /\ below[r] = Content(below, kid[r])
      BY <1>7, <3>2 DEF Gathers
    <3>7. kid[r] \in Node => kid[r] \in live \ {n} /\ below2[s] = Content(below2, kid[r])
      BY <1>6, <3>2, <3>3, <3>6
    <3> QED BY <3>2, <3>3, <3>4, <3>5, <3>7
  <2> QED BY <2>1, <2>2, <2>3 DEF Gathers
<1>9. Splits(below, crit, byte, live)
  BY <1>0 DEF Keyed
<1>10. \A m \in live \ {n} : at2[m] = byte[m]
  BY <1>0 DEF Keyed
<1>11. ASSUME NEW m \in live \ {n}, NEW k \in {0, 1}
       PROVE  /\ below2[<<m, k>>] # {}
              /\ \A o \in below2[<<m, k>>] : crit[m] \in ByteAt(KeyOf[o], at2[m]) <=> k = 1
  <2>1. PICK s : s = <<m, k>>
    OBVIOUS
  <2>2. s \in Slots(live \ {n}) /\ s \in Slots(live) /\ s \in Slots(Node)
    BY <1>2, <1>5, <2>1 DEF Slots
  <2>3. below2[s] = below[s] \ {x}
    BY <1>4, <2>2
  <2>4. \A o \in below[s] : crit[m] \in ByteAt(KeyOf[o], byte[m]) <=> k = 1
    BY <1>9, <2>1 DEF Splits
  <2>5. below2[s] # {}
    <3>1. CASE s = w
      <4>1. below[v] # {}
        BY <1>0, <1>1, <1>9 DEF Splits
      <4> QED BY <1>2, <2>3, <3>1, <4>1
    <3>2. CASE s # w /\ kid[s] \in Node
      <4>1. PICK q \in live : q = kid[s] /\ below[s] = Content(below, q)
        BY <1>7, <2>2, <3>2 DEF Gathers
      <4>2. PICK y \in below[<<q, 0>>] : ~(crit[q] \in ByteAt(KeyOf[y], byte[q]))
        <5>1. /\ below[<<q, 0>>] # {}
              /\ \A r \in below[<<q, 0>>] : crit[q] \in ByteAt(KeyOf[r], byte[q]) <=> 0 = 1
          BY <1>9, <4>1 DEF Splits
        <5> QED BY <5>1
      <4>3. PICK z \in below[<<q, 1>>] : crit[q] \in ByteAt(KeyOf[z], byte[q])
        <5>1. /\ below[<<q, 1>>] # {}
              /\ \A r \in below[<<q, 1>>] : crit[q] \in ByteAt(KeyOf[r], byte[q]) <=> 1 = 1
          BY <1>9, <4>1 DEF Splits
        <5> QED BY <5>1
      <4>4. y # z /\ y \in below[s] /\ z \in below[s]
        BY <4>1, <4>2, <4>3 DEF Content
      <4> QED BY <2>3, <4>4
    <3>3. CASE s # w /\ kid[s] \notin Node
      <4>1. kid[s] \in Object
        BY <1>0, <2>1, <3>3 DEF Forest
      <4>2. below[s] = {kid[s]} /\ kid[s] # x
        BY <1>2, <1>7, <2>2, <3>3, <4>1 DEF Gathers
      <4> QED BY <2>3, <4>2
    <3> QED BY <3>1, <3>2, <3>3
  <2> QED BY <1>10, <2>1, <2>3, <2>4, <2>5
<1>12. Shares(below2, crit, at2, live \ {n})
  <2>1. Shares(below, crit, byte, live)
    BY <1>0 DEF Keyed
  <2> QED BY <1>6, <1>10, <2>1 DEF Shares
<1>13. Once(kid2, live \ {n})
  <2>1. \A s, t \in Slots(live) : kid[s] \in Object /\ kid[s] = kid[t] => s = t
    BY <1>0 DEF Keyed, Once
  <2>2. ASSUME NEW s \in Slots(live \ {n}), NEW t \in Slots(live \ {n}), kid2[s] \in Object, kid2[s] = kid2[t]
        PROVE  s = t
    BY <1>2, <2>1, <2>2
  <2>3. ASSUME NEW m \in live \ {n} PROVE \E s \in Slots(live \ {n}) : kid2[s] = m
    <3>1. PICK s \in Slots(live) : kid[s] = m
      BY <1>0 DEF Keyed, Once
    <3>2. s # u
      BY <1>0, <1>1, <3>1, TrieAssumption
    <3>3. CASE s = v
      BY <1>2, <3>1, <3>3
    <3>4. CASE s \in Slots(live \ {n})
      BY <1>0, <1>2, <3>1, <3>4
    <3> QED BY <1>2, <3>2, <3>3, <3>4
  <2> QED BY <2>2, <2>3 DEF Once
<1>14. Counted(live \ {n}, objs \ {x})
  <2>1. IsFiniteSet(live) /\ IsFiniteSet(objs) /\ Cardinality(objs) = Cardinality(live) + 1
    BY <1>0, FS_Subset, TrieAssumption DEF Keyed, Counted
  <2>2. IsFiniteSet(objs \ {x}) /\ Cardinality(objs \ {x}) = Cardinality(objs) - 1
    BY <1>0, <2>1, FS_RemoveElement
  <2>3. Cardinality(live \ {n}) = Cardinality(live) - 1
    BY <1>0, <2>1, FS_RemoveElement
  <2>4. objs \ {x} # {}
    <3>1. PICK y \in below[v] : TRUE
      BY <1>0, <1>1, <1>9 DEF Splits
    <3>2. below[v] \subseteq objs
      BY <1>2, <1>5, <1>7 DEF Gathers
    <3> QED BY <1>2, <3>1, <3>2
  <2>5. Cardinality(live) \in Nat
    BY <2>1, FS_CardinalityType
  <2> QED BY <2>1, <2>2, <2>3, <2>4, <2>5 DEF Counted
<1>15. crit \in [Node -> Bits] /\ at2 \in [Node -> Nat]
  BY <1>0 DEF Keyed
<1>16. Splits(below2, crit, at2, live \ {n})
  BY <1>11 DEF Splits
<1>17. Keyed(kid2, below2, crit, at2, live \ {n}, objs \ {x})
  BY <1>8, <1>12, <1>13, <1>14, <1>15, <1>16 DEF Keyed
<1>18. Critical(crit, live \ {n}, ob2)
  BY <1>0 DEF Critical
<1> QED BY <1>17, <1>18 DEF KeyedTrie

(***************************************************************************)
(* Where a visit with a prefix starts                                      *)
(***************************************************************************)

\* The objects that x leads to.
Within(below, x) == IF x \in Node THEN Content(below, x) ELSE IF x \in Object THEN {x} ELSE {}

\* These are the objects below the slot that holds it.
LEMMA WithinIs ==
    ASSUME NEW kid, NEW below, NEW nodes, NEW objs, Gathers(kid, below, nodes, objs),
           NEW s \in Slots(nodes), kid[s] \in Target
    PROVE  below[s] = Within(below, kid[s])
<1>1. CASE kid[s] \in Node
  BY <1>1 DEF Gathers, Within
<1>2. CASE kid[s] \in Object
  <2>1. kid[s] \notin Node
    BY <1>2, TrieAssumption
  <2> QED BY <1>2, <2>1 DEF Gathers, Within
<1>3. CASE kid[s] = None
  BY <1>3, TrieAssumption DEF Gathers, Within
<1> QED BY <1>1, <1>2, <1>3 DEF Target

\* All objects below the node that the slot s belongs to have the prefix.
AllMatch(below, prefix, s) ==
    s # RootSlot /\ \A q \in Content(below, s[1]) : Matches(prefix, KeyOf[q])

\* Keys that agree with one that has the prefix, and differ from it only
\* behind the prefix, have it too.
LEMMA MatchesToo ==
    ASSUME NEW prefix \in Key, NEW k, NEW l, NEW j \in Nat, NEW c, Agree(k, l, j, c),
           Matches(prefix, l), j >= Len(prefix)
    PROVE  Matches(prefix, k)
<1> SUFFICES ASSUME NEW i \in 0..(Len(prefix) - 1) PROVE ByteAt(k, i) = ByteAt(prefix, i)
  BY DEF Matches
<1>1. Len(prefix) \in Nat
  BY ByteIs
<1>2. i \in Nat /\ i < j
  BY <1>1
<1>3. ByteAt(k, i) = ByteAt(l, i)
  BY <1>2 DEF Agree
<1> QED BY <1>3 DEF Matches

\* An object with the prefix is below the slots of the path of the prefix up to
\* a node below which all objects have it.
LEMMA PrefixPath ==
    ASSUME NEW kid, Whole(kid, childs, live), NEW below, NEW crit, NEW objs,
           Keyed(kid, below, crit, byte, live, objs), Critical(crit, live, otherbits),
           live \subseteq Node, objs \subseteq Object,
           NEW prefix \in Key, NEW o \in objs, Matches(prefix, KeyOf[o])
    PROVE  \A s \in Track(prefix, Node) : o \in below[s] \/ AllMatch(below, prefix, s)
<1>1. PICK T : T = {s \in Slots(live) : o \in below[s] \/ AllMatch(below, prefix, s)}
  OBVIOUS
<1>2. RootSlot \in T
  BY <1>1 DEF Keyed, Gathers, Slots
<1>3. Len(prefix) \in Nat
  BY ByteIs
<1>4. ASSUME NEW s \in T \cap Slots(live), kid[s] \in Node, kid[s] \in Node
      PROVE  Further(kid, prefix, s) \in T
  <2>1. PICK n \in live : n = kid[s] /\ below[s] = Content(below, n)
    BY <1>4 DEF Keyed, Gathers
  <2>2. PICK f : f = <<n, Direction(n, prefix)>>
    OBVIOUS
  <2>3. f = Further(kid, prefix, s) /\ f \in Slots(live) /\ f[1] = n /\ f # RootSlot
    BY <2>1, <2>2, DirectionIs, RootIs DEF Further, Slots
  <2>4. byte[n] \in Nat
    BY DEF Keyed
  <2>5. CASE o \in below[s] /\ byte[n] < Len(prefix)
    <3>1. byte[n] \in 0..(Len(prefix) - 1)
      BY <1>3, <2>4, <2>5
    <3>2. ByteAt(KeyOf[o], byte[n]) = ByteAt(prefix, byte[n])
      BY <3>1 DEF Matches
    <3>3. o \in Content(below, n)
      BY <2>1, <2>5
    <3>4. o \in below[f]
      BY <2>2, <3>2, <3>3, SameSide
    <3> QED BY <1>1, <2>3, <3>4
  <2>6. CASE o \in below[s] /\ ~(byte[n] < Len(prefix))
    <3>1. ASSUME NEW q \in Content(below, n) PROVE Matches(prefix, KeyOf[q])
      <4>1. Agree(KeyOf[q], KeyOf[o], byte[n], crit[n])
        BY <2>1, <2>6 DEF Keyed, Shares
      <4>2. byte[n] >= Len(prefix)
        BY <1>3, <2>4, <2>6
      <4> QED BY <2>4, <4>1, <4>2, MatchesToo
    <3>2. AllMatch(below, prefix, f)
      BY <2>3, <3>1 DEF AllMatch
    <3> QED BY <1>1, <2>3, <3>2
  <2>7. CASE AllMatch(below, prefix, s)
    <3>1. PICK m \in live, i \in {0, 1} : s = <<m, i>>
      BY <1>4, <2>7 DEF AllMatch, Slots
    <3>2. below[s] \subseteq Content(below, m) /\ s[1] = m
      BY <3>1 DEF Content
    <3>3. AllMatch(below, prefix, f)
      BY <2>1, <2>3, <2>7, <3>2 DEF AllMatch
    <3> QED BY <1>1, <2>3, <3>3
  <2> QED BY <1>1, <2>5, <2>6, <2>7
<1>5. \A i \in 0..Depth : Path(prefix, Node)[i] \in T
  BY <1>2, <1>4, PathIn
<1> QED BY <1>1, <1>5 DEF Track

\* If any object has the prefix, the one that the prefix leads to has it.
LEMMA ClosestMatches ==
    ASSUME NEW kid, NEW rank, Forest(kid, rank, live), Whole(kid, childs, live),
           NEW below, NEW crit, NEW objs,
           Keyed(kid, below, crit, byte, live, objs), Critical(crit, live, otherbits),
           live \subseteq Node, objs \subseteq Object,
           NEW prefix \in Key, NEW o \in objs, Matches(prefix, KeyOf[o])
    PROVE  Matches(prefix, KeyOf[Closest(prefix)])
<1>1. PICK w, e : w = ClosestSlot(prefix) /\ e = Closest(prefix)
  OBVIOUS
<1>2. w \in Slots(live) /\ below[w] = {e}
  BY <1>1, ClosestIs
<1>3. w \in Track(prefix, Node)
  <2>1. w = Path(prefix, Node)[Depth] /\ Depth \in 0..Depth
    BY <1>1, DepthNat DEF ClosestSlot, LastOf, Depth
  <2> QED BY <2>1 DEF Track
<1>4. o \in below[w] \/ AllMatch(below, prefix, w)
  BY <1>3, PrefixPath
<1>5. CASE o \in below[w]
  BY <1>1, <1>2, <1>5
<1>6. CASE AllMatch(below, prefix, w)
  <2>1. PICK m \in live, i \in {0, 1} : w = <<m, i>>
    BY <1>2, <1>6 DEF AllMatch, Slots
  <2>2. e \in Content(below, m) /\ w[1] = m
    BY <1>2, <2>1 DEF Content
  <2> QED BY <1>1, <1>6, <2>2 DEF AllMatch
<1> QED BY <1>4, <1>5, <1>6

\* A slot at which the path of the prefix leaves the bytes of the prefix has
\* exactly the objects with the prefix below it.
LEMMA TopGathers ==
    ASSUME NEW kid, NEW rank, Forest(kid, rank, live), Whole(kid, childs, live),
           NEW below, NEW crit, NEW objs,
           Keyed(kid, below, crit, byte, live, objs), Critical(crit, live, otherbits),
           live \subseteq Node, objs \subseteq Object, objs # {},
           NEW prefix \in Key, Matches(prefix, KeyOf[Closest(prefix)]),
           NEW s \in Track(prefix, Node), s \in Slots(live),
           s # RootSlot => byte[s[1]] < Len(prefix),
           kid[s] \in Node => byte[kid[s]] >= Len(prefix)
    PROVE  below[s] = {o \in objs : Matches(prefix, KeyOf[o])}
<1>1. PICK e : e = Closest(prefix)
  OBVIOUS
<1>2. e \in below[s]
  <2>1. Gathers(kid, below, live, objs)
    BY DEF Keyed
  <2>2. below[LastOf(Path(prefix, Node))] \subseteq below[s]
    BY <2>1, PathGathers
  <2>3. below[ClosestSlot(prefix)] = {Closest(prefix)}
    BY ClosestIs
  <2> QED BY <1>1, <2>2, <2>3 DEF ClosestSlot
<1>3. below[s] \subseteq objs
  <2>1. s \in Slots(Node)
    BY DEF Slots
  <2> QED BY <2>1 DEF Keyed, Gathers
<1>4. ASSUME NEW o \in below[s] PROVE Matches(prefix, KeyOf[o])
  <2>1. CASE kid[s] \in Node
    <3>1. PICK m \in live : m = kid[s] /\ below[s] = Content(below, m)
      BY <2>1 DEF Keyed, Gathers
    <3>2. Agree(KeyOf[o], KeyOf[e], byte[m], crit[m])
      BY <1>2, <1>4, <3>1 DEF Keyed, Shares
    <3>3. byte[m] >= Len(prefix) /\ byte[m] \in Nat
      BY <2>1, <3>1 DEF Keyed
    <3> QED BY <1>1, <3>2, <3>3, MatchesToo
  <2>2. CASE kid[s] \in Object
    BY <1>1, <1>2, <1>4, <2>2 DEF Keyed, Gathers
  <2>3. CASE kid[s] = None
    BY <1>4, <2>3 DEF Keyed, Gathers
  <2>4. kid[s] \in Target
    BY DEF Forest, Slots
  <2> QED BY <2>1, <2>2, <2>3, <2>4 DEF Target
<1>5. ASSUME NEW o \in objs, Matches(prefix, KeyOf[o]) PROVE o \in below[s]
  <2> SUFFICES ASSUME AllMatch(below, prefix, s) PROVE FALSE
    BY <1>5, PrefixPath
  <2>1. PICK n \in live, i \in {0, 1} : s = <<n, i>>
    BY DEF AllMatch, Slots
  <2>2. byte[n] \in 0..(Len(prefix) - 1)
    <3>1. byte[n] < Len(prefix) /\ byte[n] \in Nat /\ Len(prefix) \in Nat
      BY <2>1, ByteIs DEF AllMatch, Keyed
    <3> QED BY <3>1
  <2>3. ASSUME NEW q \in Content(below, n) PROVE ByteAt(KeyOf[q], byte[n]) = ByteAt(prefix, byte[n])
    <3>1. Matches(prefix, KeyOf[q])
      BY <2>1 DEF AllMatch
    <3> QED BY <2>2, <3>1 DEF Matches
  <2>4. PICK y : y \in below[<<n, 0>>]
    BY DEF Keyed, Splits
  <2>5. PICK z : z \in below[<<n, 1>>]
    BY DEF Keyed, Splits
  <2>6. y \in Content(below, n) /\ z \in Content(below, n)
    BY <2>4, <2>5 DEF Content
  <2>7. (crit[n] \in ByteAt(KeyOf[y], byte[n]) <=> 0 = 1) /\ (crit[n] \in ByteAt(KeyOf[z], byte[n]) <=> 1 = 1)
    BY <2>4, <2>5 DEF Keyed, Splits
  <2> QED BY <2>3, <2>6, <2>7
<1> QED BY <1>3, <1>4, <1>5

\* VisitStart: a visit with a prefix starts at the sub-trie of the objects
\* whose keys have it, or not at all when there are none.
LEMMA VisitFinds ==
    ASSUME NEW kid, NEW rank, Forest(kid, rank, live), Whole(kid, childs, live),
           NEW below, NEW crit,
           Keyed(kid, below, crit, byte, live, stored), Critical(crit, live, otherbits),
           live \subseteq Node, stored \subseteq Object,
           NEW prefix \in Key, prefix # << >>
    PROVE  \E x \in Target : /\ VisitStart(prefix) = To(x) /\ (x \in Node => x \in live)
                             /\ Within(below, x) = Matching(prefix)
<1>1. Matching(prefix) = {o \in stored : Matches(prefix, KeyOf[o])}
  <2>1. \A o \in stored : IsPrefix(prefix, KeyOf[o]) <=> Matches(prefix, KeyOf[o])
    <3> SUFFICES ASSUME NEW o \in stored PROVE IsPrefix(prefix, KeyOf[o]) <=> Matches(prefix, KeyOf[o])
      OBVIOUS
    <3>1. KeyOf[o] \in Key
      BY TrieAssumption
    <3> QED BY <3>1, PrefixBytes
  <2> QED BY <2>1 DEF Matching
<1>2. Within(below, None) = {} /\ None \in Target /\ None \notin Node
  BY TrieAssumption DEF Within, Target
<1>3. root = Null <=> stored = {}
  BY EmptyIs
<1>4. CASE root = Null
  <2>1. VisitStart(prefix) = Null /\ Matching(prefix) = {}
    BY <1>1, <1>3, <1>4 DEF VisitStart
  <2> QED BY <1>2, <2>1 DEF Null
<1>5. CASE root # Null /\ ~Matches(prefix, KeyOf[Closest(prefix)])
  <2>1. VisitStart(prefix) = Null
    BY <1>5 DEF VisitStart, Matches
  <2>2. Matching(prefix) = {}
    BY <1>1, <1>5, ClosestMatches
  <2> QED BY <1>2, <2>1, <2>2 DEF Null
<1>6. CASE root # Null /\ Matches(prefix, KeyOf[Closest(prefix)])
  <2>1. PICK p : p = Path(prefix, Node)
    OBVIOUS
  <2>2. IsPath(kid, p, prefix, Node) /\ ~GoesOn(kid, p, Node, Depth)
    BY <2>1, PathIsPath, PathEnds
  <2>3. DOMAIN p = 0..Depth
    <3>1. Follows(p, prefix, Node)
      BY <2>1, PathIs
    <3> QED BY <3>1 DEF Follows
  <2>4. PICK common : common = {0} \cup {i \in DOMAIN p : p[i] # RootSlot /\ byte[p[i][1]] < Len(prefix)}
    OBVIOUS
  <2>5. common \subseteq 0..Depth /\ common # {}
    BY <2>3, <2>4, DepthNat
  <2>6. PICK m : m = Max(common)
    OBVIOUS
  <2>7. m \in common /\ m \in 0..Depth /\ \A i \in common : m >= i
    BY <2>5, <2>6, DepthNat, MaxIn
  <2>8. PICK s : s = p[m]
    OBVIOUS
  <2>9. s \in Slots(live) /\ s \in Track(prefix, Node)
    BY <2>1, <2>2, <2>7, <2>8 DEF IsPath, Track
  <2>10. VisitStart(prefix) = At(s)
    <3>1. prefix # << >> /\ root # Null
      BY <1>6
    <3>2. VisitStart(prefix) = TopOf(Path(prefix, Node), Len(prefix))
      BY <1>6, <3>1 DEF VisitStart, Matches
    <3> QED BY <2>1, <2>4, <2>6, <2>8, <3>2, Zenon DEF TopOf
  <2>11. s # RootSlot => byte[s[1]] < Len(prefix)
    <3>1. m = 0 => s = RootSlot
      BY <2>2, <2>8 DEF IsPath
    <3> QED BY <2>4, <2>7, <2>8, <3>1
  <2>12. ASSUME kid[s] \in Node PROVE byte[kid[s]] >= Len(prefix)
    <3>1. GoesOn(kid, p, Node, m)
      BY <2>8, <2>12 DEF GoesOn
    <3>2. m # Depth
      BY <2>2, <3>1
    <3>3. m \in Nat /\ m + 1 \in 0..Depth /\ m + 1 \in Nat
      BY <2>7, <3>2, DepthNat
    <3>4. p[m + 1] = Further(kid, prefix, s)
      BY <2>2, <2>8, <3>1, <3>3 DEF IsPath
    <3>5. p[m + 1][1] = kid[s] /\ p[m + 1] # RootSlot
      BY <2>12, <3>4, RootIs DEF Further, RootSlot
    <3>6. m + 1 \notin common
      BY <2>7, <3>3
    <3>7. ~(byte[kid[s]] < Len(prefix))
      BY <2>3, <2>4, <3>3, <3>5, <3>6
    <3>8. byte[kid[s]] \in Nat /\ Len(prefix) \in Nat
      BY <2>12, ByteIs DEF Keyed
    <3> QED BY <3>7, <3>8
  <2>13. below[s] = {o \in stored : Matches(prefix, KeyOf[o])}
    BY <1>3, <1>6, <2>9, <2>11, <2>12, TopGathers
  <2>14. At(s) = To(kid[s]) /\ (kid[s] \in Node => kid[s] \in live)
    BY <2>9, Zenon DEF Whole, At, In
  <2>15. kid[s] \in Target
    BY <2>9 DEF Forest, Slots
  <2>16. below[s] = Within(below, kid[s])
    BY <2>9, <2>15, WithinIs DEF Keyed
  <2> QED BY <1>1, <2>10, <2>13, <2>14, <2>15, <2>16
<1> QED BY <1>4, <1>5, <1>6

(***************************************************************************)
(* The traversal: the way back is a stack of nodes st[1], ..., st[d], each *)
(* of which hides its child dir[k] behind a marked pointer to the one      *)
(* before.                                                                 *)
(***************************************************************************)

\* The marked pointer that shows the way back.
Back(x) == [to |-> x, mark |-> TRUE]

\* Marking a pointer and clearing its mark undo each other.
LEMMA Marking ==
    \A x : /\ shl_trie_mark_visited(To(x)) = Back(x)
           /\ shl_trie_clear_visited(Back(x)) = To(x)
           /\ shl_trie_clear_visited(To(x)) = To(x)
           /\ Back(x).to = x /\ Back(x).mark = TRUE
<1> SUFFICES ASSUME NEW x
             PROVE  /\ shl_trie_mark_visited(To(x)) = Back(x)
                    /\ shl_trie_clear_visited(Back(x)) = To(x)
                    /\ shl_trie_clear_visited(To(x)) = To(x)
                    /\ Back(x).to = x /\ Back(x).mark = TRUE
  OBVIOUS
<1>1. ASSUME NEW m \in BOOLEAN, NEW v \in BOOLEAN
      PROVE  [[to |-> x, mark |-> m] EXCEPT !.mark = v] = [to |-> x, mark |-> v]
  <2>1. PICK r : r = [to |-> x, mark |-> m]
    OBVIOUS
  <2>2. r \in [to : {x}, mark : BOOLEAN]
    BY <2>1
  <2>3. PICK q : q = [r EXCEPT !.mark = v]
    OBVIOUS
  <2>4. q \in [to : {x}, mark : BOOLEAN] /\ q.mark = v
    BY <2>2, <2>3
  <2>5. q = [to |-> x, mark |-> v]
    BY <2>4
  <2> QED BY <2>1, <2>3, <2>5
<1>2. shl_trie_mark_visited(To(x)) = Back(x)
  BY <1>1, Zenon DEF shl_trie_mark_visited, To, Back
<1>3. shl_trie_clear_visited(Back(x)) = To(x) /\ shl_trie_clear_visited(To(x)) = To(x)
  BY <1>1, Zenon DEF shl_trie_clear_visited, To, Back
<1>4. Back(x).to = x /\ Back(x).mark = TRUE
  BY DEF Back
<1> QED BY <1>2, <1>3, <1>4

\* The stack, which is empty when d is 0, has no freed node in it.
StackType(nodes, st, dir, d) ==
    /\ d \in Nat /\ st \in [Nat -> Node \cup {None}] /\ dir \in [Nat -> {0, 1}]
    /\ st[0] = None /\ \A k \in 1..d : st[k] \in nodes

\* Each node in the stack is the hidden child of the one before.
Chained(kid, rank, st, dir, d) ==
    /\ \A k \in 1..d : k < d => kid[<<st[k], dir[k]>>] = st[k + 1]
    /\ \A j, k \in 1..d : j < k => rank[st[j]] < rank[st[k]]

\* The nodes in the stack hold the way back and their other child; all other
\* slots are as they were.
Hides(kid, c, nodes, st, dir, d) ==
    /\ \A k \in 1..d : /\ In(c, <<st[k], dir[k]>>) = Back(st[k - 1])
                       /\ In(c, <<st[k], 1 - dir[k]>>) = To(kid[<<st[k], 1 - dir[k]>>])
    /\ \A s \in Slots(nodes) : (\A k \in 1..d : s[1] # st[k]) => In(c, s) = To(kid[s])

\* The traversal still comes to the node in this slot.
Pending(st, dir, d, s) ==
    s # RootSlot /\ \A k \in 1..d : s[1] = st[k] => dir[k] = 0 /\ s[2] = 1

\* Nothing that it still comes to was freed; only shl_trie_clear() frees, and
\* it starts at the root.
Reachable(kid, nodes, st, dir, d, free) ==
    /\ \A s \in Slots(nodes) : kid[s] \in Node /\ (~free \/ Pending(st, dir, d, s)) => kid[s] \in nodes
    /\ free /\ d >= 1 => st[1] = kid[RootSlot]

\* All there is to say about the stack.
Stack(kid, rank, c, nodes, st, dir, d, free) ==
    /\ StackType(nodes, st, dir, d)
    /\ Chained(kid, rank, st, dir, d)
    /\ Hides(kid, c, nodes, st, dir, d)
    /\ Reachable(kid, nodes, st, dir, d, free)

\* The traversal goes down to x.
Down(kid, nodes, st, dir, d, free, x) ==
    /\ x \in Node => x \in nodes
    /\ d >= 1 => x = kid[<<st[d], dir[d]>>]
    /\ free /\ d = 0 => x = kid[RootSlot]

\* A node is not in the stack, but may be put onto it.
Outside(rank, st, d, x) == \A k \in 1..d : st[k] # x /\ rank[st[k]] < rank[x]

\* The traversal has not come to a node yet.
Fresh(kid, c, x) == \A i \in {0, 1} : In(c, <<x, i>>) = To(kid[<<x, i>>])

\* A node that the traversal goes down to is not in the stack.
LEMMA NotInStack ==
    ASSUME NEW nodes \in SUBSET Node, NEW kid, NEW rank, NEW c, NEW st, NEW dir, NEW d,
           NEW free, NEW x \in Node,
           Forest(kid, rank, nodes), Stack(kid, rank, c, nodes, st, dir, d, free),
           Down(kid, nodes, st, dir, d, free, x)
    PROVE  x \in nodes /\ Outside(rank, st, d, x) /\ Fresh(kid, c, x)
<1>1. /\ d \in Nat /\ st \in [Nat -> Node \cup {None}] /\ dir \in [Nat -> {0, 1}]
      /\ \A k \in 1..d : st[k] \in nodes
  BY DEF Stack, StackType
<1>2. rank \in [Node -> Nat \ {0}]
  BY DEF Forest
<1>3. ASSUME NEW k \in 1..d PROVE rank[st[k]] < rank[x]
  <2>1. d \in 1..d /\ d \in Nat /\ st[d] \in nodes /\ dir[d] \in {0, 1} /\ x = kid[<<st[d], dir[d]>>]
    <3>1. d >= 1 /\ d \in 1..d
      BY <1>1, <1>3
    <3> QED BY <1>1, <3>1 DEF Down
  <2>2. rank[st[d]] < rank[x]
    BY <2>1 DEF Forest
  <2>3. k # d => rank[st[k]] < rank[st[d]]
    <3>1. k # d => k < d
      BY <1>1, <1>3
    <3> QED BY <2>1, <3>1 DEF Stack, Chained
  <2>4. st[k] \in Node /\ rank[st[k]] \in Nat /\ rank[st[d]] \in Nat /\ rank[x] \in Nat
    BY <1>1, <1>2, <2>1
  <2> QED BY ONLY <2>2, <2>3, <2>4
<1>4. \A k \in 1..d : st[k] # x
  BY <1>1, <1>2, <1>3
<1>5. x \in nodes
  BY DEF Down
<1>6. ASSUME NEW i \in {0, 1} PROVE In(c, <<x, i>>) = To(kid[<<x, i>>])
  <2>1. <<x, i>> \in Slots(nodes) /\ <<x, i>>[1] = x
    BY <1>5 DEF Slots
  <2> QED BY <1>4, <2>1 DEF Stack, Hides
<1> QED BY <1>3, <1>4, <1>5, <1>6 DEF Outside, Fresh

\* The node n joins the stack, its left child hidden.
Pushed(st, dir, d, n, st2, dir2, d2) ==
    /\ d2 = d + 1 /\ st2[d2] = n /\ dir2[d2] = 0
    /\ \A k \in 1..d : st2[k] = st[k] /\ dir2[k] = dir[k]

\* The top of the stack hides its right child instead of its left one.
Turned(st, dir, d, st2, dir2, d2) ==
    /\ d2 = d /\ st2 = st /\ dir2[d] = 1
    /\ \A k \in 1..d : k # d => dir2[k] = dir[k]

\* The traversal goes down to the left child of n, or to its right one.
GoesLeft(kid, rank, c, nodes, free, st, dir, d, n) ==
    \E st2, dir2, d2 : /\ Pushed(st, dir, d, n, st2, dir2, d2)
                       /\ Stack(kid, rank, c, nodes, st2, dir2, d2, free)
                       /\ Down(kid, nodes, st2, dir2, d2, free, kid[<<n, 0>>])

\* The stack after a step to the right child of its last node.
GoesRight(kid, rank, c, nodes, free, st, dir, d, n) ==
    \E st2, dir2, d2 : /\ Turned(st, dir, d, st2, dir2, d2)
                       /\ Stack(kid, rank, c, nodes, st2, dir2, d2, free)
                       /\ Down(kid, nodes, st2, dir2, d2, free, kid[<<n, 1>>])

\* TraverseLeft(): the node joins the stack.
LEMMA GoLeft ==
    ASSUME NEW nodes \in SUBSET Node, NEW kid, NEW rank, NEW c, NEW st, NEW dir, NEW d,
           NEW free, NEW n \in Node, NEW e,
           Forest(kid, rank, nodes), Stack(kid, rank, c, nodes, st, dir, d, free),
           Down(kid, nodes, st, dir, d, free, n),
           SlotSet(c, e, <<n, 0>>, Back(st[d]))
    PROVE  GoesLeft(kid, rank, e, nodes, free, st, dir, d, n)
<1>1. /\ d \in Nat /\ st \in [Nat -> Node \cup {None}] /\ dir \in [Nat -> {0, 1}]
      /\ st[0] = None /\ \A k \in 1..d : st[k] \in nodes
  BY DEF Stack, StackType
<1>2. /\ n \in nodes /\ \A k \in 1..d : st[k] # n /\ rank[st[k]] < rank[n]
      /\ In(c, <<n, 0>>) = To(kid[<<n, 0>>]) /\ In(c, <<n, 1>>) = To(kid[<<n, 1>>])
  <2>1. n \in nodes /\ Outside(rank, st, d, n) /\ Fresh(kid, c, n)
    BY NotInStack
  <2> QED BY <2>1 DEF Outside, Fresh
<1>3. PICK a : a = <<n, 0>>
  OBVIOUS
<1>4. a \in Slots(Node) /\ a[1] = n /\ a[2] = 0
  BY <1>3 DEF Slots
<1>5. SlotSet(c, e, a, Back(st[d]))
  BY <1>3
<1>6. PICK st2, dir2, d2 : /\ st2 = [st EXCEPT ![d + 1] = n] /\ dir2 = [dir EXCEPT ![d + 1] = 0]
                           /\ d2 = d + 1
  OBVIOUS
<1>7. /\ d2 \in Nat /\ d2 = d + 1 /\ d2 - 1 = d /\ d2 \in 1..d2 /\ d2 >= 1
      /\ \A k \in 1..d2 : k = d2 \/ k \in 1..d
      /\ \A k \in 1..d : k \in 1..d2 /\ k # d2 /\ k < d2
  BY <1>1, <1>6
<1>8. /\ st2 \in [Nat -> Node \cup {None}] /\ dir2 \in [Nat -> {0, 1}]
      /\ st2[d2] = n /\ dir2[d2] = 0
      /\ \A k \in 0..d : st2[k] = st[k] /\ dir2[k] = dir[k]
  BY <1>1, <1>6
<1>9. StackType(nodes, st2, dir2, d2)
  <2>1. \A k \in 1..d : st2[k] = st[k]
    BY <1>8
  <2>2. st2[0] = None
    BY <1>1, <1>8
  <2> QED BY <1>1, <1>2, <1>7, <1>8, <2>1, <2>2 DEF StackType
<1>10. Chained(kid, rank, st2, dir2, d2)
  <2>1. ASSUME NEW k \in 1..d2, k < d2 PROVE kid[<<st2[k], dir2[k]>>] = st2[k + 1]
    <3>1. k \in 1..d /\ k + 1 \in 0..d2 /\ k \in 0..d /\ d \in 0..d
      BY <2>1, <1>1, <1>6
    <3>2. st2[k] = st[k] /\ dir2[k] = dir[k]
      BY <3>1, <1>8
    <3>3. CASE k = d
      <4>1. d >= 1 /\ st2[k + 1] = n
        BY <3>1, <3>3, <1>7, <1>8
      <4> QED BY <3>2, <3>3, <4>1 DEF Down
    <3>4. CASE k # d
      <4>1. k < d /\ k + 1 \in 0..d
        BY <3>1, <3>4, <1>1
      <4>2. kid[<<st[k], dir[k]>>] = st[k + 1]
        BY <3>1, <4>1 DEF Stack, Chained
      <4>3. st2[k + 1] = st[k + 1]
        BY <4>1, <1>8
      <4> QED BY <3>2, <4>2, <4>3
    <3> QED BY <3>3, <3>4
  <2>2. ASSUME NEW j \in 1..d2, NEW k \in 1..d2, j < k PROVE rank[st2[j]] < rank[st2[k]]
    <3>1. j \in 1..d /\ j \in 0..d /\ (k = d2 \/ (k \in 1..d /\ k \in 0..d))
      <4>1. d \in Nat /\ d2 = d + 1
        BY <1>1, <1>6
      <4> QED BY ONLY <2>2, <4>1
    <3>2. st2[j] = st[j]
      BY <3>1, <1>8
    <3>3. CASE k = d2
      BY <3>1, <3>2, <3>3, <1>2, <1>8
    <3>4. CASE k \in 1..d /\ k \in 0..d
      <4>1. st2[k] = st[k]
        BY <3>4, <1>8
      <4>2. rank[st[j]] < rank[st[k]]
        BY <2>2, <3>1, <3>4 DEF Stack, Chained
      <4> QED BY <3>2, <4>1, <4>2
    <3> QED BY <3>1, <3>3, <3>4
  <2> QED BY <2>1, <2>2 DEF Chained
<1>11. Hides(kid, e, nodes, st2, dir2, d2)
  <2>1. ASSUME NEW k \in 1..d2
        PROVE  /\ In(e, <<st2[k], dir2[k]>>) = Back(st2[k - 1])
               /\ In(e, <<st2[k], 1 - dir2[k]>>) = To(kid[<<st2[k], 1 - dir2[k]>>])
    <3>1. k = d2 \/ (k \in 1..d /\ k \in 0..d /\ k - 1 \in 0..d)
      BY <1>1, <1>6
    <3>2. CASE k = d2
      <4>1. st2[k] = n /\ dir2[k] = 0 /\ st2[k - 1] = st[d] /\ 1 - dir2[k] = 1
        <5>1. d2 - 1 = d /\ d \in 0..d
          BY <1>1, <1>6
        <5> QED BY <3>2, <5>1, <1>8
      <4>2. <<n, 1>> \in Slots(Node) /\ <<n, 1>> # a
        BY <1>3 DEF Slots
      <4>3. In(e, a) = Back(st[d]) /\ In(e, <<n, 1>>) = To(kid[<<n, 1>>])
        BY <1>2, <1>4, <1>5, <4>2 DEF SlotSet
      <4> QED BY <4>1, <4>3, <1>3
    <3>3. CASE k \in 1..d /\ k \in 0..d /\ k - 1 \in 0..d
      <4>1. /\ st2[k] = st[k] /\ dir2[k] = dir[k] /\ st2[k - 1] = st[k - 1]
            /\ st[k] \in nodes /\ dir[k] \in {0, 1} /\ 1 - dir[k] \in {0, 1} /\ st[k] # n
        BY <3>3, <1>1, <1>2, <1>8
      <4>2. /\ In(c, <<st[k], dir[k]>>) = Back(st[k - 1])
            /\ In(c, <<st[k], 1 - dir[k]>>) = To(kid[<<st[k], 1 - dir[k]>>])
        BY <3>3 DEF Stack, Hides
      <4>3. \A i \in {0, 1} : In(e, <<st[k], i>>) = In(c, <<st[k], i>>)
        <5> SUFFICES ASSUME NEW i \in {0, 1} PROVE In(e, <<st[k], i>>) = In(c, <<st[k], i>>)
          OBVIOUS
        <5>1. <<st[k], i>> \in Slots(Node) /\ <<st[k], i>> # a
          BY <4>1, <1>3 DEF Slots
        <5> QED BY <5>1, <1>5 DEF SlotSet
      <4> QED BY <4>1, <4>2, <4>3
    <3> QED BY <3>1, <3>2, <3>3
  <2>2. ASSUME NEW s \in Slots(nodes), \A k \in 1..d2 : s[1] # st2[k]
        PROVE  In(e, s) = To(kid[s])
    <3>1. s # a /\ s \in Slots(Node)
      BY <2>2, <1>4, <1>7, <1>8 DEF Slots
    <3>2. \A k \in 1..d : k \in 0..d
      OBVIOUS
    <3>3. \A k \in 1..d : s[1] # st[k]
      BY <2>2, <3>2, <1>7, <1>8
    <3>4. In(c, s) = To(kid[s])
      BY <3>3 DEF Stack, Hides
    <3> QED BY <3>1, <3>4, <1>5 DEF SlotSet
  <2> QED BY <2>1, <2>2 DEF Hides
<1>12. Reachable(kid, nodes, st2, dir2, d2, free)
  <2>1. \A k \in 1..d : k \in 0..d
    OBVIOUS
  <2>2. \A s : Pending(st2, dir2, d2, s) => Pending(st, dir, d, s)
    BY <2>1, <1>7, <1>8 DEF Pending
  <2>3. free => st2[1] = kid[RootSlot]
    <3> SUFFICES ASSUME free PROVE st2[1] = kid[RootSlot]
      OBVIOUS
    <3>1. CASE d = 0
      BY <3>1, <1>6, <1>8 DEF Down
    <3>2. CASE d # 0
      <4>1. d >= 1 /\ 1 \in 0..d
        BY <3>2, <1>1
      <4> QED BY <4>1, <1>8 DEF Stack, Reachable
    <3> QED BY <3>1, <3>2
  <2> QED BY <2>2, <2>3 DEF Stack, Reachable
<1>13. Down(kid, nodes, st2, dir2, d2, free, kid[<<n, 0>>])
  <2>1. a \in Slots(nodes) /\ a # RootSlot
    BY <1>2, <1>3, RootIs DEF Slots
  <2>2. Pending(st, dir, d, a)
    BY <2>1, <1>2, <1>4 DEF Pending
  <2>3. kid[a] \in Node => kid[a] \in nodes
    BY <2>1, <2>2 DEF Stack, Reachable
  <2>4. d2 # 0
    BY <1>7
  <2> QED BY <1>3, <1>8, <2>3, <2>4 DEF Down
<1>14. Stack(kid, rank, e, nodes, st2, dir2, d2, free)
  BY <1>9, <1>10, <1>11, <1>12 DEF Stack
<1>15. Pushed(st, dir, d, n, st2, dir2, d2)
  <2>1. \A k \in 1..d : k \in 0..d
    OBVIOUS
  <2> QED BY <1>7, <1>8, <2>1 DEF Pushed
<1> QED BY <1>13, <1>14, <1>15 DEF GoesLeft

\* A node is in the stack twice.
Repeats(st, d) == \E j, k \in 1..d : st[j] = st[k] /\ j # k

\* No node is twice in the stack.
LEMMA StackDistinct ==
    ASSUME NEW nodes \in SUBSET Node, NEW kid, NEW rank, NEW st, NEW dir, NEW d,
           rank \in [Node -> Nat \ {0}],
           StackType(nodes, st, dir, d), Chained(kid, rank, st, dir, d)
    PROVE  ~Repeats(st, d)
<1> SUFFICES ASSUME NEW j \in 1..d, NEW k \in 1..d, j # k PROVE st[j] # st[k]
  BY DEF Repeats
<1>1. d \in Nat /\ st[j] \in Node /\ st[k] \in Node
  BY DEF StackType
<1>2. rank[st[j]] \in Nat /\ rank[st[k]] \in Nat
  BY <1>1
<1>3. j < k \/ k < j
  BY <1>1
<1>4. rank[st[j]] < rank[st[k]] \/ rank[st[k]] < rank[st[j]]
  BY <1>3 DEF Chained
<1> QED BY <1>2, <1>4

\* Only slots of the node x differ.
SameBut(c, e, nodes, x) == \A s \in Slots(nodes) : s[1] # x => In(e, s) = In(c, s)

\* What Hides says of the nodes in the stack but the last.
HidesBelow(kid, e, st, dir, d) ==
    \A k \in 1..(d - 1) :
        /\ st[k] # st[d]
        /\ In(e, <<st[k], dir[k]>>) = Back(st[k - 1])
        /\ In(e, <<st[k], 1 - dir[k]>>) = To(kid[<<st[k], 1 - dir[k]>>])

\* The slots of the other nodes of the stack are not those of the top.
LEMMA BelowTop ==
    ASSUME NEW nodes \in SUBSET Node, NEW kid, NEW rank, NEW c, NEW st, NEW dir, NEW d,
           NEW free, NEW e,
           Forest(kid, rank, nodes), Stack(kid, rank, c, nodes, st, dir, d, free), d >= 1,
           SameBut(c, e, nodes, st[d])
    PROVE  HidesBelow(kid, e, st, dir, d)
<1> SUFFICES ASSUME NEW k \in 1..(d - 1)
             PROVE  /\ st[k] # st[d]
                    /\ In(e, <<st[k], dir[k]>>) = Back(st[k - 1])
                    /\ In(e, <<st[k], 1 - dir[k]>>) = To(kid[<<st[k], 1 - dir[k]>>])
  BY DEF HidesBelow
<1>1. StackType(nodes, st, dir, d) /\ d \in Nat /\ dir \in [Nat -> {0, 1}]
  BY DEF Stack, StackType
<1>2. k \in 1..d /\ d \in 1..d /\ k # d /\ k \in Nat
  BY <1>1
<1>3. st[k] # st[d]
  <2>1. Chained(kid, rank, st, dir, d) /\ rank \in [Node -> Nat \ {0}]
    BY DEF Stack, Forest
  <2>2. ~Repeats(st, d)
    BY <1>1, <2>1, StackDistinct
  <2> QED BY <1>2, <2>2 DEF Repeats
<1>4. st[k] \in nodes /\ dir[k] \in {0, 1}
  BY <1>1, <1>2 DEF StackType
<1>5. \A i \in {0, 1} : In(e, <<st[k], i>>) = In(c, <<st[k], i>>)
  <2> SUFFICES ASSUME NEW i \in {0, 1} PROVE In(e, <<st[k], i>>) = In(c, <<st[k], i>>)
    OBVIOUS
  <2>1. <<st[k], i>> \in Slots(nodes) /\ <<st[k], i>>[1] = st[k]
    BY <1>4 DEF Slots
  <2> QED BY <1>3, <2>1 DEF SameBut
<1>6. /\ In(c, <<st[k], dir[k]>>) = Back(st[k - 1])
      /\ In(c, <<st[k], 1 - dir[k]>>) = To(kid[<<st[k], 1 - dir[k]>>])
  BY <1>2 DEF Stack, Hides
<1>7. 1 - dir[k] \in {0, 1}
  BY <1>4
<1> QED BY <1>3, <1>4, <1>5, <1>6, <1>7

\* TraverseRight(): the top of the stack hides its right child instead of its
\* left one.
LEMMA GoRight ==
    ASSUME NEW nodes \in SUBSET Node, NEW kid, NEW rank, NEW c, NEW st, NEW dir, NEW d,
           NEW free, NEW n \in Node, NEW m, NEW e,
           Forest(kid, rank, nodes), Stack(kid, rank, c, nodes, st, dir, d, free),
           d >= 1, n = st[d], dir[d] = 0,
           SlotSet(c, m, <<n, 0>>, To(kid[<<n, 0>>])), SlotSet(m, e, <<n, 1>>, Back(st[d - 1]))
    PROVE  GoesRight(kid, rank, e, nodes, free, st, dir, d, n)
<1>1. /\ d \in Nat /\ st \in [Nat -> Node \cup {None}] /\ dir \in [Nat -> {0, 1}]
      /\ st[0] = None /\ (\A k \in 1..d : st[k] \in nodes) /\ StackType(nodes, st, dir, d)
  BY DEF Stack, StackType
<1>2. d \in 1..d /\ d - 1 \in Nat /\ n \in nodes
  BY <1>1
<1>3. PICK a, b : a = <<n, 0>> /\ b = <<n, 1>>
  OBVIOUS
<1>4. /\ a \in Slots(nodes) /\ b \in Slots(nodes) /\ a \in Slots(Node) /\ b \in Slots(Node) /\ a # b
      /\ a[1] = n /\ a[2] = 0 /\ b[1] = n /\ b[2] = 1 /\ a # RootSlot /\ b # RootSlot
  <2>1. a[1] = n /\ a[2] = 0 /\ b[1] = n /\ b[2] = 1 /\ a # b
    BY <1>3
  <2> QED BY <1>2, <1>3, <2>1, RootIs DEF Slots
<1>5. SlotSet(c, m, a, To(kid[a])) /\ SlotSet(m, e, b, Back(st[d - 1]))
  BY <1>3
<1>9. /\ In(e, a) = To(kid[a]) /\ In(e, b) = Back(st[d - 1])
      /\ SameBut(c, e, nodes, st[d])
  <2>1. \A s \in Slots(nodes) : s \in Slots(Node)
    BY DEF Slots
  <2> QED BY <1>4, <1>5, <2>1 DEF SlotSet, SameBut
<1>10. PICK dir2 : dir2 = [dir EXCEPT ![d] = 1]
  OBVIOUS
<1>11. /\ dir2 \in [Nat -> {0, 1}] /\ dir2[d] = 1
       /\ \A k \in 1..d : k # d => dir2[k] = dir[k]
  BY <1>1, <1>10
<1>12. StackType(nodes, st, dir2, d)
  BY <1>1, <1>11 DEF StackType
<1>13. Chained(kid, rank, st, dir2, d)
  <2>1. \A k \in 1..d : k < d => dir2[k] = dir[k]
    BY <1>1, <1>11
  <2> QED BY <2>1 DEF Stack, Chained
<1>14. Hides(kid, e, nodes, st, dir2, d)
  <2>1. HidesBelow(kid, e, st, dir, d)
    BY <1>9, BelowTop
  <2>2. ASSUME NEW k \in 1..d
        PROVE  /\ In(e, <<st[k], dir2[k]>>) = Back(st[k - 1])
               /\ In(e, <<st[k], 1 - dir2[k]>>) = To(kid[<<st[k], 1 - dir2[k]>>])
    <3>1. CASE k = d
      <4>1. 1 - dir2[d] = 0 /\ <<st[d], dir2[d]>> = b /\ <<st[d], 0>> = a
        BY <1>3, <1>11
      <4> QED BY <3>1, <4>1, <1>9
    <3>2. CASE k # d
      <4>1. k \in 1..(d - 1) /\ dir2[k] = dir[k]
        BY <3>2, <1>1, <1>11
      <4> QED BY <2>1, <4>1 DEF HidesBelow
    <3> QED BY <3>1, <3>2
  <2>3. ASSUME NEW s \in Slots(nodes), \A k \in 1..d : s[1] # st[k]
        PROVE  In(e, s) = To(kid[s])
    <3>1. In(c, s) = To(kid[s])
      BY <2>3 DEF Stack, Hides
    <3> QED BY <2>3, <3>1, <1>2, <1>9 DEF SameBut
  <2> QED BY <2>2, <2>3 DEF Hides
<1>15. Reachable(kid, nodes, st, dir2, d, free)
  <2>1. \A s : Pending(st, dir2, d, s) => Pending(st, dir, d, s)
    BY <1>2, <1>11 DEF Pending
  <2> QED BY <2>1 DEF Stack, Reachable
<1>16. Down(kid, nodes, st, dir2, d, free, kid[b])
  <2>1. \A k \in 1..d : st[k] = n => k = d
    <3>1. rank \in [Node -> Nat \ {0}]
      BY DEF Forest
    <3>2. ~Repeats(st, d)
      BY <1>1, <3>1, StackDistinct DEF Stack
    <3> QED BY <1>2, <3>2 DEF Repeats
  <2>2. Pending(st, dir, d, b)
    BY <2>1, <1>4 DEF Pending
  <2>3. kid[b] \in Node => kid[b] \in nodes
    BY <2>2, <1>4 DEF Stack, Reachable
  <2>4. d # 0
    BY <1>1
  <2> QED BY <1>3, <1>11, <2>3, <2>4 DEF Down
<1>17. Stack(kid, rank, e, nodes, st, dir2, d, free)
  BY <1>12, <1>13, <1>14, <1>15 DEF Stack
<1>18. Turned(st, dir, d, st, dir2, d)
  BY <1>11 DEF Turned
<1> QED BY <1>3, <1>16, <1>17, <1>18 DEF GoesRight

\* The last but one node of the stack hides the last one.
NextIsTop(kid, st, dir, d) == d - 1 >= 1 => kid[<<st[d - 1], dir[d - 1]>>] = st[d]

\* What is left of the stack when its top is taken off.
LEMMA Popped ==
    ASSUME NEW nodes \in SUBSET Node, NEW kid, NEW rank, NEW st, NEW dir, NEW d,
           StackType(nodes, st, dir, d), Chained(kid, rank, st, dir, d),
           rank \in [Node -> Nat \ {0}], d >= 1,
           NEW nodes2, nodes \ {st[d]} \subseteq nodes2
    PROVE  /\ StackType(nodes2, st, dir, d - 1) /\ Chained(kid, rank, st, dir, d - 1)
           /\ NextIsTop(kid, st, dir, d)
<1>1. d \in Nat /\ d - 1 \in Nat /\ d \in 1..d /\ \A k \in 1..(d - 1) : k \in 1..d /\ k # d /\ k < d
  BY DEF StackType
<1>2. \A k \in 1..(d - 1) : st[k] \in nodes2
  <2> SUFFICES ASSUME NEW k \in 1..(d - 1) PROVE st[k] \in nodes2
    OBVIOUS
  <2>1. st[k] # st[d]
    <3>1. ~Repeats(st, d)
      BY StackDistinct
    <3> QED BY <1>1, <3>1 DEF Repeats
  <2> QED BY <1>1, <2>1 DEF StackType
<1>3. Chained(kid, rank, st, dir, d - 1)
  BY <1>1 DEF Chained
<1>4. ASSUME d - 1 >= 1 PROVE kid[<<st[d - 1], dir[d - 1]>>] = st[d]
  <2>1. d - 1 \in 1..d /\ d - 1 < d /\ (d - 1) + 1 = d
    BY <1>1, <1>4
  <2> QED BY <2>1 DEF Chained
<1> QED BY <1>1, <1>2, <1>3, <1>4 DEF StackType, NextIsTop

\* TraverseDone() of a visit: the top of the stack is whole again.
LEMMA GoUp ==
    ASSUME NEW nodes \in SUBSET Node, NEW kid, NEW rank, NEW c, NEW st, NEW dir, NEW d,
           NEW n \in Node, NEW e,
           Forest(kid, rank, nodes), Stack(kid, rank, c, nodes, st, dir, d, FALSE),
           d >= 1, n = st[d], dir[d] = 1,
           SlotSet(c, e, <<n, 1>>, To(kid[<<n, 1>>]))
    PROVE  Stack(kid, rank, e, nodes, st, dir, d - 1, FALSE)
<1>1. /\ StackType(nodes, st, dir, d) /\ Chained(kid, rank, st, dir, d)
      /\ d \in Nat /\ d - 1 \in Nat /\ d \in 1..d /\ n \in nodes
      /\ rank \in [Node -> Nat \ {0}]
  BY DEF Stack, StackType, Forest
<1>2. StackType(nodes, st, dir, d - 1) /\ Chained(kid, rank, st, dir, d - 1)
  BY <1>1, Popped
<1>3. PICK a, b : a = <<n, 0>> /\ b = <<n, 1>>
  OBVIOUS
<1>4. /\ a \in Slots(Node) /\ b \in Slots(Node) /\ a # b /\ b[1] = n /\ b[2] = 1
      /\ \A s \in Slots(nodes) : s \in Slots(Node) /\ (s[1] = n => s = a \/ s = b)
  <2>1. a \in Slots(Node) /\ b \in Slots(Node) /\ a # b /\ b[1] = n /\ b[2] = 1
    BY <1>3 DEF Slots
  <2>2. ASSUME NEW s \in Slots(nodes) PROVE s \in Slots(Node) /\ (s[1] = n => s = a \/ s = b)
    <3>1. s \in Slots(Node)
      BY DEF Slots
    <3> QED BY <3>1, <1>3, RootIs DEF Slots
  <2> QED BY <2>1, <2>2
<1>5. SlotSet(c, e, b, To(kid[b]))
  BY <1>3
<1>6. /\ In(e, a) = To(kid[a]) /\ In(e, b) = To(kid[b])
      /\ SameBut(c, e, nodes, st[d])
  <2>1. In(c, <<st[d], 1 - dir[d]>>) = To(kid[<<st[d], 1 - dir[d]>>])
    BY <1>1 DEF Stack, Hides
  <2>2. 1 - dir[d] = 0
    OBVIOUS
  <2>3. In(c, a) = To(kid[a])
    BY <2>1, <2>2, <1>3
  <2> QED BY <2>3, <1>4, <1>5 DEF SlotSet, SameBut
<1>7. Hides(kid, e, nodes, st, dir, d - 1)
  <2>1. HidesBelow(kid, e, st, dir, d)
    BY <1>6, BelowTop
  <2>2. ASSUME NEW s \in Slots(nodes), \A k \in 1..(d - 1) : s[1] # st[k]
        PROVE  In(e, s) = To(kid[s])
    <3>1. CASE s[1] = n
      BY <3>1, <1>4, <1>6
    <3>2. CASE s[1] # n
      <4>1. \A k \in 1..d : k \in 1..(d - 1) \/ k = d
        BY <1>1
      <4>2. \A k \in 1..d : s[1] # st[k]
        BY <2>2, <3>2, <4>1
      <4>3. In(c, s) = To(kid[s])
        BY <4>2 DEF Stack, Hides
      <4> QED BY <3>2, <4>3, <1>6 DEF SameBut
    <3> QED BY <3>1, <3>2
  <2> QED BY <2>1, <2>2 DEF Hides, HidesBelow
<1>8. Reachable(kid, nodes, st, dir, d - 1, FALSE)
  BY DEF Stack, Reachable
<1> QED BY <1>2, <1>7, <1>8 DEF Stack

\* TraverseDone() of shl_trie_clear(): the top of the stack is freed.
LEMMA GoUpFree ==
    ASSUME NEW nodes \in SUBSET Node, NEW kid, NEW rank, NEW c, NEW st, NEW dir, NEW d,
           NEW n \in Node, NEW e, Typed(c),
           Forest(kid, rank, nodes), Stack(kid, rank, c, nodes, st, dir, d, TRUE),
           d >= 1, n = st[d], e = [c EXCEPT ![n] = Unused]
    PROVE  /\ Typed(e) /\ Forest(kid, rank, nodes \ {n})
           /\ Stack(kid, rank, e, nodes \ {n}, st, dir, d - 1, TRUE)
<1>1. /\ StackType(nodes, st, dir, d) /\ Chained(kid, rank, st, dir, d)
      /\ d \in Nat /\ d - 1 \in Nat /\ d \in 1..d /\ n \in nodes
      /\ dir \in [Nat -> {0, 1}] /\ rank \in [Node -> Nat \ {0}]
  BY DEF Stack, StackType, Forest
<1>2. /\ StackType(nodes \ {n}, st, dir, d - 1) /\ Chained(kid, rank, st, dir, d - 1)
      /\ d - 1 >= 1 => kid[<<st[d - 1], dir[d - 1]>>] = n
  <2>1. PICK rest : rest = nodes \ {n} /\ nodes \ {st[d]} \subseteq rest
    OBVIOUS
  <2>2. StackType(rest, st, dir, d - 1) /\ Chained(kid, rank, st, dir, d - 1)
    BY <1>1, <2>1, Popped
  <2>3. NextIsTop(kid, st, dir, d)
    BY <1>1, <2>1, Popped
  <2> QED BY <2>1, <2>2, <2>3 DEF NextIsTop
<1>3. \A s \in Slots(nodes \ {n}) : s \in Slots(nodes) /\ s \in Slots(Node) /\ s[1] # n
  <2> SUFFICES ASSUME NEW s \in Slots(nodes \ {n})
               PROVE  s \in Slots(nodes) /\ s \in Slots(Node) /\ s[1] # n
    OBVIOUS
  <2>1. s[1] = Trie \/ s[1] \in nodes \ {n}
    <3>1. nodes \ {n} \in SUBSET Node
      OBVIOUS
    <3> QED BY <3>1, SlotShape
  <2> QED BY <2>1, RootIs DEF Slots
<1>4. Forest(kid, rank, nodes \ {n})
  BY <1>3 DEF Forest
<1>5. Typed(e) /\ NodeSet(c, e, n, Unused)
  BY SetNode, UnusedType
<1>6. SameBut(c, e, nodes, st[d])
  <2>1. \A s \in Slots(nodes) : s \in Slots(Node)
    BY DEF Slots
  <2> QED BY <2>1, <1>5 DEF NodeSet, SameBut
<1>7. Hides(kid, e, nodes \ {n}, st, dir, d - 1)
  <2>1. HidesBelow(kid, e, st, dir, d)
    BY <1>6, BelowTop
  <2>2. ASSUME NEW s \in Slots(nodes \ {n}), \A k \in 1..(d - 1) : s[1] # st[k]
        PROVE  In(e, s) = To(kid[s])
    <3>1. \A k \in 1..d : k \in 1..(d - 1) \/ k = d
      BY <1>1
    <3>2. \A k \in 1..d : s[1] # st[k]
      BY <2>2, <3>1, <1>3
    <3>3. In(c, s) = To(kid[s])
      BY <3>2, <1>3 DEF Stack, Hides
    <3> QED BY <3>3, <1>3, <1>6 DEF SameBut
  <2> QED BY <2>1, <2>2 DEF Hides, HidesBelow
<1>8. Reachable(kid, nodes \ {n}, st, dir, d - 1, TRUE)
  <2>1. ASSUME NEW s \in Slots(nodes \ {n}), kid[s] \in Node, Pending(st, dir, d - 1, s)
        PROVE  kid[s] \in nodes \ {n}
    <3>1. s \in Slots(nodes) /\ s[1] # n /\ s # RootSlot
      BY <2>1, <1>3 DEF Pending
    <3>2. Pending(st, dir, d, s)
      <4>1. \A k \in 1..d : k \in 1..(d - 1) \/ k = d
        BY <1>1
      <4> QED BY <2>1, <3>1, <4>1 DEF Pending
    <3>3. kid[s] \in nodes
      BY <2>1, <3>1, <3>2 DEF Stack, Reachable
    <3>4. \A t \in Slots(nodes) : kid[t] = kid[s] => t = s
      BY <2>1, <3>1 DEF Forest
    <3>5. kid[s] # n
      <4>1. CASE d = 1
        <5>1. n = kid[RootSlot] /\ RootSlot \in Slots(nodes)
          BY <4>1 DEF Stack, Reachable, Slots
        <5> QED BY <3>1, <3>4, <5>1
      <4>2. CASE d # 1
        <5>1. d - 1 >= 1 /\ d - 1 \in 1..(d - 1) /\ d - 1 \in Nat
          BY <4>2, <1>1
        <5>2. st[d - 1] \in nodes /\ dir[d - 1] \in {0, 1}
          BY <5>1, <1>1, <1>2 DEF StackType
        <5>3. PICK t : t = <<st[d - 1], dir[d - 1]>>
          OBVIOUS
        <5>4. t \in Slots(nodes) /\ t[1] = st[d - 1] /\ t[2] = dir[d - 1] /\ kid[t] = n
          BY <5>1, <5>2, <5>3, <1>2 DEF Slots
        <5>5. s # t
          <6> SUFFICES ASSUME s = t PROVE FALSE
            OBVIOUS
          <6>1. dir[d - 1] = 0 /\ s[2] = 1
            BY <2>1, <5>1, <5>4 DEF Pending
          <6> QED BY <5>4, <6>1
        <5> QED BY <3>4, <5>4, <5>5
      <4> QED BY <4>1, <4>2
    <3> QED BY <3>3, <3>5
  <2>2. d - 1 >= 1 => st[1] = kid[RootSlot]
    BY <1>1 DEF Stack, Reachable
  <2> QED BY <2>1, <2>2 DEF Reachable
<1> QED BY <1>2, <1>4, <1>5, <1>7, <1>8 DEF Stack

(***************************************************************************)
(* What is left of a traversal                                             *)
(***************************************************************************)

\* The trie when the traversal began: kid, below, crit and at do not change,
\* and some of its nodes may have been freed.
Frozen(kid, rank, below, crit, at, all, nodes, objs) ==
    /\ all \subseteq Node /\ nodes \subseteq all
    /\ Forest(kid, rank, all) /\ Forest(kid, rank, nodes)
    /\ Keyed(kid, below, crit, at, all, objs)

\* The objects below the right children of the nodes in the stack that have
\* their left one hidden.
Todo(below, st, dir, d) ==
    {o \in Object : \E k \in 1..d : dir[k] = 0 /\ o \in below[<<st[k], 1>>]}

\* A node that is allocated is in the stack, or the traversal comes to it.
Held(kid, nodes, st, dir, d, x) ==
    \A m \in nodes : \/ \E k \in 1..d : st[k] = m
                     \/ m = x
                     \/ \E s \in Slots(nodes) : Pending(st, dir, d, s) /\ kid[s] = m

\* The traversals whose callbacks are accounted for.
Asked(t) == t.free \/ t.prefix # << >>

\* The callbacks that are to come, with the object x or the objects below the
\* node x first, and None for x on the way up.
Owed(below, st, dir, d, x, t) ==
    x \in Target /\ t.ok = TRUE /\ t.todo = Within(below, x) \cup Todo(below, st, dir, d)

\* A visit changes no node for good, a clear forgets none, and the callbacks
\* are called as they should.
Rest(kid, below, crit, at, all, nodes, byt, ob, st, dir, d, x, t) ==
    /\ ~t.free => all = nodes /\ at = byt /\ Critical(crit, nodes, ob)
    /\ t.free => Held(kid, nodes, st, dir, d, x)
    /\ Asked(t) => Owed(below, st, dir, d, x, t)

\* The traversal t goes on without a callback.
SameWork(t, t2) ==
    t2.free = t.free /\ t2.prefix = t.prefix /\ t2.todo = t.todo /\ t2.ok = t.ok

\* What is below the slots of nodes.
LEMMA FrozenBelow ==
    ASSUME NEW kid, NEW rank, NEW below, NEW crit, NEW at, NEW all, NEW nodes, NEW objs,
           Frozen(kid, rank, below, crit, at, all, nodes, objs), objs \subseteq Object,
           NEW n \in all, NEW i \in {0, 1}
    PROVE  /\ below[<<n, i>>] \subseteq Object
           /\ below[<<n, i>>] = Within(below, kid[<<n, i>>])
           /\ kid[<<n, i>>] \in Node \cup Object /\ kid[<<n, i>>] \in Target
<1>1. PICK s : s = <<n, i>>
  OBVIOUS
<1>2. s \in Slots(all) /\ s \in Slots(Node)
  BY <1>1 DEF Slots, Frozen
<1>3. Gathers(kid, below, all, objs)
  BY DEF Frozen, Keyed
<1>4. kid[s] \in Node \cup Object /\ kid[s] \in Target
  BY <1>1, <1>2 DEF Frozen, Forest
<1>5. below[s] = Within(below, kid[s])
  BY <1>2, <1>3, <1>4, WithinIs
<1>6. below[s] \subseteq Object
  BY <1>2, <1>3 DEF Gathers
<1> QED BY <1>1, <1>4, <1>5, <1>6

\* TraverseLeft(): the callbacks of the left child come first.
LEMMA TodoLeft ==
    ASSUME NEW below, NEW st, NEW dir, NEW d \in Nat, NEW n, NEW st2, NEW dir2, NEW d2,
           Pushed(st, dir, d, n, st2, dir2, d2), below[<<n, 1>>] \subseteq Object
    PROVE  Todo(below, st2, dir2, d2) = below[<<n, 1>>] \cup Todo(below, st, dir, d)
<1>1. /\ d2 = d + 1 /\ st2[d2] = n /\ dir2[d2] = 0 /\ d2 \in 1..d2
      /\ \A k \in 1..d : k \in 1..d2 /\ st2[k] = st[k] /\ dir2[k] = dir[k]
      /\ \A k \in 1..d2 : k = d2 \/ k \in 1..d
  BY DEF Pushed
<1>2. ASSUME NEW o \in Todo(below, st2, dir2, d2) PROVE o \in below[<<n, 1>>] \cup Todo(below, st, dir, d)
  <2>1. PICK k \in 1..d2 : dir2[k] = 0 /\ o \in below[<<st2[k], 1>>] /\ o \in Object
    BY <1>2 DEF Todo
  <2> QED BY <1>1, <2>1 DEF Todo
<1>3. ASSUME NEW o \in Todo(below, st, dir, d) PROVE o \in Todo(below, st2, dir2, d2)
  <2>1. PICK k \in 1..d : dir[k] = 0 /\ o \in below[<<st[k], 1>>] /\ o \in Object
    BY <1>3 DEF Todo
  <2>2. k \in 1..d2 /\ dir2[k] = 0 /\ o \in below[<<st2[k], 1>>]
    BY <1>1, <2>1
  <2> QED BY <2>1, <2>2 DEF Todo
<1>4. ASSUME NEW o \in below[<<n, 1>>] PROVE o \in Todo(below, st2, dir2, d2)
  BY <1>1, <1>4 DEF Todo
<1> QED BY <1>2, <1>3, <1>4

\* TraverseRight(): then those of the right child.
LEMMA TodoRight ==
    ASSUME NEW below, NEW st, NEW dir, NEW d \in Nat, NEW st2, NEW dir2, NEW d2,
           d >= 1, dir[d] = 0,
           Turned(st, dir, d, st2, dir2, d2), below[<<st[d], 1>>] \subseteq Object
    PROVE  Todo(below, st, dir, d) = below[<<st[d], 1>>] \cup Todo(below, st2, dir2, d2)
<1>1. /\ d2 = d /\ st2 = st /\ dir2[d] = 1 /\ d \in 1..d
      /\ \A k \in 1..d : k # d => dir2[k] = dir[k]
  BY DEF Turned
<1>2. ASSUME NEW o \in Todo(below, st, dir, d)
      PROVE  o \in below[<<st[d], 1>>] \cup Todo(below, st2, dir2, d2)
  <2>1. PICK k \in 1..d : dir[k] = 0 /\ o \in below[<<st[k], 1>>] /\ o \in Object
    BY <1>2 DEF Todo
  <2> QED BY <1>1, <2>1 DEF Todo
<1>3. ASSUME NEW o \in Todo(below, st2, dir2, d2) PROVE o \in Todo(below, st, dir, d)
  <2>1. PICK k \in 1..d : dir2[k] = 0 /\ o \in below[<<st[k], 1>>] /\ o \in Object
    BY <1>1, <1>3 DEF Todo
  <2>2. k # d /\ dir[k] = 0
    BY <1>1, <2>1
  <2> QED BY <2>1, <2>2 DEF Todo
<1>4. ASSUME NEW o \in below[<<st[d], 1>>] PROVE o \in Todo(below, st, dir, d)
  BY <1>1, <1>4 DEF Todo
<1> QED BY <1>2, <1>3, <1>4

\* TraverseDone(): a node whose right child is hidden has none to come.
LEMMA TodoUp ==
    ASSUME NEW below, NEW st, NEW dir, NEW d \in Nat, d >= 1, dir[d] = 1
    PROVE  Todo(below, st, dir, d - 1) = Todo(below, st, dir, d)
<1>1. \A k \in 1..d : dir[k] = 0 => k \in 1..(d - 1)
  OBVIOUS
<1>2. \A k \in 1..(d - 1) : k \in 1..d
  OBVIOUS
<1> QED BY <1>1, <1>2 DEF Todo

\* TraverseLeft(): what is left.
LEMMA LeftRest ==
    ASSUME NEW kid, NEW rank, NEW below, NEW crit, NEW at, NEW all, NEW nodes, NEW objs,
           Frozen(kid, rank, below, crit, at, all, nodes, objs), objs \subseteq Object,
           NEW byt, NEW ob, NEW st, NEW dir, NEW d \in Nat, NEW n \in nodes, NEW t, NEW t2,
           \A k \in 1..d : st[k] # n,
           Rest(kid, below, crit, at, all, nodes, byt, ob, st, dir, d, n, t), SameWork(t, t2),
           NEW st2, NEW dir2, NEW d2, Pushed(st, dir, d, n, st2, dir2, d2)
    PROVE  Rest(kid, below, crit, at, all, nodes, byt, ob, st2, dir2, d2, kid[<<n, 0>>], t2)
<1>1. n \in all /\ n \in Node /\ nodes \subseteq Node
  BY DEF Frozen
<1>2. PICK x : x = kid[<<n, 0>>]
  OBVIOUS
<1>3. /\ below[<<n, 0>>] = Within(below, x) /\ x \in Target
      /\ below[<<n, 1>>] \subseteq Object
  <2>0. /\ \A i \in {0, 1} : below[<<n, i>>] \subseteq Object
        /\ \A i \in {0, 1} : below[<<n, i>>] = Within(below, kid[<<n, i>>])
        /\ \A i \in {0, 1} : kid[<<n, i>>] \in Target
    BY <1>1, FrozenBelow
  <2>1. below[<<n, 1>>] \subseteq Object
    BY <2>0
  <2>2. below[<<n, 0>>] = Within(below, kid[<<n, 0>>]) /\ kid[<<n, 0>>] \in Target
    BY <2>0
  <2> QED BY <1>2, <2>1, <2>2
<1>4. ASSUME Asked(t) PROVE Owed(below, st2, dir2, d2, x, t2)
  <2>1. t.ok = TRUE /\ t.todo = Within(below, n) \cup Todo(below, st, dir, d)
    BY <1>4 DEF Rest, Owed
  <2>2. Within(below, n) = below[<<n, 0>>] \cup below[<<n, 1>>]
    BY <1>1 DEF Within, Content
  <2>3. Todo(below, st2, dir2, d2) = below[<<n, 1>>] \cup Todo(below, st, dir, d)
    BY <1>3, TodoLeft
  <2>4. t2.todo = Within(below, x) \cup Todo(below, st2, dir2, d2)
    BY <1>3, <2>1, <2>2, <2>3 DEF SameWork
  <2> QED BY <1>3, <2>1, <2>4 DEF Owed, SameWork
<1>5. ASSUME t.free PROVE Held(kid, nodes, st2, dir2, d2, x)
  <2> SUFFICES ASSUME NEW m \in nodes, m # x, \A k \in 1..d2 : st2[k] # m
               PROVE  \E s \in Slots(nodes) : Pending(st2, dir2, d2, s) /\ kid[s] = m
    BY DEF Held
  <2>1. /\ d2 = d + 1 /\ st2[d2] = n /\ dir2[d2] = 0 /\ d2 \in 1..d2
        /\ \A k \in 1..d : k \in 1..d2 /\ st2[k] = st[k] /\ dir2[k] = dir[k]
        /\ \A k \in 1..d2 : k = d2 \/ k \in 1..d
    BY DEF Pushed
  <2>2. m # n /\ \A k \in 1..d : st[k] # m
    BY <2>1
  <2>3. PICK s \in Slots(nodes) : Pending(st, dir, d, s) /\ kid[s] = m
    BY <1>5, <2>2 DEF Rest, Held
  <2>4. s[1] = n => s[2] = 1
    <3> SUFFICES ASSUME s[1] = n, s[2] # 1 PROVE FALSE
      OBVIOUS
    <3>1. s # RootSlot
      BY <2>3 DEF Pending
    <3>2. s = <<n, 0>>
      BY <3>1 DEF Slots
    <3> QED BY <1>2, <2>3, <3>2
  <2>5. Pending(st2, dir2, d2, s)
    BY <2>1, <2>3, <2>4 DEF Pending
  <2> QED BY <2>3, <2>5
<1>6. (~t2.free => all = nodes /\ at = byt /\ Critical(crit, nodes, ob)) /\ (Asked(t2) <=> Asked(t))
  BY DEF Rest, SameWork, Asked
<1> QED BY <1>2, <1>4, <1>5, <1>6 DEF Rest, SameWork

\* TraverseRight(): what is left.
LEMMA RightRest ==
    ASSUME NEW kid, NEW rank, NEW below, NEW crit, NEW at, NEW all, NEW nodes, NEW objs,
           Frozen(kid, rank, below, crit, at, all, nodes, objs), objs \subseteq Object,
           NEW byt, NEW ob, NEW st, NEW dir, NEW d \in Nat, NEW n \in nodes, NEW t, NEW t2,
           d >= 1, n = st[d], dir[d] = 0, ~Repeats(st, d),
           Rest(kid, below, crit, at, all, nodes, byt, ob, st, dir, d, None, t), SameWork(t, t2),
           NEW st2, NEW dir2, NEW d2, Turned(st, dir, d, st2, dir2, d2)
    PROVE  Rest(kid, below, crit, at, all, nodes, byt, ob, st2, dir2, d2, kid[<<n, 1>>], t2)
<1>1. n \in all /\ n \in Node /\ nodes \subseteq Node
  BY DEF Frozen
<1>2. PICK x : x = kid[<<n, 1>>]
  OBVIOUS
<1>3. /\ below[<<n, 1>>] = Within(below, x) /\ x \in Target
      /\ below[<<n, 1>>] \subseteq Object
  <2>0. /\ \A i \in {0, 1} : below[<<n, i>>] \subseteq Object
        /\ \A i \in {0, 1} : below[<<n, i>>] = Within(below, kid[<<n, i>>])
        /\ \A i \in {0, 1} : kid[<<n, i>>] \in Target
    BY <1>1, FrozenBelow
  <2>1. below[<<n, 1>>] \subseteq Object
    BY <2>0
  <2>2. below[<<n, 1>>] = Within(below, kid[<<n, 1>>]) /\ kid[<<n, 1>>] \in Target
    BY <2>0
  <2> QED BY <1>2, <2>1, <2>2
<1>4. ASSUME Asked(t) PROVE Owed(below, st2, dir2, d2, x, t2)
  <2>1. t.ok = TRUE /\ t.todo = Within(below, None) \cup Todo(below, st, dir, d)
    BY <1>4 DEF Rest, Owed
  <2>2. Within(below, None) = {}
    BY TrieAssumption DEF Within
  <2>3. Todo(below, st, dir, d) = below[<<n, 1>>] \cup Todo(below, st2, dir2, d2)
    BY <1>3, TodoRight
  <2>4. t2.todo = Within(below, x) \cup Todo(below, st2, dir2, d2)
    BY <1>3, <2>1, <2>2, <2>3 DEF SameWork
  <2> QED BY <1>3, <2>1, <2>4 DEF Owed, SameWork
<1>5. ASSUME t.free PROVE Held(kid, nodes, st2, dir2, d2, x)
  <2> SUFFICES ASSUME NEW m \in nodes, m # x, \A k \in 1..d2 : st2[k] # m
               PROVE  \E s \in Slots(nodes) : Pending(st2, dir2, d2, s) /\ kid[s] = m
    BY DEF Held
  <2>1. /\ d2 = d /\ st2 = st /\ dir2[d] = 1 /\ d \in 1..d
        /\ \A k \in 1..d : k # d => dir2[k] = dir[k]
    BY DEF Turned
  <2>2. m # None
    BY <1>1, TrieAssumption
  <2>3. PICK s \in Slots(nodes) : Pending(st, dir, d, s) /\ kid[s] = m
    BY <1>5, <2>1, <2>2 DEF Rest, Held
  <2>4. s[1] # n
    <3> SUFFICES ASSUME s[1] = n PROVE FALSE
      OBVIOUS
    <3>1. s # RootSlot /\ s[2] = 1
      BY <2>1, <2>3 DEF Pending
    <3>2. s = <<n, 1>>
      BY <3>1 DEF Slots
    <3> QED BY <1>2, <2>3, <3>2
  <2>5. Pending(st2, dir2, d2, s)
    BY <2>1, <2>3, <2>4 DEF Pending
  <2> QED BY <2>3, <2>5
<1>6. (~t2.free => all = nodes /\ at = byt /\ Critical(crit, nodes, ob)) /\ (Asked(t2) <=> Asked(t))
  BY DEF Rest, SameWork, Asked
<1> QED BY <1>2, <1>4, <1>5, <1>6 DEF Rest, SameWork

\* TraverseDone() of a visit: what is left.
LEMMA UpRest ==
    ASSUME NEW kid, NEW below, NEW crit, NEW at, NEW all, NEW nodes,
           NEW byt, NEW ob, NEW st, NEW dir, NEW d \in Nat, NEW t, NEW t2,
           d >= 1, dir[d] = 1, ~t.free,
           Rest(kid, below, crit, at, all, nodes, byt, ob, st, dir, d, None, t), SameWork(t, t2)
    PROVE  Rest(kid, below, crit, at, all, nodes, byt, ob, st, dir, d - 1, None, t2)
<1>1. Todo(below, st, dir, d - 1) = Todo(below, st, dir, d)
  BY TodoUp
<1> QED BY <1>1 DEF Rest, SameWork, Asked, Owed

\* TraverseDone() of shl_trie_clear(): what is left.
LEMMA UpFreeRest ==
    ASSUME NEW kid, NEW below, NEW crit, NEW at, NEW all, NEW nodes \in SUBSET Node,
           NEW byt, NEW ob, NEW byt2, NEW ob2, NEW st, NEW dir, NEW d \in Nat, NEW n \in nodes,
           NEW t, NEW t2, d >= 1, n = st[d], dir[d] = 1, t.free,
           Rest(kid, below, crit, at, all, nodes, byt, ob, st, dir, d, None, t), SameWork(t, t2)
    PROVE  Rest(kid, below, crit, at, all, nodes \ {n}, byt2, ob2, st, dir, d - 1, None, t2)
<1>1. Todo(below, st, dir, d - 1) = Todo(below, st, dir, d)
  BY TodoUp
<1>2. Held(kid, nodes \ {n}, st, dir, d - 1, None)
  <2> SUFFICES ASSUME NEW m \in nodes \ {n}, \A k \in 1..(d - 1) : st[k] # m
               PROVE  \E s \in Slots(nodes \ {n}) : Pending(st, dir, d - 1, s) /\ kid[s] = m
    BY DEF Held
  <2>1. d \in 1..d /\ (\A k \in 1..d : k = d \/ k \in 1..(d - 1)) /\ (\A k \in 1..(d - 1) : k \in 1..d)
    OBVIOUS
  <2>2. m # None /\ \A k \in 1..d : st[k] # m
    BY <2>1, TrieAssumption
  <2>3. PICK s \in Slots(nodes) : Pending(st, dir, d, s) /\ kid[s] = m
    BY <2>2 DEF Rest, Held
  <2>4. s[1] # n /\ s # RootSlot
    BY <2>1, <2>3 DEF Pending
  <2>5. s \in Slots(nodes \ {n})
    BY <2>4 DEF Slots
  <2>6. Pending(st, dir, d - 1, s)
    BY <2>1, <2>3 DEF Pending
  <2> QED BY <2>3, <2>5, <2>6
<1> QED BY <1>1, <1>2 DEF Rest, SameWork, Asked, Owed

\* An object that the traversal has come to is below the hidden children of all
\* nodes in the stack.
LEMMA Nested ==
    ASSUME NEW kid, NEW rank, NEW below, NEW crit, NEW at, NEW all, NEW nodes, NEW objs,
           Frozen(kid, rank, below, crit, at, all, nodes, objs),
           NEW st, NEW dir, NEW d, StackType(nodes, st, dir, d), Chained(kid, rank, st, dir, d),
           NEW x \in Object, d >= 1 => x = kid[<<st[d], dir[d]>>]
    PROVE  \A k \in 1..d : x \in below[<<st[k], dir[k]>>]
<1>1. /\ d \in Nat /\ Gathers(kid, below, all, objs) /\ nodes \subseteq all /\ all \subseteq Node
      /\ \A k \in 1..d : st[k] \in nodes /\ dir[k] \in {0, 1}
  BY DEF StackType, Frozen, Keyed
<1>2. \A k \in 1..d : <<st[k], dir[k]>> \in Slots(all)
  BY <1>1 DEF Slots
<1> DEFINE S == {m \in Nat : m < d => x \in below[<<st[d - m], dir[d - m]>>]}
<1>3. 0 \in S
  <2> SUFFICES ASSUME 0 < d PROVE x \in below[<<st[d - 0], dir[d - 0]>>]
    OBVIOUS
  <2>1. d \in 1..d /\ d - 0 = d
    BY <1>1
  <2>2. PICK s \in Slots(all) : s = <<st[d], dir[d]>>
    BY <1>2, <2>1
  <2>3. kid[s] = x
    BY <2>1, <2>2
  <2>4. below[s] = {x}
    BY <1>1, <2>3 DEF Gathers
  <2> QED BY <2>1, <2>2, <2>4
<1>4. ASSUME NEW m \in Nat, m \in S PROVE m + 1 \in S
  <2> SUFFICES ASSUME m + 1 < d PROVE x \in below[<<st[d - (m + 1)], dir[d - (m + 1)]>>]
    OBVIOUS
  <2>1. PICK k \in 1..d : k = d - (m + 1) /\ k + 1 = d - m /\ k < d /\ k + 1 \in 1..d
    BY <1>1
  <2>2. x \in below[<<st[k + 1], dir[k + 1]>>]
    BY <1>1, <1>4, <2>1
  <2> HIDE DEF S
  <2>3. PICK s \in Slots(all) : s = <<st[k], dir[k]>>
    BY <1>2, <2>1
  <2>4. kid[s] = st[k + 1] /\ st[k + 1] \in Node /\ dir[k + 1] \in {0, 1}
    BY <1>1, <2>1, <2>3 DEF Chained
  <2>5. below[s] = Content(below, st[k + 1])
    BY <1>1, <2>4 DEF Gathers
  <2>6. x \in Content(below, st[k + 1])
    BY <2>2, <2>4 DEF Content
  <2> QED BY <2>1, <2>3, <2>5, <2>6
<1>5. \A m \in Nat : m \in S
  <2> HIDE DEF S
  <2> QED BY <1>3, <1>4, Induct
<1>6. ASSUME NEW k \in 1..d PROVE x \in below[<<st[k], dir[k]>>]
  <2>1. PICK m \in Nat : m = d - k /\ m < d /\ d - m = k
    BY <1>1
  <2>2. m < d => x \in below[<<st[d - m], dir[d - m]>>]
    BY <1>5
  <2> HIDE DEF S
  <2> QED BY <2>1, <2>2
<1> QED BY <1>6

\* Objects below different children of a node differ at its bit.
LEMMA LeftFirst ==
    ASSUME NEW kid, NEW rank, NEW below, NEW crit, NEW at, NEW all, NEW nodes, NEW objs,
           Frozen(kid, rank, below, crit, at, all, nodes, objs), objs \subseteq Object,
           NEW n \in all, NEW x \in below[<<n, 0>>], NEW o \in below[<<n, 1>>]
    PROVE  x # o /\ Smaller(KeyOf[x], KeyOf[o])
<1>1. /\ Splits(below, crit, at, all) /\ Shares(below, crit, at, all) /\ n \in Node
      /\ crit[n] \in Bits /\ at[n] \in Nat
  BY DEF Frozen, Keyed
<1>2. crit[n] \notin ByteAt(KeyOf[x], at[n]) /\ crit[n] \in ByteAt(KeyOf[o], at[n])
  BY <1>1 DEF Splits
<1>3. Agree(KeyOf[x], KeyOf[o], at[n], crit[n])
  BY <1>1 DEF Shares, Content
<1>4. below[<<n, 0>>] \subseteq Object /\ below[<<n, 1>>] \subseteq Object
  BY FrozenBelow
<1>5. KeyOf[x] \in Key /\ KeyOf[o] \in Key
  BY <1>4, TrieAssumption
<1>6. Smaller(KeyOf[x], KeyOf[o])
  BY <1>1, <1>2, <1>3, <1>5, SmallerAt
<1> QED BY <1>2, <1>6

\* TraverseEntry: the callback is called with the first object that is left, and
\* then it is not left.
LEMMA EntryFirst ==
    ASSUME NEW kid, NEW rank, NEW below, NEW crit, NEW at, NEW all, NEW nodes, NEW objs,
           Frozen(kid, rank, below, crit, at, all, nodes, objs), objs \subseteq Object,
           NEW st, NEW dir, NEW d, StackType(nodes, st, dir, d), Chained(kid, rank, st, dir, d),
           NEW x \in Object, d >= 1 => x = kid[<<st[d], dir[d]>>],
           NEW todo, todo = Within(below, x) \cup Todo(below, st, dir, d)
    PROVE  IsFirst(x, todo) /\ todo \ {x} = Within(below, None) \cup Todo(below, st, dir, d)
<1>1. Within(below, x) = {x} /\ Within(below, None) = {}
  BY TrieAssumption DEF Within
<1>2. ASSUME NEW o \in Todo(below, st, dir, d) PROVE x # o /\ Smaller(KeyOf[x], KeyOf[o])
  <2>1. PICK k \in 1..d : dir[k] = 0 /\ o \in below[<<st[k], 1>>]
    BY <1>2 DEF Todo
  <2>2. x \in below[<<st[k], dir[k]>>]
    BY <2>1, Nested
  <2>3. st[k] \in all
    BY <2>1 DEF StackType, Frozen
  <2>4. x \in below[<<st[k], 0>>]
    BY <2>1, <2>2
  <2>5. PICK n \in all : n = st[k]
    BY <2>3
  <2>6. x \in below[<<n, 0>>] /\ o \in below[<<n, 1>>]
    BY <2>1, <2>4, <2>5
  <2> QED BY <2>6, LeftFirst
<1> QED BY <1>1, <1>2 DEF IsFirst

\* TraverseEntry: what is left.
LEMMA EntryRest ==
    ASSUME NEW kid, NEW rank, NEW below, NEW crit, NEW at, NEW all, NEW nodes, NEW objs,
           Frozen(kid, rank, below, crit, at, all, nodes, objs), objs \subseteq Object,
           NEW byt, NEW ob, NEW st, NEW dir, NEW d, NEW x, NEW t, NEW t2,
           StackType(nodes, st, dir, d), Chained(kid, rank, st, dir, d),
           d >= 1 => x = kid[<<st[d], dir[d]>>], x \notin Node, x # None,
           Rest(kid, below, crit, at, all, nodes, byt, ob, st, dir, d, x, t),
           t2.free = t.free, t2.prefix = t.prefix, t2.todo = t.todo \ {x},
           t2.ok = (t.ok /\ IsFirst(x, t.todo))
    PROVE  Rest(kid, below, crit, at, all, nodes, byt, ob, st, dir, d, None, t2)
<1>1. nodes \subseteq Node
  BY DEF Frozen
<1>2. t.free => Held(kid, nodes, st, dir, d, None)
  BY <1>1 DEF Rest, Held
<1>3. ASSUME Asked(t) PROVE Owed(below, st, dir, d, None, t2)
  <2>1. x \in Object /\ t.ok = TRUE /\ t.todo = Within(below, x) \cup Todo(below, st, dir, d)
    BY <1>3 DEF Rest, Owed, Target
  <2>2. PICK todo : todo = t.todo
    OBVIOUS
  <2>3. IsFirst(x, todo) /\ todo \ {x} = Within(below, None) \cup Todo(below, st, dir, d)
    BY <2>1, <2>2, EntryFirst
  <2>4. t2.ok = TRUE
    BY <2>1, <2>2, <2>3
  <2>5. t2.todo = Within(below, None) \cup Todo(below, st, dir, d)
    BY <2>2, <2>3
  <2>6. None \in Target
    BY DEF Target
  <2> QED BY ONLY <2>4, <2>5, <2>6 DEF Owed
<1> QED BY <1>2, <1>3 DEF Rest, Asked

\* TraverseReturn: nothing is left.
LEMMA NoRest ==
    ASSUME NEW kid, NEW rank, NEW below, NEW crit, NEW at, NEW all, NEW nodes, NEW objs,
           Frozen(kid, rank, below, crit, at, all, nodes, objs),
           NEW byt, NEW ob, NEW st, NEW dir, NEW t,
           Rest(kid, below, crit, at, all, nodes, byt, ob, st, dir, 0, None, t)
    PROVE  /\ t.free => nodes = {}
           /\ Asked(t) => t.ok /\ t.todo = {}
<1>1. nodes \subseteq Node /\ rank \in [Node -> Nat \ {0}] /\ Forest(kid, rank, nodes)
  BY DEF Frozen, Forest
<1>2. ASSUME t.free, nodes # {} PROVE FALSE
  <2> DEFINE R == {rank[m] : m \in nodes}
  <2>1. R \subseteq Nat /\ R # {}
    BY <1>1, <1>2
  <2>2. PICK r \in R : \A y \in R : r <= y
    BY <2>1, Least
  <2>3. PICK m \in nodes : r = rank[m]
    BY <2>2
  <2>4. \A y \in nodes : rank[m] <= rank[y]
    BY <2>2, <2>3
  <2> HIDE DEF R
  <2>5. Held(kid, nodes, st, dir, 0, None)
    BY <1>2 DEF Rest
  <2>6. m # None /\ m \in Node
    BY <1>1, TrieAssumption
  <2>7. PICK s \in Slots(nodes) : Pending(st, dir, 0, s) /\ kid[s] = m
    BY <2>5, <2>6 DEF Held
  <2>8. PICK y \in nodes, i \in {0, 1} : s = <<y, i>>
    BY <2>7 DEF Pending, Slots
  <2>9. rank[y] < rank[m]
    BY <1>1, <2>6, <2>7, <2>8 DEF Forest
  <2>10. rank[m] <= rank[y] /\ rank[m] \in Nat /\ rank[y] \in Nat
    BY <1>1, <2>4, <2>6
  <2> QED BY ONLY <2>9, <2>10
<1>3. ASSUME Asked(t) PROVE t.ok /\ t.todo = {}
  <2>1. t.ok = TRUE /\ t.todo = Within(below, None) \cup Todo(below, st, dir, 0)
    BY <1>3 DEF Rest, Owed
  <2>2. Within(below, None) = {}
    BY TrieAssumption DEF Within
  <2>3. Todo(below, st, dir, 0) = {}
    BY DEF Todo
  <2> QED BY <2>1, <2>2, <2>3
<1> QED BY <1>2, <1>3

\* The start of a traversal: everything is left.
LEMMA StartRest ==
    ASSUME NEW kid, NEW rank, NEW below, NEW crit, NEW objs,
           live \subseteq Node, Forest(kid, rank, live),
           Keyed(kid, below, crit, byte, live, objs), Critical(crit, live, otherbits),
           NEW st, NEW dir, NEW x, NEW t,
           t.free => x = kid[RootSlot],
           Asked(t) => x \in Target /\ t.ok = TRUE /\ t.todo = Within(below, x)
    PROVE  /\ Frozen(kid, rank, below, crit, byte, live, live, objs)
           /\ Rest(kid, below, crit, byte, live, live, byte, otherbits, st, dir, 0, x, t)
<1>1. Frozen(kid, rank, below, crit, byte, live, live, objs)
  BY DEF Frozen
<1>2. \A k \in 1..0 : FALSE
  OBVIOUS
<1>3. Todo(below, st, dir, 0) = {}
  BY <1>2 DEF Todo
<1>4. ASSUME t.free PROVE Held(kid, live, st, dir, 0, x)
  <2> SUFFICES ASSUME NEW m \in live, m # x
               PROVE  \E s \in Slots(live) : Pending(st, dir, 0, s) /\ kid[s] = m
    BY DEF Held
  <2>1. PICK s \in Slots(live) : kid[s] = m
    BY DEF Keyed, Once
  <2>2. s # RootSlot
    BY <1>4, <2>1
  <2>3. Pending(st, dir, 0, s)
    BY <1>2, <2>2 DEF Pending
  <2> QED BY <2>1, <2>3
<1>5. Asked(t) => Owed(below, st, dir, 0, x, t)
  BY <1>3 DEF Owed
<1> QED BY <1>1, <1>4, <1>5 DEF Rest

(***************************************************************************)
(* The inductive invariant                                                 *)
(***************************************************************************)

\* Between two calls.
IdleOK(c, nodes, objs, at, ob) ==
    \E kid, rank : Forest(kid, rank, nodes) /\ Whole(kid, c, nodes) /\ KeyedTrie(kid, nodes, objs, at, ob)

\* Where the traversal t is: on its way down to x, or on its way up.
Position(kid, nodes, st, dir, d, x, t) ==
    \/ t.parent = To(st[d]) /\ t.iter = To(x) /\ Down(kid, nodes, st, dir, d, t.free, x)
    \/ t.iter = To(st[d]) /\ (d >= 1 => t.parent = To(kid[<<st[d], dir[d]>>])) /\ x = None

\* The invariant of the loop of shl_trie_traverse().
Trip(kid, rank, below, crit, at, all, c, nodes, byt, ob, t) ==
    \E st, dir, d, x :
        /\ Stack(kid, rank, c, nodes, st, dir, d, t.free)
        /\ Position(kid, nodes, st, dir, d, x, t)
        /\ Rest(kid, below, crit, at, all, nodes, byt, ob, st, dir, d, x, t)

\* There are a forest, a trie and a stack that the traversal t goes through.
OnTheWay(c, nodes, objs, byt, ob, t) ==
    \E kid, rank, below, crit, at, all :
        /\ Frozen(kid, rank, below, crit, at, all, nodes, objs)
        /\ Trip(kid, rank, below, crit, at, all, c, nodes, byt, ob, t)

\* The local variables of a traversal.
TravShape ==
    \E P, T, K : trav \in [op : {"traverse"}, iter : Pointer, parent : Pointer, free : BOOLEAN,
                           prefix : P, todo : T, ok : K]

\* The inductive invariant.
Inv ==
    /\ Typed(childs) /\ live \subseteq Node
    /\ byte \in [Node -> Nat] /\ otherbits \in [Node -> SUBSET Bits]
    /\ stored \subseteq Object \ Misaligned
    /\ trav = Idle => IdleOK(childs, live, stored, byte, otherbits)
    /\ trav # Idle => TravShape /\ OnTheWay(childs, live, stored, byte, otherbits, trav)

\* A trie without nodes has one object or none.
LEMMA NoNodes ==
    ASSUME NEW c, NEW x \in Object \cup {None}, In(c, RootSlot) = To(x),
           NEW objs, objs = IF x = None THEN {} ELSE {x}, NEW at \in [Node -> Nat], NEW ob
    PROVE  IdleOK(c, {}, objs, at, ob)
<1>1. x \notin Node /\ x \in Target /\ None \notin Object
  BY TrieAssumption DEF Target
<1>2. Slots({}) = {RootSlot} /\ RootSlot \in Slots(Node)
  BY DEF Slots
<1>3. PICK kid, rank : kid = [s \in Slots(Node) |-> x] /\ rank = [n \in Node |-> 1]
  OBVIOUS
<1>4. kid \in [Slots(Node) -> Target] /\ rank \in [Node -> Nat \ {0}] /\ kid[RootSlot] = x
  BY <1>1, <1>2, <1>3
<1>5. Forest(kid, rank, {})
  BY <1>2, <1>4 DEF Forest
<1>6. Whole(kid, c, {})
  BY <1>1, <1>2, <1>4 DEF Whole
<1>7. PICK below, crit : below = [s \in Slots(Node) |-> objs] /\ crit = [n \in Node |-> 0]
  OBVIOUS
<1>8. below \in [Slots(Node) -> SUBSET objs] /\ below[RootSlot] = objs
  BY <1>2, <1>7
<1>9. crit \in [Node -> Bits]
  BY <1>7, BitsAre
<1>10. Gathers(kid, below, {}, objs)
  BY <1>1, <1>2, <1>4, <1>8 DEF Gathers
<1>11. Splits(below, crit, at, {}) /\ Shares(below, crit, at, {}) /\ Critical(crit, {}, ob)
  BY DEF Splits, Shares, Critical
<1>12. Once(kid, {})
  BY <1>2 DEF Once
<1>13. Counted({}, objs)
  <2>1. CASE x = None
    BY <2>1, FS_EmptySet DEF Counted
  <2>2. CASE x # None
    <3>1. IsFiniteSet({x}) /\ Cardinality({x}) = 1 /\ Cardinality({}) = 0
      BY FS_EmptySet, FS_Singleton
    <3> QED BY <2>2, <3>1 DEF Counted
  <2> QED BY <2>1, <2>2
<1>14. Keyed(kid, below, crit, at, {}, objs)
  BY <1>9, <1>10, <1>11, <1>12, <1>13 DEF Keyed
<1> QED BY <1>5, <1>6, <1>11, <1>14 DEF IdleOK, KeyedTrie

\* The local variables move on.
LEMMA TravMoves ==
    ASSUME TravShape, NEW a \in Pointer, NEW b \in Pointer,
           trav' = [trav EXCEPT !.iter = a, !.parent = b]
    PROVE  /\ TravShape' /\ trav' # Idle
           /\ trav'.iter = a /\ trav'.parent = b /\ SameWork(trav, trav')
<1>1. PICK P, T, K : trav \in [op : {"traverse"}, iter : Pointer, parent : Pointer, free : BOOLEAN,
                               prefix : P, todo : T, ok : K]
  BY DEF TravShape
<1>2. /\ trav' \in [op : {"traverse"}, iter : Pointer, parent : Pointer, free : BOOLEAN,
                    prefix : P, todo : T, ok : K]
      /\ trav'.iter = a /\ trav'.parent = b /\ trav'.free = trav.free
      /\ trav'.prefix = trav.prefix /\ trav'.todo = trav.todo /\ trav'.ok = trav.ok
  BY <1>1
<1>3. trav'.op = "traverse" /\ Idle.op = "none"
  BY <1>2 DEF Idle
<1>4. TravShape'
  BY <1>2 DEF TravShape, Pointer
<1> QED BY <1>2, <1>3, <1>4 DEF SameWork

\* The local variables move on, and the callback is accounted for.
LEMMA TravVisits ==
    ASSUME TravShape, NEW a \in Pointer, NEW b \in Pointer, NEW t, NEW o,
           trav' = [trav EXCEPT !.iter = a, !.parent = b, !.ok = o, !.todo = t]
    PROVE  /\ TravShape' /\ trav' # Idle
           /\ trav'.iter = a /\ trav'.parent = b /\ trav'.free = trav.free
           /\ trav'.prefix = trav.prefix /\ trav'.todo = t /\ trav'.ok = o
<1>1. PICK P, T, K : trav \in [op : {"traverse"}, iter : Pointer, parent : Pointer, free : BOOLEAN,
                               prefix : P, todo : T, ok : K]
  BY DEF TravShape
<1>2. PICK T2, K2 : T2 = T \cup {t} /\ K2 = K \cup {o}
  OBVIOUS
<1>3. /\ trav' \in [op : {"traverse"}, iter : Pointer, parent : Pointer, free : BOOLEAN,
                    prefix : P, todo : T2, ok : K2]
      /\ trav'.iter = a /\ trav'.parent = b /\ trav'.free = trav.free
      /\ trav'.prefix = trav.prefix /\ trav'.todo = t /\ trav'.ok = o
  BY <1>1, <1>2
<1>4. trav'.op = "traverse" /\ Idle.op = "none"
  BY <1>3 DEF Idle
<1>5. TravShape'
  BY <1>3 DEF TravShape, Pointer
<1> QED BY <1>3, <1>4, <1>5

\* A traversal begins with an empty stack, and with all that it should visit
\* below the pointer it begins with.
LEMMA TravBegins ==
    ASSUME Inv, trav = Idle, NEW kid, NEW rank, NEW below, NEW crit,
           Forest(kid, rank, live), Whole(kid, childs, live),
           Keyed(kid, below, crit, byte, live, stored), Critical(crit, live, otherbits),
           NEW x \in Node \cup Object \cup {Trie, None}, NEW free \in BOOLEAN, NEW prefix,
           x \in Node => x \in live, free => x = kid[RootSlot],
           free \/ prefix # << >> => x \in Target /\ Within(below, x) = Matching(prefix),
           shl_trie_traverse(To(x), free, prefix),
           UNCHANGED <<childs, byte, otherbits, live, stored>>
    PROVE  Inv'
<1>1. trav' = [op |-> "traverse", iter |-> To(x), parent |-> Null, free |-> free,
               prefix |-> prefix, todo |-> Matching(prefix), ok |-> TRUE]
  BY DEF shl_trie_traverse
<1>2. To(x) \in Pointer /\ Null \in Pointer
  BY DEF To, Null, Pointer
<1>3. PICK t : t = Matching(prefix)
  OBVIOUS
<1>4. /\ trav' \in [op : {"traverse"}, iter : Pointer, parent : Pointer, free : BOOLEAN,
                    prefix : {prefix}, todo : {t}, ok : BOOLEAN]
      /\ trav'.op = "traverse" /\ trav'.iter = To(x) /\ trav'.parent = Null /\ trav'.free = free
      /\ trav'.prefix = prefix /\ trav'.todo = t /\ trav'.ok = TRUE
  BY <1>1, <1>2, <1>3
<1>5. TravShape' /\ trav' # Idle
  <2>1. Idle.op = "none"
    BY DEF Idle
  <2> QED BY <1>4, <2>1 DEF TravShape, Pointer
<1>6. PICK st, dir : st = [k \in Nat |-> None] /\ dir = [k \in Nat |-> 0]
  OBVIOUS
<1>7. \A k \in 1..0 : FALSE
  OBVIOUS
<1>8. StackType(live, st, dir, 0) /\ st[0] = None
  BY <1>6, <1>7 DEF StackType
<1>9. Chained(kid, rank, st, dir, 0)
  BY <1>7 DEF Chained
<1>10. Hides(kid, childs, live, st, dir, 0)
  BY <1>7 DEF Hides, Whole
<1>11. Reachable(kid, live, st, dir, 0, free)
  BY DEF Reachable, Whole
<1>12. Stack(kid, rank, childs, live, st, dir, 0, free)
  BY <1>8, <1>9, <1>10, <1>11 DEF Stack
<1>13. Down(kid, live, st, dir, 0, free, x)
  BY DEF Down
<1>14. PICK u : u = trav'
  OBVIOUS
<1>15. Position(kid, live, st, dir, 0, x, u)
  BY <1>4, <1>8, <1>13, <1>14 DEF Position, Null
<1>16. /\ Frozen(kid, rank, below, crit, byte, live, live, stored)
       /\ Rest(kid, below, crit, byte, live, live, byte, otherbits, st, dir, 0, x, u)
  <2>1. /\ u.free => x = kid[RootSlot]
        /\ Asked(u) => x \in Target /\ u.ok = TRUE /\ u.todo = Within(below, x)
    BY <1>3, <1>4, <1>14 DEF Asked
  <2>2. live \subseteq Node
    BY DEF Inv
  <2> QED BY <2>1, <2>2, StartRest
<1>17. Trip(kid, rank, below, crit, byte, live, childs, live, byte, otherbits, u)
  BY <1>4, <1>12, <1>14, <1>15, <1>16 DEF Trip
<1>18. OnTheWay(childs, live, stored, byte, otherbits, u)
  BY <1>16, <1>17 DEF OnTheWay
<1>19. OnTheWay(childs, live, stored, byte, otherbits, trav)'
  BY <1>14, <1>18
<1> QED BY <1>5, <1>19 DEF Inv, Typed, Pointer

(***************************************************************************)
(* The steps of a traversal                                                *)
(***************************************************************************)

\* The traversal in progress.
Going(kid, rank, below, crit, at, all, st, dir, d, x) ==
    /\ Frozen(kid, rank, below, crit, at, all, live, stored)
    /\ Stack(kid, rank, childs, live, st, dir, d, trav.free)
    /\ Position(kid, live, st, dir, d, x, trav)
    /\ Rest(kid, below, crit, at, all, live, byte, otherbits, st, dir, d, x, trav)

\* What it knows.
LEMMA Unpack ==
    ASSUME Inv, trav # Idle
    PROVE  /\ TravShape /\ trav.iter \in Pointer /\ trav.parent \in Pointer
           /\ trav.free \in BOOLEAN /\ live \in SUBSET Node /\ Typed(childs)
           /\ stored \subseteq Object
           /\ \E kid, rank, below, crit, at, all, st, dir, d, x :
                  Going(kid, rank, below, crit, at, all, st, dir, d, x)
<1>1. TravShape /\ OnTheWay(childs, live, stored, byte, otherbits, trav)
  BY DEF Inv
<1>2. PICK P, T, K : trav \in [op : {"traverse"}, iter : Pointer, parent : Pointer, free : BOOLEAN,
                               prefix : P, todo : T, ok : K]
  BY <1>1 DEF TravShape
<1>3. trav.iter \in Pointer /\ trav.parent \in Pointer /\ trav.free \in BOOLEAN
  BY <1>2
<1>4. PICK kid, rank, below, crit, at, all :
          /\ Frozen(kid, rank, below, crit, at, all, live, stored)
          /\ Trip(kid, rank, below, crit, at, all, childs, live, byte, otherbits, trav)
  BY <1>1 DEF OnTheWay
<1>5. PICK st, dir, d, x :
          /\ Stack(kid, rank, childs, live, st, dir, d, trav.free)
          /\ Position(kid, live, st, dir, d, x, trav)
          /\ Rest(kid, below, crit, at, all, live, byte, otherbits, st, dir, d, x, trav)
  BY <1>4 DEF Trip
<1>6. Going(kid, rank, below, crit, at, all, st, dir, d, x)
  BY <1>4, <1>5 DEF Going
<1> QED BY <1>1, <1>3, <1>6 DEF Inv

\* What a step has to show.
LEMMA Pack ==
    ASSUME NEW c, NEW nodes, NEW byt, NEW ob, NEW t,
           NEW kid, NEW rank, NEW below, NEW crit, NEW at, NEW all, NEW st, NEW dir, NEW d, NEW x,
           Frozen(kid, rank, below, crit, at, all, nodes, stored),
           Stack(kid, rank, c, nodes, st, dir, d, t.free),
           Position(kid, nodes, st, dir, d, x, t),
           Rest(kid, below, crit, at, all, nodes, byt, ob, st, dir, d, x, t)
    PROVE  OnTheWay(c, nodes, stored, byt, ob, t)
<1>1. Trip(kid, rank, below, crit, at, all, c, nodes, byt, ob, t)
  BY DEF Trip
<1> QED BY <1>1 DEF OnTheWay

\* The callback of an entry: the traversal turns round.
LEMMA EntryStep ==
    ASSUME Inv, TraverseEntry
    PROVE  Inv'
<1>1. /\ trav # Idle /\ trav.iter # Null /\ trav.iter.to \notin Node
      /\ UNCHANGED <<childs, byte, otherbits, live, stored>>
  BY DEF TraverseEntry, Traversing, shl_trie_is_node
<1>2. TravShape /\ trav.iter \in Pointer /\ trav.parent \in Pointer /\ stored \subseteq Object
  BY <1>1, Unpack
<1>3. PICK kid, rank, below, crit, at, all, st, dir, d, y :
          Going(kid, rank, below, crit, at, all, st, dir, d, y)
  BY <1>1, Unpack
<1>4. /\ d \in Nat /\ st[0] = None /\ \A k \in 1..d : st[k] \in live
      /\ StackType(live, st, dir, d) /\ Chained(kid, rank, st, dir, d)
  BY <1>3 DEF Going, Stack, StackType
<1>5. trav.iter # To(st[d])
  <2>1. CASE d = 0
    BY <1>1, <1>4, <2>1 DEF Null
  <2>2. CASE d # 0
    <3>1. d \in 1..d
      BY <1>4, <2>2
    <3>2. st[d] \in Node
      BY <1>4, <3>1 DEF Inv
    <3> QED BY <1>1, <3>2, ToIs
  <2> QED BY <2>1, <2>2
<1>6. PICK x : /\ trav.iter = To(x) /\ Down(kid, live, st, dir, d, trav.free, x)
               /\ trav.parent = To(st[d]) /\ x = y
  BY <1>3, <1>5 DEF Going, Position
<1>7. trav' = [trav EXCEPT !.iter = trav.parent, !.parent = To(x),
                           !.ok = trav.ok /\ IsFirst(x, trav.todo), !.todo = trav.todo \ {x}]
  <2>1. shl_trie_clear_visited(trav.iter) = To(x) /\ trav.iter.to = x
    BY <1>6, Marking, ToIs
  <2> QED BY <2>1 DEF TraverseEntry
<1>8. To(x) \in Pointer
  BY <1>2, <1>6
<1>9. /\ TravShape' /\ trav' # Idle
      /\ trav'.iter = trav.parent /\ trav'.parent = To(x) /\ trav'.free = trav.free
      /\ trav'.prefix = trav.prefix /\ trav'.todo = trav.todo \ {x}
      /\ trav'.ok = (trav.ok /\ IsFirst(x, trav.todo))
  <2>1. PICK k, w : k = (trav.ok /\ IsFirst(x, trav.todo)) /\ w = trav.todo \ {x}
    OBVIOUS
  <2>2. trav' = [trav EXCEPT !.iter = trav.parent, !.parent = To(x), !.ok = k, !.todo = w]
    BY <1>7, <2>1
  <2>3. /\ TravShape' /\ trav' # Idle
        /\ trav'.iter = trav.parent /\ trav'.parent = To(x) /\ trav'.free = trav.free
        /\ trav'.prefix = trav.prefix /\ trav'.todo = w /\ trav'.ok = k
    BY <1>2, <1>8, <2>2, TravVisits
  <2> QED BY <2>1, <2>3, Zenon
<1>10. PICK t : t = trav'
  OBVIOUS
<1>11. Position(kid, live, st, dir, d, None, t)
  BY <1>6, <1>9, <1>10 DEF Position, Down
<1>12. Rest(kid, below, crit, at, all, live, byte, otherbits, st, dir, d, None, t)
  <2>1. x \notin Node /\ x # None
    BY <1>1, <1>6, ToIs DEF Null
  <2>2. d >= 1 => x = kid[<<st[d], dir[d]>>]
    BY <1>6 DEF Down
  <2>3. /\ Frozen(kid, rank, below, crit, at, all, live, stored)
        /\ Rest(kid, below, crit, at, all, live, byte, otherbits, st, dir, d, x, trav)
    BY <1>3, <1>6 DEF Going
  <2>4. /\ t.free = trav.free /\ t.prefix = trav.prefix /\ t.todo = trav.todo \ {x}
        /\ t.ok = (trav.ok /\ IsFirst(x, trav.todo))
    BY <1>9, <1>10
  <2> QED BY <1>2, <1>4, <2>1, <2>2, <2>3, <2>4, EntryRest
<1>13. OnTheWay(childs, live, stored, byte, otherbits, t)
  <2>1. /\ Frozen(kid, rank, below, crit, at, all, live, stored)
        /\ Stack(kid, rank, childs, live, st, dir, d, t.free)
    BY <1>3, <1>9, <1>10 DEF Going
  <2> QED BY <1>11, <1>12, <2>1, Pack
<1>14. OnTheWay(childs, live, stored, byte, otherbits, trav)'
  BY <1>1, <1>10, <1>13
<1> QED BY <1>1, <1>9, <1>14 DEF Inv, Typed, Pointer

\* At a node there are two cases: it is new, or it is the top of the stack.
NewNode(kid, st, dir, d, x, n) ==
    /\ trav.parent = To(st[d]) /\ Down(kid, live, st, dir, d, trav.free, n) /\ x = n
    /\ \A k \in 1..d : st[k] # n
    /\ childs[n][0] = To(kid[<<n, 0>>]) /\ childs[n][1] = To(kid[<<n, 1>>])

\* It comes back to the last node of the stack.
TopNode(kid, st, dir, d, x, n) ==
    /\ d \in Nat /\ d >= 1 /\ n = st[d] /\ dir[d] \in {0, 1} /\ x = None
    /\ trav.parent = To(kid[<<n, dir[d]>>])
    /\ childs[n][dir[d]] = Back(st[d - 1]) /\ childs[n][1 - dir[d]] = To(kid[<<n, 1 - dir[d]>>])

\* A traversal at a node is in one of these cases, and the node is allocated.
LEMMA NodeCases ==
    ASSUME Inv, NEW n \in Node, AtNode(n)
    PROVE  /\ trav # Idle /\ TravShape /\ n \in live
           /\ \E kid, rank, below, crit, at, all, st, dir, d, x :
                  /\ Going(kid, rank, below, crit, at, all, st, dir, d, x)
                  /\ NewNode(kid, st, dir, d, x, n) \/ TopNode(kid, st, dir, d, x, n)
<1>1. trav # Idle /\ trav.iter.to = n
  BY DEF AtNode, Traversing
<1>2. TravShape /\ live \in SUBSET Node
  BY <1>1, Unpack
<1>3. PICK kid, rank, below, crit, at, all, st, dir, d, x :
          Going(kid, rank, below, crit, at, all, st, dir, d, x)
  BY <1>1, Unpack
<1>4. /\ d \in Nat /\ st[0] = None /\ (\A k \in 1..d : st[k] \in live) /\ dir \in [Nat -> {0, 1}]
      /\ Forest(kid, rank, live) /\ Stack(kid, rank, childs, live, st, dir, d, trav.free)
  BY <1>3 DEF Going, Frozen, Stack, StackType
<1>5. CASE trav.parent = To(st[d]) /\ trav.iter = To(x) /\ Down(kid, live, st, dir, d, trav.free, x)
  <2>1. Down(kid, live, st, dir, d, trav.free, n) /\ x = n
    BY <1>1, <1>5, ToIs
  <2>2. n \in live /\ Fresh(kid, childs, n) /\ Outside(rank, st, d, n)
    BY <1>2, <1>4, <2>1, NotInStack
  <2>3. In(childs, <<n, 0>>) = childs[n][0] /\ In(childs, <<n, 1>>) = childs[n][1]
    BY DEF In
  <2>4. childs[n][0] = To(kid[<<n, 0>>]) /\ childs[n][1] = To(kid[<<n, 1>>])
    BY <2>2, <2>3 DEF Fresh
  <2>5. NewNode(kid, st, dir, d, x, n)
    BY <1>5, <2>1, <2>2, <2>4 DEF NewNode, Outside
  <2> QED BY <1>1, <1>2, <1>3, <2>2, <2>5
<1>6. CASE trav.iter = To(st[d]) /\ (d >= 1 => trav.parent = To(kid[<<st[d], dir[d]>>])) /\ x = None
  <2>1. st[d] = n
    BY <1>1, <1>6, ToIs
  <2>2. d # 0
    BY <1>4, <2>1, TrieAssumption
  <2>3. d >= 1 /\ d \in 1..d /\ dir[d] \in {0, 1}
    BY <1>4, <2>2
  <2>4. /\ In(childs, <<st[d], dir[d]>>) = Back(st[d - 1])
        /\ In(childs, <<st[d], 1 - dir[d]>>) = To(kid[<<st[d], 1 - dir[d]>>])
    BY <1>4, <2>3 DEF Stack, Hides
  <2>5. TopNode(kid, st, dir, d, x, n)
    BY <1>4, <1>6, <2>1, <2>3, <2>4 DEF TopNode, In
  <2> QED BY <1>1, <1>2, <1>3, <1>4, <2>1, <2>3, <2>5
<1> QED BY <1>3, <1>5, <1>6 DEF Going, Position

\* A node that is new is put onto the stack, its left child hidden.
LEMMA LeftStep ==
    ASSUME Inv, NEW n \in Node, TraverseLeft(n)
    PROVE  Inv'
<1>1. /\ AtNode(n) /\ childs[n][1].mark = FALSE /\ childs[n][0].mark = FALSE
      /\ trav' = [trav EXCEPT !.iter = childs[n][0], !.parent = To(n)]
      /\ childs' = [childs EXCEPT ![n][0] = shl_trie_mark_visited(trav.parent)]
      /\ UNCHANGED <<byte, otherbits, live, stored>>
  <2>1. Typed(childs)
    BY DEF Inv
  <2>2. childs[n][0].mark \in BOOLEAN /\ childs[n][1].mark \in BOOLEAN
    BY <2>1 DEF Typed, Pointer
  <2> QED BY <2>2 DEF TraverseLeft, RightVisited, shl_trie_is_visited
<1>2. /\ trav # Idle /\ TravShape /\ n \in live /\ live \in SUBSET Node /\ Typed(childs)
      /\ stored \subseteq Object
  BY <1>1, NodeCases DEF Inv
<1>3. PICK kid, rank, below, crit, at, all, st, dir, d, x :
          /\ Going(kid, rank, below, crit, at, all, st, dir, d, x)
          /\ NewNode(kid, st, dir, d, x, n) \/ TopNode(kid, st, dir, d, x, n)
  BY <1>1, NodeCases
<1>4. NewNode(kid, st, dir, d, x, n)
  <2> SUFFICES ASSUME TopNode(kid, st, dir, d, x, n) PROVE FALSE
    BY <1>3
  <2>1. dir[d] \in {0, 1} /\ childs[n][dir[d]] = Back(st[d - 1])
    BY DEF TopNode
  <2>2. Back(st[d - 1]).mark = TRUE
    BY Marking
  <2> QED BY <1>1, <2>1, <2>2
<1>5. /\ Down(kid, live, st, dir, d, trav.free, n) /\ trav.parent = To(st[d])
      /\ childs[n][0] = To(kid[<<n, 0>>]) /\ x = n /\ \A k \in 1..d : st[k] # n
  BY <1>4 DEF NewNode
<1>6. childs' = [childs EXCEPT ![n][0] = Back(st[d])]
  BY <1>1, <1>5, Marking
<1>7. /\ Frozen(kid, rank, below, crit, at, all, live, stored) /\ Forest(kid, rank, live)
      /\ Stack(kid, rank, childs, live, st, dir, d, trav.free) /\ d \in Nat
      /\ Rest(kid, below, crit, at, all, live, byte, otherbits, st, dir, d, n, trav)
  BY <1>3, <1>5 DEF Going, Frozen, Stack, StackType
<1>8. Typed(childs') /\ GoesLeft(kid, rank, childs', live, trav.free, st, dir, d, n)
  <2>1. Back(st[d]) \in Pointer
    BY <1>2, <1>7 DEF Stack, StackType, Back, Pointer
  <2>2. Typed(childs') /\ SlotSet(childs, childs', <<n, 0>>, Back(st[d]))
    BY <1>2, <1>6, <2>1, SetChild
  <2> QED BY <1>2, <1>5, <1>7, <2>2, GoLeft
<1>9. To(kid[<<n, 0>>]) \in Pointer /\ To(n) \in Pointer
  BY <1>2, <1>5, ToType DEF Typed, Target
<1>10. PICK t : t = trav'
  OBVIOUS
<1>11. /\ TravShape' /\ trav' # Idle
       /\ t.iter = To(kid[<<n, 0>>]) /\ t.parent = To(n) /\ SameWork(trav, t)
  BY <1>1, <1>2, <1>5, <1>9, <1>10, TravMoves
<1>12. PICK st2, dir2, d2 :
           /\ Pushed(st, dir, d, n, st2, dir2, d2)
           /\ Stack(kid, rank, childs', live, st2, dir2, d2, trav.free)
           /\ Down(kid, live, st2, dir2, d2, trav.free, kid[<<n, 0>>])
  BY <1>8 DEF GoesLeft
<1>13. Rest(kid, below, crit, at, all, live, byte, otherbits, st2, dir2, d2, kid[<<n, 0>>], t)
  BY <1>2, <1>5, <1>7, <1>11, <1>12, LeftRest
<1>14. Position(kid, live, st2, dir2, d2, kid[<<n, 0>>], t)
  BY <1>11, <1>12 DEF Position, Pushed, SameWork
<1>15. OnTheWay(childs', live, stored, byte, otherbits, t)
  <2>1. Stack(kid, rank, childs', live, st2, dir2, d2, t.free)
    BY <1>11, <1>12 DEF SameWork
  <2> QED BY <1>7, <1>13, <1>14, <2>1, Pack
<1>16. OnTheWay(childs, live, stored, byte, otherbits, trav)'
  BY <1>1, <1>10, <1>15
<1> QED BY <1>1, <1>8, <1>11, <1>16 DEF Inv, Typed, Pointer

\* The top of the stack gets its left child back and hides the right one.
LEMMA RightStep ==
    ASSUME Inv, NEW n \in Node, TraverseRight(n)
    PROVE  Inv'
<1>1. /\ AtNode(n) /\ childs[n][1].mark = FALSE /\ childs[n][0].mark = TRUE
      /\ trav' = [trav EXCEPT !.iter = childs[n][1], !.parent = To(n)]
      /\ childs' = [childs EXCEPT ![n][0] = shl_trie_clear_visited(trav.parent), ![n][1] = childs[n][0]]
      /\ UNCHANGED <<byte, otherbits, live, stored>>
  <2>1. Typed(childs)
    BY DEF Inv
  <2>2. childs[n][0].mark \in BOOLEAN /\ childs[n][1].mark \in BOOLEAN
    BY <2>1 DEF Typed, Pointer
  <2> QED BY <2>2 DEF TraverseRight, RightVisited, shl_trie_is_visited
<1>2. /\ trav # Idle /\ TravShape /\ n \in live /\ live \in SUBSET Node /\ Typed(childs)
      /\ stored \subseteq Object
  BY <1>1, NodeCases DEF Inv
<1>3. PICK kid, rank, below, crit, at, all, st, dir, d, x :
          /\ Going(kid, rank, below, crit, at, all, st, dir, d, x)
          /\ NewNode(kid, st, dir, d, x, n) \/ TopNode(kid, st, dir, d, x, n)
  BY <1>1, NodeCases
<1>4. TopNode(kid, st, dir, d, x, n) /\ dir[d] = 0
  <2>1. ~NewNode(kid, st, dir, d, x, n)
    BY <1>1, ToIs DEF NewNode
  <2>2. TopNode(kid, st, dir, d, x, n)
    BY <1>3, <2>1
  <2>3. dir[d] # 1
    BY <1>1, <2>2, Marking DEF TopNode
  <2> QED BY <2>2, <2>3 DEF TopNode
<1>5. /\ d \in Nat /\ d >= 1 /\ n = st[d] /\ dir[d] = 0 /\ trav.parent = To(kid[<<n, 0>>]) /\ x = None
      /\ childs[n][0] = Back(st[d - 1]) /\ childs[n][1] = To(kid[<<n, 1>>])
  BY <1>4 DEF TopNode
<1>6. childs' = [childs EXCEPT ![n][0] = To(kid[<<n, 0>>]), ![n][1] = Back(st[d - 1])]
  <2>1. shl_trie_clear_visited(trav.parent) = To(kid[<<n, 0>>])
    BY <1>5, Marking
  <2> QED BY <1>1, <1>5, <2>1, Zenon
<1>7. /\ Frozen(kid, rank, below, crit, at, all, live, stored) /\ Forest(kid, rank, live)
      /\ Stack(kid, rank, childs, live, st, dir, d, trav.free)
      /\ Rest(kid, below, crit, at, all, live, byte, otherbits, st, dir, d, None, trav)
  BY <1>3, <1>5 DEF Going, Frozen
<1>8. Typed(childs') /\ GoesRight(kid, rank, childs', live, trav.free, st, dir, d, n)
  <2>1. PICK m : m = [childs EXCEPT ![n][0] = To(kid[<<n, 0>>])]
    OBVIOUS
  <2>2. childs' = [m EXCEPT ![n][1] = Back(st[d - 1])]
    BY <1>6, <2>1
  <2>3. To(kid[<<n, 0>>]) \in Pointer /\ Back(st[d - 1]) \in Pointer
    BY <1>1, <1>2, <1>5, Unpack DEF Typed
  <2>4. Typed(m) /\ SlotSet(childs, m, <<n, 0>>, To(kid[<<n, 0>>]))
    BY <1>2, <2>1, <2>3, SetChild
  <2>5. Typed(childs') /\ SlotSet(m, childs', <<n, 1>>, Back(st[d - 1]))
    BY <2>2, <2>3, <2>4, SetChild
  <2> QED BY <1>2, <1>5, <1>7, <2>4, <2>5, GoRight
<1>9. To(kid[<<n, 1>>]) \in Pointer /\ To(n) \in Pointer
  BY <1>2, <1>5, ToType DEF Typed, Target
<1>10. PICK t : t = trav'
  OBVIOUS
<1>11. /\ TravShape' /\ trav' # Idle
       /\ t.iter = To(kid[<<n, 1>>]) /\ t.parent = To(n) /\ SameWork(trav, t)
  BY <1>1, <1>2, <1>5, <1>9, <1>10, TravMoves
<1>12. PICK st2, dir2, d2 :
           /\ Turned(st, dir, d, st2, dir2, d2)
           /\ Stack(kid, rank, childs', live, st2, dir2, d2, trav.free)
           /\ Down(kid, live, st2, dir2, d2, trav.free, kid[<<n, 1>>])
  BY <1>8 DEF GoesRight
<1>13. Rest(kid, below, crit, at, all, live, byte, otherbits, st2, dir2, d2, kid[<<n, 1>>], t)
  <2>1. ~Repeats(st, d)
    <3>1. /\ StackType(live, st, dir, d) /\ Chained(kid, rank, st, dir, d)
          /\ rank \in [Node -> Nat \ {0}]
      BY <1>7 DEF Stack, Forest
    <3> QED BY <1>2, <3>1, StackDistinct
  <2> QED BY <1>2, <1>5, <1>7, <1>11, <1>12, <2>1, RightRest
<1>14. Position(kid, live, st2, dir2, d2, kid[<<n, 1>>], t)
  BY <1>5, <1>11, <1>12 DEF Position, Turned, SameWork
<1>15. OnTheWay(childs', live, stored, byte, otherbits, t)
  <2>1. Stack(kid, rank, childs', live, st2, dir2, d2, t.free)
    BY <1>11, <1>12 DEF SameWork
  <2> QED BY <1>7, <1>13, <1>14, <2>1, Pack
<1>16. OnTheWay(childs, live, stored, byte, otherbits, trav)'
  BY <1>1, <1>10, <1>15
<1> QED BY <1>1, <1>8, <1>11, <1>16 DEF Inv, Typed, Pointer

\* The top of the stack is taken off, with its right child back or freed.
LEMMA DoneStep ==
    ASSUME Inv, NEW n \in Node, TraverseDone(n)
    PROVE  Inv'
<1>1. /\ AtNode(n) /\ childs[n][1].mark = TRUE
      /\ trav' = [trav EXCEPT !.iter = shl_trie_clear_visited(childs[n][1]), !.parent = To(n)]
      /\ stored' = stored
  <2>1. Typed(childs)
    BY DEF Inv
  <2>2. childs[n][1].mark \in BOOLEAN
    BY <2>1 DEF Typed, Pointer
  <2> QED BY <2>2 DEF TraverseDone, RightVisited, shl_trie_is_visited
<1>2. /\ trav # Idle /\ TravShape /\ n \in live /\ live \in SUBSET Node /\ Typed(childs)
      /\ stored \subseteq Object
  BY <1>1, NodeCases DEF Inv
<1>3. PICK kid, rank, below, crit, at, all, st, dir, d, x :
          /\ Going(kid, rank, below, crit, at, all, st, dir, d, x)
          /\ NewNode(kid, st, dir, d, x, n) \/ TopNode(kid, st, dir, d, x, n)
  BY <1>1, NodeCases
<1>4. TopNode(kid, st, dir, d, x, n) /\ dir[d] = 1
  <2>1. ~NewNode(kid, st, dir, d, x, n)
    BY <1>1, ToIs DEF NewNode
  <2>2. TopNode(kid, st, dir, d, x, n)
    BY <1>3, <2>1
  <2>3. dir[d] # 0
    BY <1>1, <2>2, ToIs DEF TopNode
  <2> QED BY <2>2, <2>3 DEF TopNode
<1>5. /\ d \in Nat /\ d >= 1 /\ n = st[d] /\ dir[d] = 1 /\ trav.parent = To(kid[<<n, 1>>]) /\ x = None
      /\ childs[n][1] = Back(st[d - 1])
  BY <1>4 DEF TopNode
<1>6. /\ Frozen(kid, rank, below, crit, at, all, live, stored) /\ Forest(kid, rank, live)
      /\ Stack(kid, rank, childs, live, st, dir, d, trav.free)
      /\ Rest(kid, below, crit, at, all, live, byte, otherbits, st, dir, d, None, trav)
      /\ StackType(live, st, dir, d) /\ Chained(kid, rank, st, dir, d)
      /\ rank \in [Node -> Nat \ {0}] /\ st \in [Nat -> Node \cup {None}]
  BY <1>3, <1>5 DEF Going, Frozen, Stack, StackType, Forest
<1>7. NextIsTop(kid, st, dir, d)
  BY <1>2, <1>5, <1>6, Popped
<1>8. To(st[d - 1]) \in Pointer /\ To(n) \in Pointer
  <2>1. st[d - 1] \in Target /\ n \in Target
    BY <1>5, <1>6 DEF Target
  <2> QED BY <2>1, ToType
<1>9. PICK t : t = trav'
  OBVIOUS
<1>10. /\ TravShape' /\ trav' # Idle
       /\ t.iter = To(st[d - 1]) /\ t.parent = To(n) /\ SameWork(trav, t)
  <2>1. trav' = [trav EXCEPT !.iter = To(st[d - 1]), !.parent = To(n)]
    BY <1>1, <1>5, Marking
  <2> QED BY <1>2, <1>8, <1>9, <2>1, TravMoves
<1>11. \A nodes : Position(kid, nodes, st, dir, d - 1, None, t)
  BY <1>5, <1>7, <1>10 DEF Position, NextIsTop
<1>12. CASE trav.free
  <2>1. /\ childs' = [childs EXCEPT ![n] = Unused]
        /\ byte' = [byte EXCEPT ![n] = 0] /\ otherbits' = [otherbits EXCEPT ![n] = {}]
        /\ live' = live \ {n}
    BY <1>12 DEF TraverseDone
  <2>2. trav.free = TRUE /\ t.free = TRUE
    BY <1>2, <1>10, <1>12, Unpack DEF SameWork
  <2>3. Stack(kid, rank, childs, live, st, dir, d, TRUE)
    BY <1>6, <2>2
  <2>4. /\ Typed(childs') /\ Forest(kid, rank, live \ {n})
        /\ Stack(kid, rank, childs', live \ {n}, st, dir, d - 1, TRUE)
    BY <1>2, <1>5, <1>6, <2>1, <2>3, GoUpFree
  <2>5. Frozen(kid, rank, below, crit, at, all, live \ {n}, stored)
    BY <1>6, <2>4 DEF Frozen
  <2>6. Rest(kid, below, crit, at, all, live \ {n}, byte', otherbits', st, dir, d - 1, None, t)
    BY <1>2, <1>5, <1>6, <1>10, <1>12, UpFreeRest
  <2>7. OnTheWay(childs', live \ {n}, stored, byte', otherbits', t)
    <3>1. Stack(kid, rank, childs', live \ {n}, st, dir, d - 1, t.free)
      BY <2>2, <2>4
    <3>2. Position(kid, live \ {n}, st, dir, d - 1, None, t)
      BY <1>11
    <3> QED BY <2>5, <2>6, <3>1, <3>2, Pack
  <2>8. OnTheWay(childs, live, stored, byte, otherbits, trav)'
    BY <1>1, <1>9, <2>1, <2>7
  <2>9. byte' \in [Node -> Nat] /\ otherbits' \in [Node -> SUBSET Bits]
    BY <2>1 DEF Inv
  <2> QED BY <1>1, <1>2, <1>10, <2>1, <2>4, <2>8, <2>9 DEF Inv, Typed, Pointer
<1>13. CASE ~trav.free
  <2>1. childs' = [childs EXCEPT ![n][1] = To(kid[<<n, 1>>])] /\ UNCHANGED <<byte, otherbits, live>>
    BY <1>5, <1>13, Marking DEF TraverseDone
  <2>2. trav.free = FALSE /\ t.free = FALSE
    BY <1>2, <1>10, <1>13, Unpack DEF SameWork
  <2>3. Stack(kid, rank, childs, live, st, dir, d, FALSE)
    BY <1>6, <2>2
  <2>4. Typed(childs') /\ Stack(kid, rank, childs', live, st, dir, d - 1, FALSE)
    <3>1. To(kid[<<n, 1>>]) \in Pointer
      BY <1>2, <1>5, Unpack
    <3>2. Typed(childs') /\ SlotSet(childs, childs', <<n, 1>>, To(kid[<<n, 1>>]))
      BY <1>2, <2>1, <3>1, SetChild
    <3> QED BY <1>2, <1>5, <1>6, <2>3, <3>2, GoUp
  <2>5. Rest(kid, below, crit, at, all, live, byte, otherbits, st, dir, d - 1, None, t)
    BY <1>5, <1>6, <1>10, <1>13, UpRest
  <2>6. OnTheWay(childs', live, stored, byte, otherbits, t)
    <3>1. Stack(kid, rank, childs', live, st, dir, d - 1, t.free)
      BY <2>2, <2>4
    <3>2. Position(kid, live, st, dir, d - 1, None, t)
      BY <1>11
    <3> QED BY <1>6, <2>5, <3>1, <3>2, Pack
  <2>7. OnTheWay(childs, live, stored, byte, otherbits, trav)'
    BY <1>1, <1>9, <2>1, <2>6
  <2> QED BY <1>1, <1>2, <1>10, <2>1, <2>4, <2>7 DEF Inv, Typed, Pointer
<1> QED BY <1>12, <1>13

\* At its end the traversal is where it began, and nothing is left.
LEMMA AtEnd ==
    ASSUME Inv, trav # Idle, trav.iter = Null
    PROVE  /\ trav.free => live = {}
           /\ Asked(trav) => trav.ok /\ trav.todo = {}
           /\ ~trav.free => IdleOK(childs, live, stored, byte, otherbits)
<1>1. trav.free \in BOOLEAN /\ live \in SUBSET Node /\ Typed(childs)
  BY Unpack
<1>2. PICK kid, rank, below, crit, at, all, st, dir, d, x :
          Going(kid, rank, below, crit, at, all, st, dir, d, x)
  BY Unpack
<1>3. /\ Frozen(kid, rank, below, crit, at, all, live, stored) /\ Forest(kid, rank, live)
      /\ Stack(kid, rank, childs, live, st, dir, d, trav.free)
      /\ Position(kid, live, st, dir, d, x, trav)
      /\ Rest(kid, below, crit, at, all, live, byte, otherbits, st, dir, d, x, trav)
  BY <1>2 DEF Going, Frozen
<1>4. d \in Nat /\ (\A k \in 1..d : st[k] \in live) /\ dir \in [Nat -> {0, 1}]
  BY <1>3 DEF Stack, StackType
<1>5. d = 0
  <2> SUFFICES ASSUME d # 0 PROVE FALSE
    OBVIOUS
  <2>1. d >= 1 /\ d \in 1..d
    BY <1>4
  <2>2. st[d] \in live /\ st[d] \in Node /\ dir[d] \in {0, 1}
    BY <1>1, <1>4, <2>1
  <2>3. kid[<<st[d], dir[d]>>] \in Node \cup Object
    BY <1>3, <2>2 DEF Forest
  <2>4. trav.iter = To(st[d]) \/ trav.iter = To(kid[<<st[d], dir[d]>>])
    BY <1>3, <2>1 DEF Position, Down
  <2>5. st[d] = None \/ kid[<<st[d], dir[d]>>] = None
    BY <2>4, ToIs DEF Null
  <2> QED BY <2>2, <2>3, <2>5, TrieAssumption
<1>6. x = None
  BY <1>3, ToIs DEF Position, Null
<1>7. /\ trav.free => live = {}
      /\ Asked(trav) => trav.ok /\ trav.todo = {}
  BY <1>3, <1>5, <1>6, NoRest
<1>8. ASSUME ~trav.free PROVE IdleOK(childs, live, stored, byte, otherbits)
  <2>1. Whole(kid, childs, live)
    BY <1>3, <1>5, <1>8 DEF Stack, Hides, Reachable, Whole
  <2>2. KeyedTrie(kid, live, stored, byte, otherbits)
    BY <1>3, <1>8 DEF Rest, Frozen, KeyedTrie
  <2> QED BY <1>3, <2>1, <2>2 DEF IdleOK
<1> QED BY <1>7, <1>8

\* The root is set to an object or to nothing.
LEMMA SetRoot ==
    ASSUME NEW c, Typed(c), NEW x \in Object \cup {None}, NEW e, e = [c EXCEPT ![Trie][0] = To(x)]
    PROVE  Typed(e) /\ In(e, RootSlot) = To(x)
<1>1. PICK r : r = RootSlot
  OBVIOUS
<1>2. r \in Slots(Node) /\ r[1] = Trie /\ r[2] = 0
  BY <1>1, RootIs DEF Slots
<1>3. To(x) \in Pointer
  BY ToType DEF Target
<1>4. e = [c EXCEPT ![r[1]][r[2]] = To(x)]
  BY <1>2
<1>5. Typed(e) /\ SlotSet(c, e, r, To(x))
  BY <1>2, <1>3, <1>4, SetSlot
<1> QED BY <1>1, <1>2, <1>5 DEF SlotSet

\* The end of a traversal leaves the trie as it was, or empty.
LEMMA ReturnStep ==
    ASSUME Inv, TraverseReturn
    PROVE  Inv'
<1>1. /\ trav # Idle /\ trav.iter = Null /\ trav' = Idle
      /\ childs' = IF trav.free THEN [childs EXCEPT ![Trie][0] = Null] ELSE childs
      /\ stored' = IF trav.free THEN {} ELSE stored
      /\ UNCHANGED <<byte, otherbits, live>>
  BY DEF TraverseReturn
<1>2. Typed(childs) /\ byte \in [Node -> Nat]
  BY DEF Inv
<1>3. Typed(childs') /\ IdleOK(childs', live, stored', byte, otherbits)
  <2>1. CASE trav.free
    <3>1. live = {} /\ stored' = {}
      BY <1>1, <2>1, AtEnd
    <3>2. PICK x \in Object \cup {None} : x = None
      OBVIOUS
    <3>3. childs' = [childs EXCEPT ![Trie][0] = To(x)]
      BY <1>1, <2>1, <3>2 DEF Null
    <3>4. Typed(childs') /\ In(childs', RootSlot) = To(x)
      BY <1>2, <3>3, SetRoot
    <3>5. stored' = IF x = None THEN {} ELSE {x}
      BY <3>1, <3>2
    <3>6. IdleOK(childs', {}, stored', byte, otherbits)
      BY <1>2, <3>4, <3>5, NoNodes
    <3> QED BY <3>1, <3>4, <3>6
  <2>2. CASE ~trav.free
    BY <1>1, <1>2, <2>2, AtEnd
  <2> QED BY <2>1, <2>2
<1>4. IdleOK(childs, live, stored, byte, otherbits)'
  BY <1>1, <1>3
<1> QED BY <1>1, <1>3, <1>4 DEF Inv, Typed, Pointer

(***************************************************************************)
(* The caller                                                              *)
(***************************************************************************)

\* A call that finds or changes nothing.
LEMMA NothingDone ==
    ASSUME Inv, trav = Idle, UNCHANGED <<childs, byte, otherbits, live, trav, stored>>
    PROVE  Inv'
<1>1. IdleOK(childs, live, stored, byte, otherbits)
  BY DEF Inv
<1>2. IdleOK(childs, live, stored, byte, otherbits)'
  BY <1>1
<1> QED BY <1>2 DEF Inv, Typed, Pointer

\* The trie of the objects that are stored.
Settled(kid, rank, below, crit) ==
    /\ Forest(kid, rank, live) /\ Whole(kid, childs, live)
    /\ Keyed(kid, below, crit, byte, live, stored) /\ Critical(crit, live, otherbits)

\* Between two calls there is one.
LEMMA IdleSettled ==
    ASSUME Inv, trav = Idle
    PROVE  /\ live \in SUBSET Node /\ Typed(childs) /\ stored \subseteq Object
           /\ byte \in [Node -> Nat] /\ otherbits \in [Node -> SUBSET Bits]
           /\ \E kid, rank, below, crit : Settled(kid, rank, below, crit)
<1>1. PICK kid, rank : /\ Forest(kid, rank, live) /\ Whole(kid, childs, live)
                       /\ KeyedTrie(kid, live, stored, byte, otherbits)
  BY DEF Inv, IdleOK
<1>2. PICK below, crit : Keyed(kid, below, crit, byte, live, stored) /\ Critical(crit, live, otherbits)
  BY <1>1 DEF KeyedTrie
<1>3. Settled(kid, rank, below, crit)
  BY <1>1, <1>2 DEF Settled
<1> QED BY <1>3 DEF Inv

\* A key that is stored does not differ from the closest one, and no other key
\* is the same as that.
LEMMA ClosestDiffers ==
    ASSUME Inv, trav = Idle, root # Null, NEW key \in Key
    PROVE  /\ Closest(key) \in stored /\ KeyOf[Closest(key)] \in Key
           /\ Differences(key, KeyOf[Closest(key)]) = {} <=> \E x \in stored : KeyOf[x] = key
<1>1. PICK kid, rank, below, crit : Settled(kid, rank, below, crit)
  BY IdleSettled
<1>2. live \in SUBSET Node /\ stored \subseteq Object
  BY IdleSettled
<1>3. stored # {}
  BY <1>1, <1>2, EmptyIs DEF Settled
<1>4. PICK y : y = Closest(key)
  OBVIOUS
<1>5. y \in stored /\ \A x \in stored : KeyOf[x] = key => x = y
  BY <1>1, <1>2, <1>3, <1>4, ClosestIs DEF Settled
<1>6. KeyOf[y] \in Key
  BY <1>2, <1>5, TrieAssumption
<1>7. ASSUME Differences(key, KeyOf[y]) = {} PROVE \E x \in stored : KeyOf[x] = key
  <2>1. key = KeyOf[y]
    BY <1>6, <1>7, SameKey
  <2> QED BY <1>5, <2>1
<1>8. ASSUME NEW x \in stored, KeyOf[x] = key PROVE Differences(key, KeyOf[y]) = {}
  BY <1>5, <1>8 DEF Differences
<1> QED BY <1>4, <1>5, <1>6, <1>7, <1>8

\* InsertBefore(): the new trie.
LEMMA InsertTrie ==
    ASSUME Inv, trav = Idle, root # Null, NEW o \in Object,
           NEW new \in Node \ live, NEW entry, entry = KeyOf[Closest(KeyOf[o])],
           Differences(KeyOf[o], entry) # {},
           InsertBefore(o, Min(Differences(KeyOf[o], entry)), entry, new)
    PROVE  /\ Typed(childs') /\ live' \subseteq Node
           /\ byte' \in [Node -> Nat] /\ otherbits' \in [Node -> SUBSET Bits]
           /\ IdleOK(childs', live', stored \cup {o}, byte', otherbits')
<1>1. PICK kid, rank, below, crit : Settled(kid, rank, below, crit)
  BY IdleSettled
<1>2. /\ live \in SUBSET Node /\ stored \subseteq Object /\ Typed(childs)
      /\ byte \in [Node -> Nat] /\ otherbits \in [Node -> SUBSET Bits]
  BY IdleSettled
<1>3. /\ Forest(kid, rank, live) /\ Whole(kid, childs, live)
      /\ Keyed(kid, below, crit, byte, live, stored) /\ Critical(crit, live, otherbits)
  BY <1>1 DEF Settled
<1>4. PICK key \in Key : key = KeyOf[o]
  BY TrieAssumption
<1>5. entry \in Key /\ stored # {} /\ o \notin stored
  <2>1. Closest(key) \in stored /\ entry \in Key
    BY <1>4, ClosestDiffers
  <2>2. ~\E x \in stored : KeyOf[x] = key
    BY <1>4, ClosestDiffers
  <2> QED BY <1>4, <2>1, <2>2
<1>6. PICK j : j = Min(Differences(key, entry))
  OBVIOUS
<1>7. PICK c : c = Max(Differing(ByteAt(key, j), ByteAt(entry, j)))
  OBVIOUS
<1>8. /\ j \in Nat /\ c \in Bits /\ Agree(key, entry, j, c)
      /\ ~(c \in ByteAt(key, j) <=> c \in ByteAt(entry, j))
  BY <1>4, <1>5, <1>6, <1>7, FirstDifference
<1>9. PICK dir : dir = DirectionOf(Bits \ {c}, ByteAt(entry, j))
  OBVIOUS
<1>10. PICK above : above = NodesAbove(Bits \ {c}, j)
  OBVIOUS
<1>11. PICK w, P : w = LastOf(Path(key, above)) /\ P = Track(key, above)
  OBVIOUS
<1>12. InsertBefore(o, j, entry, new)
  BY <1>4, <1>6
<1>13. /\ live' = live \cup {new}
       /\ byte' = [byte EXCEPT ![new] = j]
       /\ otherbits' = [otherbits EXCEPT ![new] = Bits \ {c}]
       /\ childs' = [childs EXCEPT ![new] = [i \in 0..1 |-> IF i = dir THEN At(w) ELSE To(o)],
                                   ![w[1]][w[2]] = To(new)]
  <2>1. PICK nother : nother = OtherBits(ByteAt(KeyOf[o], j), ByteAt(entry, j))
    OBVIOUS
  <2>2. nother = Bits \ {c}
    BY <1>4, <1>7, <2>1 DEF OtherBits
  <2>3. dir = DirectionOf(nother, ByteAt(entry, j))
    BY <1>9, <2>2
  <2>4. above = {n \in Node : \/ byte[n] < j
                              \/ byte[n] = j /\ ~Less(nother, otherbits[n])}
    BY <1>10, <2>2 DEF NodesAbove
  <2>5. w = LastOf(Path(KeyOf[o], above))
    BY <1>4, <1>11
  <2>6. /\ live' = live \cup {new}
        /\ byte' = [byte EXCEPT ![new] = j]
        /\ otherbits' = [otherbits EXCEPT ![new] = nother]
        /\ childs' = [childs EXCEPT ![new] = [i \in 0..1 |-> IF i = dir THEN At(w) ELSE To(o)],
                                    ![w[1]][w[2]] = To(new)]
    BY ONLY <1>12, <2>1, <2>3, <2>4, <2>5 DEF InsertBefore
  <2> QED BY ONLY <2>2, <2>6
<1>14. /\ Way(kid, key, above, P, w) /\ Joins(below, crit, P, key)
       /\ Parts(below, w, dir, key, j, c)
       /\ below[w] # {} /\ kid[w] # None /\ dir \in {0, 1}
  BY <1>2, <1>3, <1>4, <1>5, <1>8, <1>9, <1>10, <1>11, InsertPlace
<1>15. w \in Slots(live) /\ w \in Slots(Node)
  <2>1. w \in Slots(live)
    BY <1>14 DEF Way
  <2> QED BY <1>2, <2>1 DEF Slots
<1>16. Typed(childs') /\ InsertedForest(kid, childs', live, w, new, dir, o)
  <2>1. PICK k : k = [i \in 0..1 |-> IF i = dir THEN In(childs, w) ELSE To(o)]
    OBVIOUS
  <2>2. PICK e : e = [childs EXCEPT ![new] = k]
    OBVIOUS
  <2>3. childs' = [childs EXCEPT ![new] = [i \in 0..1 |-> IF i = dir THEN In(childs, w) ELSE To(o)],
                                 ![w[1]][w[2]] = To(new)]
    BY <1>13, Zenon DEF At, In
  <2>4. childs' = [e EXCEPT ![w[1]][w[2]] = To(new)]
    BY ONLY <2>1, <2>2, <2>3
  <2>5. In(childs, w) \in Pointer
    BY <1>2, <1>15, SlotShape
  <2>6. To(o) \in Pointer /\ To(new) \in Pointer
    BY ToType DEF Target
  <2>7. k \in [0..1 -> Pointer] /\ k[dir] = In(childs, w) /\ k[1 - dir] = To(o)
    BY ONLY <1>14, <2>1, <2>5, <2>6
  <2>8. Typed(e) /\ NodeSet(childs, e, new, k)
    BY <1>2, <2>2, <2>7, SetNode
  <2>9. Typed(childs') /\ SlotSet(e, childs', w, To(new))
    BY <1>15, <2>4, <2>6, <2>8, SetSlot
  <2>10. InsertedForest(kid, childs', live, w, new, dir, o)
    BY <1>2, <1>3, <1>14, <1>15, <2>7, <2>8, <2>9, InsertForest
  <2> QED BY <2>9, <2>10
<1>17. PICK kid2, rank2 : /\ Inserted(kid, kid2, live, w, new, dir, o)
                          /\ Forest(kid2, rank2, live \cup {new}) /\ Whole(kid2, childs', live \cup {new})
  BY <1>16 DEF InsertedForest
<1>18. KeyedTrie(kid2, live \cup {new}, stored \cup {o}, byte', otherbits')
  <2>1. PICK at2, ob2 : at2 = byte' /\ ob2 = otherbits'
    OBVIOUS
  <2>2. at2 = [byte EXCEPT ![new] = j] /\ ob2 = [otherbits EXCEPT ![new] = Bits \ {c}]
    BY <1>13, <2>1
  <2>3. o \in Object \ stored
    BY <1>5
  <2>4. InsertSite(kid, rank, below, crit, stored, o, new, dir, above, P, w, key, j, c, kid2, at2, ob2)
    BY ONLY <1>2, <1>3, <1>4, <1>5, <1>8, <1>14, <1>17, <2>2, <2>3, new \in Node \ live DEF InsertSite
  <2>5. KeyedTrie(kid2, live \cup {new}, stored \cup {o}, at2, ob2)
    BY <2>4, InsertKeyed
  <2> QED BY <2>1, <2>5
<1>19. IdleOK(childs', live', stored \cup {o}, byte', otherbits')
  BY <1>13, <1>17, <1>18 DEF IdleOK
<1>20. /\ byte' \in [Node -> Nat] /\ otherbits' \in [Node -> SUBSET Bits] /\ live' \subseteq Node
  BY <1>2, <1>8, <1>13
<1> QED BY <1>16, <1>19, <1>20

\* Insertion preserves the invariant.
LEMMA InsertStep ==
    ASSUME Inv, NEW o \in Object, NEW mem \in BOOLEAN, shl_trie_insert(o, mem)
    PROVE  Inv'
<1> DEFINE entry == KeyOf[Closest(KeyOf[o])]
           diff  == Differences(KeyOf[o], entry)
<1>1. trav = Idle /\ trav' = Idle /\ (mem => live # Node) /\ o \notin stored
  BY DEF shl_trie_insert
<1>2. /\ live \in SUBSET Node /\ Typed(childs) /\ stored \subseteq Object \ Misaligned
      /\ byte \in [Node -> Nat]
  BY DEF Inv
<1>3. IF o \in Misaligned \/ (root # Null /\ (diff = {} \/ ~mem))
      THEN UNCHANGED <<childs, byte, otherbits, live>>
      ELSE IF root = Null
      THEN childs' = [childs EXCEPT ![Trie][0] = To(o)] /\ UNCHANGED <<byte, otherbits, live>>
      ELSE InsertBefore(o, Min(diff), entry, CHOOSE n \in Node : n \notin live)
  BY DEF shl_trie_insert
<1>4. stored' = IF \/ o \in Misaligned
                   \/ \E x \in stored : KeyOf[x] = KeyOf[o]
                   \/ stored # {} /\ ~mem
                THEN stored ELSE stored \cup {o}
  BY DEF shl_trie_insert
<1>5. KeyOf[o] \in Key
  BY TrieAssumption
<1>6. PICK kid, rank, below, crit : Settled(kid, rank, below, crit)
  BY <1>1, IdleSettled
<1>7. root = Null <=> stored = {}
  BY <1>2, <1>6, EmptyIs DEF Settled
<1>8. root # Null => (diff = {} <=> \E x \in stored : KeyOf[x] = KeyOf[o])
  BY <1>1, <1>5, ClosestDiffers
<1> HIDE DEF diff
<1>9. CASE o \in Misaligned \/ (root # Null /\ (diff = {} \/ ~mem))
  <2>1. stored' = stored
    BY <1>4, <1>7, <1>8, <1>9
  <2>2. UNCHANGED <<childs, byte, otherbits, live>>
    BY <1>3, <1>9
  <2> QED BY <1>1, <2>1, <2>2, NothingDone
<1>10. CASE o \notin Misaligned /\ root = Null
  <2>1. stored = {} /\ stored' = {o} /\ childs' = [childs EXCEPT ![Trie][0] = To(o)]
    BY <1>3, <1>4, <1>7, <1>10
  <2>2. live = {}
    BY <1>6, <2>1 DEF Settled, Keyed, Counted
  <2>3. UNCHANGED <<byte, otherbits, live>>
    BY <1>3, <1>10
  <2>4. Typed(childs') /\ In(childs', RootSlot) = To(o)
    BY <1>2, <2>1, SetRoot
  <2>5. o # None
    BY TrieAssumption
  <2>6. stored' = IF o = None THEN {} ELSE {o}
    BY <2>1, <2>5
  <2>7. IdleOK(childs', {}, stored', byte, otherbits)
    BY <1>2, <2>4, <2>6, NoNodes
  <2>8. IdleOK(childs, live, stored, byte, otherbits)'
    BY <2>2, <2>3, <2>7
  <2>9. stored' \subseteq Object \ Misaligned
    BY <1>10, <2>1
  <2> QED BY <1>1, <2>3, <2>4, <2>8, <2>9 DEF Inv, Typed, Pointer
<1>11. CASE o \notin Misaligned /\ root # Null /\ diff # {} /\ mem
  <2>1. PICK new : new = CHOOSE n \in Node : n \notin live
    OBVIOUS
  <2>2. new \in Node \ live
    BY <1>1, <1>2, <1>11, <2>1
  <2>3. InsertBefore(o, Min(diff), entry, new)
    BY <1>3, <1>11, <2>1
  <2>4. stored' = stored \cup {o}
    BY <1>4, <1>8, <1>11
  <2>5. PICK en : en = entry
    OBVIOUS
  <2>6. /\ Differences(KeyOf[o], en) # {}
        /\ InsertBefore(o, Min(Differences(KeyOf[o], en)), en, new)
    BY <1>11, <2>3, <2>5 DEF diff
  <2>7. /\ Typed(childs') /\ live' \subseteq Node
        /\ byte' \in [Node -> Nat] /\ otherbits' \in [Node -> SUBSET Bits]
        /\ IdleOK(childs', live', stored \cup {o}, byte', otherbits')
    BY <1>1, <1>11, <2>2, <2>5, <2>6, InsertTrie
  <2>8. IdleOK(childs, live, stored, byte, otherbits)'
    BY <2>4, <2>7
  <2>9. stored' \subseteq Object \ Misaligned
    BY <1>2, <1>11, <2>4
  <2> QED BY <1>1, <2>7, <2>8, <2>9 DEF Inv, Typed, Pointer
<1> QED BY <1>9, <1>10, <1>11

\* What shl_trie_lookup() finds, and what shl_trie_remove() takes out.
LEMMA LookupIs ==
    ASSUME Inv, trav = Idle, NEW key \in Key
    PROVE  /\ shl_trie_lookup(key) = None =>
                  \A x \in stored : KeyOf[x] # key
           /\ shl_trie_lookup(key) # None =>
                  /\ shl_trie_lookup(key) = Closest(key) /\ Closest(key) \in stored
                  /\ \A x \in stored : KeyOf[x] = key <=> x = Closest(key)
<1>1. PICK kid, rank, below, crit : Settled(kid, rank, below, crit)
  BY IdleSettled
<1>2. live \in SUBSET Node /\ stored \subseteq Object
  BY IdleSettled
<1>3. root = Null <=> stored = {}
  BY <1>1, <1>2, EmptyIs DEF Settled
<1>4. PICK y : y = Closest(key)
  OBVIOUS
<1>5. stored # {} => y \in stored /\ \A x \in stored : KeyOf[x] = key => x = y
  BY <1>1, <1>2, <1>4, ClosestIs DEF Settled
<1>6. shl_trie_lookup(key) = IF root # Null /\ KeyOf[y] = key THEN y ELSE None
  BY <1>4 DEF shl_trie_lookup
<1>7. None \notin stored
  BY <1>2, TrieAssumption
<1> QED BY <1>3, <1>4, <1>5, <1>6, <1>7

\* shl_trie_remove(): the new trie, when there is a node above the entry.
LEMMA RemoveTrie ==
    ASSUME Inv, trav = Idle, NEW key \in Key, shl_trie_lookup(key) # None,
           NEW slot, slot = ClosestSlot(key), slot # RootSlot, NEW n, n = slot[1],
           NEW w, w = LastOf(Path(key, Node \ {n})),
           childs' = [childs EXCEPT ![w[1]][w[2]] = childs[n][1 - slot[2]], ![n] = Unused],
           byte' = [byte EXCEPT ![n] = 0], otherbits' = [otherbits EXCEPT ![n] = {}],
           live' = live \ {n}
    PROVE  /\ Typed(childs') /\ live' \subseteq Node
           /\ byte' \in [Node -> Nat] /\ otherbits' \in [Node -> SUBSET Bits]
           /\ IdleOK(childs', live', stored \ {Closest(key)}, byte', otherbits')
<1>1. PICK kid, rank, below, crit : Settled(kid, rank, below, crit)
  BY IdleSettled
<1>2. /\ live \in SUBSET Node /\ stored \subseteq Object /\ Typed(childs)
      /\ byte \in [Node -> Nat] /\ otherbits \in [Node -> SUBSET Bits]
  BY IdleSettled
<1>3. /\ Forest(kid, rank, live) /\ Whole(kid, childs, live)
      /\ Keyed(kid, below, crit, byte, live, stored) /\ Critical(crit, live, otherbits)
  BY <1>1 DEF Settled
<1>4. PICK x \in stored : x = Closest(key)
  BY LookupIs
<1>5. slot \in Slots(live) /\ kid[slot] = x
  BY <1>2, <1>3, <1>4, ClosestIs
<1>6. n \in live /\ w \in Slots(live) /\ w[1] # n /\ At(w).to = n
  BY <1>2, <1>3, PathAbove
<1>7. slot = <<n, slot[2]>> /\ slot[2] \in {0, 1}
  BY <1>2, <1>5, RootIs, SlotShape
<1>8. PICK i \in {0, 1} : i = 1 - slot[2] /\ 1 - i = slot[2]
  BY <1>7
<1>9. kid[<<n, 1 - i>>] = x
  BY <1>5, <1>7, <1>8
<1>10. kid[w] = n
  <2>1. In(childs, w) = To(kid[w])
    BY <1>3, <1>6 DEF Whole
  <2>2. At(w) = To(kid[w])
    BY <2>1, Zenon DEF At, In
  <2> QED BY <1>6, <2>2, ToIs
<1>11. childs' = [childs EXCEPT ![w[1]][w[2]] = childs[n][i], ![n] = Unused]
  BY <1>8
<1>12. Typed(childs') /\ RemovedForest(kid, childs', live, w, <<n, i>>, n)
  <2>1. PICK e : e = childs'
    OBVIOUS
  <2>2. e = [childs EXCEPT ![w[1]][w[2]] = childs[n][i], ![n] = Unused]
    BY <1>11, <2>1
  <2>3. /\ live \in SUBSET Node /\ n \in live /\ i \in {0, 1} /\ w \in Slots(live) /\ w[1] # n
        /\ kid[w] = n /\ Typed(childs) /\ Forest(kid, rank, live) /\ Whole(kid, childs, live)
    BY <1>2, <1>3, <1>6, <1>10
  <2>4. Typed(e) /\ RemovedForest(kid, e, live, w, <<n, i>>, n)
    BY ONLY <2>2, <2>3, RemoveForest
  <2> QED BY <2>1, <2>4
<1>13. PICK kid2, rank2 : /\ Removed(kid, kid2, live, w, <<n, i>>)
                          /\ Forest(kid2, rank2, live \ {n}) /\ Whole(kid2, childs', live \ {n})
  BY <1>12 DEF RemovedForest
<1>14. RemoveSite(kid, rank, below, crit, stored, n, i, x, w, kid2)
  BY <1>2, <1>3, <1>4, <1>6, <1>8, <1>9, <1>10, <1>13 DEF RemoveSite
<1>15. KeyedTrie(kid2, live \ {n}, stored \ {x}, byte', otherbits')
  <2>1. PICK at2, ob2 : at2 = byte' /\ ob2 = otherbits'
    OBVIOUS
  <2>2. at2 = [byte EXCEPT ![n] = 0] /\ ob2 = [otherbits EXCEPT ![n] = {}]
    BY <2>1
  <2>3. KeyedTrie(kid2, live \ {n}, stored \ {x}, at2, ob2)
    BY <1>2, <1>3, <1>14, <2>2, RemoveKeyed
  <2> QED BY <2>1, <2>3
<1>16. IdleOK(childs', live', stored \ {Closest(key)}, byte', otherbits')
  BY <1>4, <1>13, <1>15 DEF IdleOK
<1>17. /\ byte' \in [Node -> Nat] /\ otherbits' \in [Node -> SUBSET Bits] /\ live' \subseteq Node
  BY <1>2, <1>6
<1> QED BY <1>12, <1>16, <1>17

\* Removal preserves the invariant.
LEMMA RemoveStep ==
    ASSUME Inv, NEW key \in Key, shl_trie_remove(key)
    PROVE  Inv'
<1>1. trav = Idle /\ trav' = Idle /\ stored' = {o \in stored : KeyOf[o] # key}
  BY DEF shl_trie_remove
<1>2. /\ live \in SUBSET Node /\ Typed(childs) /\ stored \subseteq Object \ Misaligned
      /\ byte \in [Node -> Nat]
  BY DEF Inv
<1>3. PICK slot : slot = ClosestSlot(key)
  OBVIOUS
<1>4. PICK n : n = slot[1]
  OBVIOUS
<1>5. PICK w : w = LastOf(Path(key, Node \ {n}))
  OBVIOUS
<1>6. IF shl_trie_lookup(key) = None
      THEN UNCHANGED <<childs, byte, otherbits, live>>
      ELSE IF slot = RootSlot
      THEN childs' = [childs EXCEPT ![Trie][0] = Null] /\ UNCHANGED <<byte, otherbits, live>>
      ELSE /\ childs' = [childs EXCEPT ![w[1]][w[2]] = childs[n][1 - slot[2]], ![n] = Unused]
           /\ byte' = [byte EXCEPT ![n] = 0]
           /\ otherbits' = [otherbits EXCEPT ![n] = {}]
           /\ live' = live \ {n}
  BY <1>3, <1>4, <1>5 DEF shl_trie_remove
<1>7. CASE shl_trie_lookup(key) = None
  <2>1. stored' = stored
    BY <1>1, <1>7, LookupIs
  <2> QED BY <1>1, <1>6, <1>7, <2>1, NothingDone
<1>8. shl_trie_lookup(key) # None => stored' = stored \ {Closest(key)} /\ Closest(key) \in stored
  BY <1>1, LookupIs
<1>9. CASE shl_trie_lookup(key) # None /\ slot = RootSlot
  <2>1. PICK kid, rank, below, crit : Settled(kid, rank, below, crit)
    BY <1>1, IdleSettled
  <2>2. stored = {Closest(key)}
    <3>1. stored # {} /\ stored \subseteq Object
      BY <1>2, <1>8, <1>9
    <3>2. below[slot] = {Closest(key)}
      BY <1>2, <1>3, <2>1, <3>1, ClosestIs DEF Settled
    <3>3. below[RootSlot] = stored
      BY <2>1 DEF Settled, Keyed, Gathers
    <3> QED BY <1>9, <3>2, <3>3
  <2>3. live = {}
    <3>1. Counted(live, stored)
      BY <2>1 DEF Settled, Keyed
    <3>2. IsFiniteSet(live)
      BY <1>2, FS_Subset, TrieAssumption
    <3>3. Cardinality(stored) = 1
      BY <2>2, FS_Singleton
    <3>4. Cardinality(live) = 0
      BY <2>2, <3>1, <3>2, <3>3, FS_CardinalityType DEF Counted
    <3> QED BY <3>2, <3>4, FS_EmptySet
  <2>4. PICK x \in Object \cup {None} : x = None
    OBVIOUS
  <2>5. childs' = [childs EXCEPT ![Trie][0] = To(x)] /\ UNCHANGED <<byte, otherbits, live>>
    BY <1>6, <1>9, <2>4 DEF Null
  <2>6. Typed(childs') /\ In(childs', RootSlot) = To(x)
    BY <1>2, <2>5, SetRoot
  <2>7. stored' = IF x = None THEN {} ELSE {x}
    BY <1>8, <1>9, <2>2, <2>4
  <2>8. IdleOK(childs', {}, stored', byte, otherbits)
    BY <1>2, <2>6, <2>7, NoNodes
  <2>9. IdleOK(childs, live, stored, byte, otherbits)'
    BY <2>3, <2>5, <2>8
  <2>10. stored' \subseteq Object \ Misaligned
    BY <1>1, <1>2
  <2> QED BY <1>1, <2>5, <2>6, <2>9, <2>10 DEF Inv, Typed, Pointer
<1>10. CASE shl_trie_lookup(key) # None /\ slot # RootSlot
  <2>1. /\ Typed(childs') /\ live' \subseteq Node
        /\ byte' \in [Node -> Nat] /\ otherbits' \in [Node -> SUBSET Bits]
        /\ IdleOK(childs', live', stored \ {Closest(key)}, byte', otherbits')
    <3>1. /\ childs' = [childs EXCEPT ![w[1]][w[2]] = childs[n][1 - slot[2]], ![n] = Unused]
          /\ byte' = [byte EXCEPT ![n] = 0]
          /\ otherbits' = [otherbits EXCEPT ![n] = {}]
          /\ live' = live \ {n}
      BY ONLY <1>6, <1>10
    <3>2. trav = Idle /\ shl_trie_lookup(key) # None /\ slot # RootSlot
      BY <1>1, <1>10
    <3> QED BY ONLY Inv, key \in Key, <1>3, <1>4, <1>5, <3>1, <3>2, RemoveTrie
  <2>2. IdleOK(childs, live, stored, byte, otherbits)'
    BY <1>8, <1>10, <2>1
  <2>3. stored' \subseteq Object \ Misaligned
    BY <1>1, <1>2
  <2> QED BY <1>1, <2>1, <2>2, <2>3 DEF Inv, Typed, Pointer
<1> QED BY <1>7, <1>9, <1>10

\* The start of a visit or a clear preserves the invariant.
LEMMA VisitStep ==
    ASSUME Inv, NEW key, (key \in Key /\ shl_trie_visit(key)) \/ shl_trie_clear
    PROVE  Inv'
<1>1. trav = Idle /\ UNCHANGED <<childs, byte, otherbits, live, stored>>
  BY DEF shl_trie_visit, shl_trie_clear
<1>2. live \in SUBSET Node /\ stored \subseteq Object
  BY <1>1, IdleSettled
<1>3. PICK kid, rank, below, crit : Settled(kid, rank, below, crit)
  BY <1>1, IdleSettled
<1>4. /\ Forest(kid, rank, live) /\ Whole(kid, childs, live)
      /\ Keyed(kid, below, crit, byte, live, stored) /\ Critical(crit, live, otherbits)
  BY <1>3 DEF Settled
<1>5. CASE key \in Key /\ shl_trie_visit(key) /\ key # << >>
  <2>1. PICK x \in Target : /\ VisitStart(key) = To(x) /\ (x \in Node => x \in live)
                            /\ Within(below, x) = Matching(key)
    BY <1>2, <1>4, <1>5, VisitFinds
  <2>2. shl_trie_traverse(To(x), FALSE, key)
    BY <1>5, <2>1 DEF shl_trie_visit
  <2>3. x \in Node \cup Object \cup {Trie, None}
    BY DEF Target
  <2> QED BY <1>1, <1>4, <2>1, <2>2, <2>3, TravBegins
<1>6. CASE key \in Key /\ shl_trie_visit(key) /\ key = << >>
  <2>1. PICK x \in {Trie, None} : VisitStart(key) = To(x)
    BY <1>6 DEF VisitStart, Null
  <2>2. shl_trie_traverse(To(x), FALSE, key)
    BY <1>6, <2>1 DEF shl_trie_visit
  <2>3. x \in Node \cup Object \cup {Trie, None} /\ x \notin Node
    BY TrieAssumption
  <2> QED BY <1>1, <1>4, <1>6, <2>2, <2>3, TravBegins
<1>7. CASE shl_trie_clear
  <2>1. root = To(kid[RootSlot]) /\ (kid[RootSlot] \in Node => kid[RootSlot] \in live)
    BY <1>4, RootIn
  <2>2. RootSlot \in Slots(live) /\ RootSlot \in Slots(Node)
    BY DEF Slots
  <2>3. PICK x \in Target : x = kid[RootSlot]
    BY <1>4, <2>2 DEF Forest
  <2>4. Within(below, x) = stored
    BY <1>4, <2>2, <2>3, WithinIs DEF Keyed, Gathers
  <2>5. Matching(<< >>) = stored
    BY DEF Matching, IsPrefix
  <2>6. shl_trie_traverse(To(x), TRUE, << >>)
    BY <1>7, <2>1, <2>3 DEF shl_trie_clear
  <2>7. x \in Node \cup Object \cup {Trie, None}
    BY DEF Target
  <2> QED BY <1>1, <1>4, <2>1, <2>3, <2>4, <2>5, <2>6, <2>7, TravBegins
<1> QED BY <1>5, <1>6, <1>7

(***************************************************************************)
(* The theorems                                                            *)
(***************************************************************************)

\* An empty trie satisfies the invariant.
LEMMA InitInv == Init => Inv
<1> SUFFICES ASSUME Init PROVE Inv
  OBVIOUS
<1>1. Null \in Pointer
  BY DEF Null, To, Pointer
<1>2. PICK u : u = Unused
  OBVIOUS
<1>3. PICK r : r = [i \in {0} |-> Null]
  OBVIOUS
<1>4. u \in [0..1 -> Pointer] /\ r \in [{0} -> Pointer] /\ r[0] = Null
  BY <1>1, <1>2, <1>3, UnusedType
<1>5. childs = [x \in Node \cup {Trie} |-> IF x = Trie THEN r ELSE u]
  BY <1>2, <1>3 DEF Init
<1>6. Typed(childs) /\ childs[Trie] = r
  BY <1>4, <1>5, RootIs DEF Typed
<1>7. PICK x \in Object \cup {None} : x = None
  OBVIOUS
<1>8. In(childs, RootSlot) = To(x)
  BY <1>4, <1>6, <1>7, RootIs DEF In, Null
<1>9. /\ byte \in [Node -> Nat] /\ otherbits \in [Node -> SUBSET Bits]
      /\ live = {} /\ stored = {} /\ trav = Idle
  BY DEF Init
<1>10. IdleOK(childs, {}, stored, byte, otherbits)
  BY <1>7, <1>8, <1>9, NoNodes
<1> QED BY <1>6, <1>9, <1>10 DEF Inv

\* Every step preserves the invariant.
LEMMA NextInv == Inv /\ [Next]_vars => Inv'
<1> SUFFICES ASSUME Inv, [Next]_vars PROVE Inv'
  OBVIOUS
<1>1. CASE UNCHANGED vars
  <2>1. /\ IdleOK(childs, live, stored, byte, otherbits)'
             = IdleOK(childs, live, stored, byte, otherbits)
        /\ OnTheWay(childs, live, stored, byte, otherbits, trav)'
             = OnTheWay(childs, live, stored, byte, otherbits, trav)
    BY <1>1 DEF vars
  <2>2. TravShape' = TravShape
    BY <1>1 DEF vars, TravShape, Pointer
  <2> QED BY <1>1, <2>1, <2>2 DEF Inv, vars, Typed, Pointer
<1>2. CASE Caller
  BY <1>2, InsertStep, RemoveStep, VisitStep DEF Caller
<1>3. CASE Traverse
  BY <1>3, EntryStep, LeftStep, RightStep, DoneStep, ReturnStep DEF Traverse
<1> QED BY <1>1, <1>2, <1>3 DEF Next

\* The invariant holds in every state of every behaviour.
LEMMA AlwaysInv == Spec => []Inv
BY InitInv, NextInv, PTL DEF Spec

\* Its variables have their types.
LEMMA InvTyped == Inv => TypeOK
<1> SUFFICES ASSUME Inv PROVE TypeOK
  OBVIOUS
<1>1. trav = Idle \/ {trav.iter, trav.parent} \subseteq Pointer
  <2>1. CASE trav = Idle
    BY <2>1
  <2>2. CASE trav # Idle
    BY <2>2, Unpack
  <2> QED BY <2>1, <2>2
<1> QED BY <1>1 DEF Inv, Typed, TypeOK

\* Between two calls no mark is left, and every node has two children.
LEMMA InvNoTraces == Inv => (trav = Idle => NoTraces)
<1> SUFFICES ASSUME Inv, trav = Idle, NEW n \in live, NEW i \in 0..1
             PROVE  ~childs[n][i].mark /\ childs[n][i].to # None
  BY DEF NoTraces, shl_trie_is_visited
<1>1. PICK kid, rank, below, crit : Settled(kid, rank, below, crit)
  BY IdleSettled
<1>2. Forest(kid, rank, live) /\ Whole(kid, childs, live)
  BY <1>1 DEF Settled
<1>3. PICK s : s = <<n, i>>
  OBVIOUS
<1>4. s \in Slots(live) /\ s[1] = n /\ s[2] = i /\ i \in {0, 1}
  BY <1>3 DEF Slots
<1>5. kid[s] \in Node \cup Object
  BY <1>2, <1>3, <1>4 DEF Forest
<1>6. childs[n][i] = To(kid[s])
  BY <1>2, <1>4 DEF Whole, In
<1> QED BY <1>5, <1>6, ToIs, TrieAssumption

\* The greater one of a number and 0.
LEMMA MaxWithZero ==
    ASSUME NEW k \in Int
    PROVE  Max({k, 0}) = IF k >= 0 THEN k ELSE 0
<1>1. PICK m : m = IF k >= 0 THEN k ELSE 0
  OBVIOUS
<1>2. m \in {k, 0} /\ \A y \in {k, 0} : m >= y
  BY <1>1
<1>3. \A z \in {k, 0} : (\A y \in {k, 0} : z >= y) => z = m
  BY <1>1
<1> QED BY <1>1, <1>2, <1>3 DEF Max

\* Between two calls there is one node less than there are objects.
LEMMA InvCounts ==
    ASSUME Inv, trav = Idle
    PROVE  Cardinality(live) = Max({Cardinality(stored) - 1, 0})
<1>1. Counted(live, stored)
  BY IdleSettled DEF Settled, Keyed
<1>2. IsFiniteSet(live)
  BY FS_Subset, TrieAssumption DEF Inv
<1>3. Cardinality(live) \in Nat /\ Cardinality(stored) \in Nat
  BY <1>1, <1>2, FS_CardinalityType DEF Counted
<1>4. CASE stored = {}
  <2>1. Cardinality(stored) = 0 /\ Cardinality(live) = 0
    BY <1>1, <1>4, FS_EmptySet DEF Counted
  <2> QED BY <2>1, MaxWithZero
<1>5. CASE stored # {}
  <2>1. Cardinality(stored) = Cardinality(live) + 1
    BY <1>1, <1>5 DEF Counted
  <2>2. PICK k \in Int : k = Cardinality(stored) - 1
    BY <1>3
  <2>3. k >= 0 /\ Cardinality(live) = k
    BY <1>3, <2>1, <2>2
  <2> QED BY <2>2, <2>3, MaxWithZero
<1> QED BY <1>4, <1>5

\* TypeOK: in particular no pointer leads anywhere but to a node, an object,
\* the trie head or nothing.
THEOREM TypeCorrect == Spec => []TypeOK
BY InvTyped, AlwaysInv, PTL

\* TraversalSafe: a traversal, be it of a visit or of a clear, which frees the
\* nodes it leaves, only ever looks into nodes that are allocated.
THEOREM TraversalIsSafe == Spec => []TraversalSafe
<1>1. Inv => TraversalSafe
  <2> SUFFICES ASSUME Inv, Traversing, trav.iter.to \in Node PROVE trav.iter.to \in live
    BY DEF TraversalSafe, shl_trie_is_node
  <2>1. PICK n \in Node : n = trav.iter.to
    OBVIOUS
  <2>2. AtNode(n)
    BY <2>1 DEF AtNode
  <2> QED BY <2>1, <2>2, NodeCases
<1> QED BY <1>1, AlwaysInv, PTL

\* NoTraces: between two calls no mark that a traversal made is left in a
\* node, and every node has two children.
THEOREM TraversalsLeaveNoTraces == Spec => [](trav = Idle => NoTraces)
BY InvNoTraces, AlwaysInv, PTL

\* TrieExact: whatever was inserted, refused, removed, visited and cleared
\* before, shl_trie_lookup() finds the object that is stored with a key, and
\* nothing for a key that is not; there is one node less than objects.
THEOREM TrieIsExact == Spec => []TrieExact
<1>1. Inv => TrieExact
  <2> SUFFICES ASSUME Inv, trav = Idle
               PROVE  \A key \in Key :
                          LET found == {o \in stored : KeyOf[o] = key}
                          IN  IF found = {} THEN shl_trie_lookup(key) = None
                              ELSE shl_trie_lookup(key) \in found
    BY InvTyped, InvNoTraces, InvCounts DEF TrieExact
  <2> SUFFICES ASSUME NEW key \in Key, NEW found, found = {o \in stored : KeyOf[o] = key}
               PROVE  IF found = {} THEN shl_trie_lookup(key) = None
                      ELSE shl_trie_lookup(key) \in found
    OBVIOUS
  <2>1. CASE shl_trie_lookup(key) = None
    BY <2>1, LookupIs
  <2>2. CASE shl_trie_lookup(key) # None
    BY <2>2, LookupIs
  <2> QED BY <2>1, <2>2
<1> QED BY <1>1, AlwaysInv, PTL

\* VisitExact: the callbacks of a visit with a prefix are called with exactly
\* the stored objects whose key starts with it, those of a clear with all of
\* them, each once and in the order of the keys.
THEOREM VisitsAreExact == Spec => []VisitExact
<1>1. Inv => VisitExact
  BY AtEnd DEF VisitExact, Exact, Asked
<1> QED BY <1>1, AlwaysInv, PTL
=============================================================================
