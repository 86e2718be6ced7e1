-------------------------- MODULE RingMemoryProofs --------------------------
(***************************************************************************)
(* Lemmas about the operators of RingMemory, shared by the proofs about    *)
(* the two ring buffers.                                                   *)
(***************************************************************************)
EXTENDS RingMemory, SequenceTheorems, WellFoundedInduction, TLAPS

(***************************************************************************)
(* Positions and sizes                                                     *)
(***************************************************************************)

\* Masking a position that has passed the end of the buffer at most once
\* takes the size off it if it has.
LEMMA MaskOnce ==
    ASSUME NEW n \in Nat \ {0}, NEW v \in Nat, v < 2 * n
    PROVE  RING_MASK(n, v) = IF v < n THEN v ELSE v - n
BY DEF RING_MASK

\* The same for a position given as a start and an offset.
LEMMA MaskSum ==
    ASSUME NEW n \in Nat \ {0}, NEW s \in 0..(n - 1), NEW k \in 0..n
    PROVE  /\ RING_MASK(n, s + k) = IF s + k < n THEN s + k ELSE s + k - n
           /\ RING_MASK(n, s + k) \in 0..(n - 1)
<1>1. PICK v \in Nat : v = s + k
  OBVIOUS
<1>2. v < 2 * n
  BY <1>1
<1>3. RING_MASK(n, v) = IF v < n THEN v ELSE v - n
  BY <1>2, MaskOnce
<1>4. RING_MASK(n, v) \in 0..(n - 1)
  BY <1>2, <1>3
<1> QED BY <1>1, <1>3, <1>4

\* The powers of two of a word are positive and fit into it.
LEMMA Pow2Range == \A p \in Pow2 : p \in Nat /\ 1 <= p /\ p <= SizeMax
BY ConstantsAssumption DEF Pow2

\* A non-empty set of naturals has a least element, which Min returns.
LEMMA MinNat ==
    ASSUME NEW S, S \subseteq Nat, S # {}
    PROVE  Min(S) \in S /\ \A y \in S : Min(S) <= y
<1> DEFINE R == OpToRel(<, Nat)
<1>1. \A x, y \in Nat : x < y => <<x, y>> \in R
  BY Zenon DEF OpToRel
<1>2. \E x \in S : \A y \in S : ~(<<y, x>> \in R)
  BY NatLessThanWellFounded, WFMin
<1> HIDE DEF R
<1>3. PICK x \in S : \A y \in S : ~(<<y, x>> \in R)
  BY <1>2
<1>4. \A y \in S : ~(y < x)
  BY <1>1, <1>3, Zenon
<1>5. \A y \in S : x <= y
  BY <1>4
<1> QED BY <1>5 DEF Min

\* While a power of two is left above u, NextPow2 finds one.
LEMMA NextPow2Above ==
    ASSUME NEW u \in Nat, NEW p \in Pow2, u <= p, NEW overflow
    PROVE  NextPow2(u, overflow) \in Pow2 /\ u <= NextPow2(u, overflow)
<1> DEFINE Above == {q \in Pow2 : u <= q}
<1>1. Above \subseteq Nat
  BY Pow2Range, ConstantsAssumption
<1>2. Above # {}
  OBVIOUS
<1> HIDE DEF Above
<1>3. Min(Above) \in Above
  BY <1>1, <1>2, MinNat
<1> USE DEF Above
<1> QED BY <1>3 DEF NextPow2

\* A value that fits into a word is not changed by the wrap-around.
LEMMA WordSmall ==
    ASSUME NEW n \in Nat, n <= SizeMax
    PROVE  Word(n) = n
BY ConstantsAssumption DEF Word

\* How far a masked position k lies behind a masked position u.
LEMMA Behind ==
    ASSUME NEW n \in Nat, NEW s \in Nat, NEW u \in Nat, NEW k \in Nat,
           NEW pos \in Nat, NEW q \in Nat,
           s < n, u <= k, k < n,
           pos = IF s + u < n THEN s + u ELSE s + u - n,
           q = IF s + k < n THEN s + k ELSE s + k - n
    PROVE  IF pos <= q THEN q - pos = k - u ELSE q + n - pos = k - u
OBVIOUS

\* A function on 1..n is a sequence of length n.
LEMMA FunctionIsSeq ==
    ASSUME NEW S, NEW n \in Nat, NEW f \in [1..n -> S]
    PROVE  f \in Seq(S) /\ Len(f) = n
OBVIOUS

(***************************************************************************)
(* The content of a buffer                                                 *)
(***************************************************************************)

\* nb is a buffer of m bytes that starts with the u bytes of b from s on.
Moved(nb, m, b, n, s, u) ==
    /\ nb \in [0..(m - 1) -> Cell]
    /\ Around(nb, m, 0, u) = Around(b, n, s, u)

\* Copying the u bytes from s on to the start of a larger buffer, when they
\* do not reach the end of the old one.
LEMMA CopyStraight ==
    ASSUME NEW n \in Nat, NEW s \in Nat, NEW u \in Nat, NEW m \in Nat,
           n = 0 => s = 0, s <= n, u <= n - s, u <= m,
           NEW b \in [0..(n - 1) -> Cell]
    PROVE  Moved(Memcpy(Malloc(m), 0, b, s, u), m, b, n, s, u)
<1> DEFINE nb == Memcpy(Malloc(m), 0, b, s, u)
<1>1. nb = [i \in 0..(m - 1) |-> IF 0 <= i /\ i < 0 + u THEN b[s + (i - 0)] ELSE Undef]
  BY DEF Memcpy, Malloc
<1> HIDE DEF nb
<1>2. \A i \in 0..(m - 1) : nb[i] = IF i < u THEN b[s + i] ELSE Undef
  BY <1>1
<1>3. \A i \in 0..(m - 1) : nb[i] \in Cell
  BY <1>2 DEF Cell
<1>4. nb \in [0..(m - 1) -> Cell]
  BY <1>1, <1>3
<1>5. \A i \in 1..u : nb[RING_MASK(m, 0 + i - 1)] = b[RING_MASK(n, s + i - 1)]
  <2> SUFFICES ASSUME NEW i \in 1..u
               PROVE  nb[RING_MASK(m, 0 + i - 1)] = b[RING_MASK(n, s + i - 1)]
    OBVIOUS
  <2>1. PICK v \in Nat : v = s + i - 1
    OBVIOUS
  <2>2. PICK w \in Nat : w = 0 + i - 1
    OBVIOUS
  <2>3. RING_MASK(n, v) = v
    BY <2>1 DEF RING_MASK
  <2>4. RING_MASK(m, w) = w
    BY <2>2 DEF RING_MASK
  <2>5. nb[w] = b[s + w]
    BY <1>2, <2>2
  <2> QED BY <2>1, <2>2, <2>3, <2>4, <2>5
<1>6. Around(nb, m, 0, u) = Around(b, n, s, u)
  BY <1>5 DEF Around
<1> QED BY <1>4, <1>6 DEF nb, Moved

\* The same when they reach the end of the old buffer, in two pieces.
LEMMA CopyWrapped ==
    ASSUME NEW n \in Nat \ {0}, NEW s \in 0..(n - 1), NEW u \in 0..n, NEW m \in Nat,
           n - s <= u, u <= m,
           NEW b \in [0..(n - 1) -> Cell],
           NEW b1, b1 = Memcpy(Malloc(m), 0, b, s, n - s),
           NEW nb, nb = Memcpy(b1, n - s, b, 0, u - (n - s))
    PROVE  Moved(nb, m, b, n, s, u)
<1> DEFINE l == n - s
<1>0. l \in 1..n
  OBVIOUS
<1>1. b1 = [i \in 0..(m - 1) |-> IF 0 <= i /\ i < 0 + l THEN b[s + (i - 0)] ELSE Undef]
  BY DEF Memcpy, Malloc
<1>2. DOMAIN b1 = 0..(m - 1)
  BY <1>1
<1>3. nb = [i \in 0..(m - 1) |-> IF l <= i /\ i < l + (u - l) THEN b[0 + (i - l)] ELSE b1[i]]
  BY <1>2 DEF Memcpy
<1>4. \A i \in 0..(m - 1) : nb[i] =
        IF i < l THEN b[s + i] ELSE IF i < u THEN b[i - l] ELSE Undef
  BY <1>0, <1>1, <1>3
<1>5. \A i \in 0..(m - 1) : nb[i] \in Cell
  <2> SUFFICES ASSUME NEW i \in 0..(m - 1) PROVE nb[i] \in Cell
    OBVIOUS
  <2>1. CASE i < l
    BY <2>1, <1>4
  <2>2. CASE ~(i < l) /\ i < u
    BY <2>2, <1>4
  <2>3. CASE ~(i < l) /\ ~(i < u)
    BY <2>3, <1>4 DEF Cell
  <2> QED BY <2>1, <2>2, <2>3
<1>6. nb \in [0..(m - 1) -> Cell]
  BY <1>3, <1>5
<1>7. \A i \in 1..u : nb[RING_MASK(m, 0 + i - 1)] = b[RING_MASK(n, s + i - 1)]
  <2> SUFFICES ASSUME NEW i \in 1..u
               PROVE  nb[RING_MASK(m, 0 + i - 1)] = b[RING_MASK(n, s + i - 1)]
    OBVIOUS
  <2>1. PICK k \in 0..(u - 1) : k = i - 1
    OBVIOUS
  <2>2. RING_MASK(n, s + k) = IF s + k < n THEN s + k ELSE s + k - n
    BY MaskSum
  <2>3. RING_MASK(m, k) = k
    BY DEF RING_MASK
  <2>4. nb[k] = IF k < l THEN b[s + k] ELSE b[k - l]
    BY <1>4
  <2>5. s + i - 1 = s + k /\ 0 + i - 1 = k
    BY <2>1
  <2>6. nb[k] = b[RING_MASK(n, s + k)]
    BY <2>2, <2>4
  <2> QED BY <2>3, <2>5, <2>6
<1>8. Around(nb, m, 0, u) = Around(b, n, s, u)
  BY <1>7 DEF Around
<1> QED BY <1>6, <1>8 DEF Moved

\* b, of n bytes, after writing data from pos on, around its end.
Written(b, n, pos, data) ==
    [i \in 0..(n - 1) |->
        IF pos <= i /\ i < pos + Len(data) THEN data[1 + (i - pos)]
        ELSE IF i < pos + Len(data) - n THEN data[1 + (i + n - pos)] ELSE b[i]]

\* Writing bytes into a buffer leaves a buffer.
LEMMA WrittenType ==
    ASSUME NEW n \in Nat \ {0}, NEW pos \in 0..(n - 1),
           NEW data \in Seq(Byte), Len(data) <= n,
           NEW b \in [0..(n - 1) -> Cell]
    PROVE  Written(b, n, pos, data) \in [0..(n - 1) -> Cell]
<1> DEFINE len == Len(data)
<1>0. len \in Nat /\ \A i \in 1..len : data[i] \in Byte
  OBVIOUS
<1>1. \A i \in 0..(n - 1) : Written(b, n, pos, data)[i] \in Cell
  <2> SUFFICES ASSUME NEW i \in 0..(n - 1)
               PROVE  Written(b, n, pos, data)[i] \in Cell
    OBVIOUS
  <2>1. CASE pos <= i /\ i < pos + len
    <3>1. 1 + (i - pos) \in 1..len
      BY <1>0, <2>1
    <3> QED BY <1>0, <2>1, <3>1 DEF Written, Cell
  <2>2. CASE ~(pos <= i /\ i < pos + len) /\ i < pos + len - n
    <3>1. 1 + (i + n - pos) \in 1..len
      BY <1>0, <2>2
    <3> QED BY <1>0, <2>2, <3>1 DEF Written, Cell
  <2>3. CASE ~(pos <= i /\ i < pos + len) /\ ~(i < pos + len - n)
    BY <2>3 DEF Written
  <2> QED BY <2>1, <2>2, <2>3
<1> QED BY <1>1 DEF Written

\* Writing data behind the u bytes in use appends it to the content, and
\* nothing else changes.  Each ring shows that it writes to its buffer so.
LEMMA PutAppends ==
    ASSUME NEW n \in Nat \ {0}, NEW s \in 0..(n - 1), NEW u \in Nat,
           NEW data \in Seq(Byte), u + Len(data) <= n,
           NEW b \in [0..(n - 1) -> Cell]
    PROVE  Around(Written(b, n, RING_MASK(n, s + u), data), n, s, u + Len(data))
             = Around(b, n, s, u) \o data
<1> DEFINE pos == RING_MASK(n, s + u)
           nb  == Written(b, n, pos, data)
           len == Len(data)
           old == Around(b, n, s, u)
           new == Around(nb, n, s, u + len)
<1>0. len \in Nat
  OBVIOUS
<1>1. pos \in 0..(n - 1) /\ pos = IF s + u < n THEN s + u ELSE s + u - n
  <2>1. u \in 0..n
    BY <1>0
  <2> QED BY <2>1, MaskSum
<1>2. \A k \in 0..(n - 1) : /\ RING_MASK(n, s + k) = IF s + k < n THEN s + k ELSE s + k - n
                            /\ RING_MASK(n, s + k) \in 0..(n - 1)
  BY MaskSum
<1>10. \A i \in 0..(n - 1) : nb[i] =
         IF pos <= i /\ i < pos + len THEN data[1 + (i - pos)]
         ELSE IF i < pos + len - n THEN data[1 + (i + n - pos)] ELSE b[i]
  BY DEF Written
<1> HIDE DEF pos, nb
<1>3. \A k \in 0..(u - 1) : nb[RING_MASK(n, s + k)] = b[RING_MASK(n, s + k)]
  <2> SUFFICES ASSUME NEW k \in 0..(u - 1)
               PROVE  nb[RING_MASK(n, s + k)] = b[RING_MASK(n, s + k)]
    OBVIOUS
  <2> DEFINE q == RING_MASK(n, s + k)
  <2>0. k \in 0..(n - 1)
    BY <1>0
  <2>1. q \in 0..(n - 1) /\ q = IF s + k < n THEN s + k ELSE s + k - n
    BY <2>0, <1>2
  <2> HIDE DEF q
  <2>2. ~(pos <= q /\ q < pos + len) /\ ~(q < pos + len - n)
    BY <1>0, <1>1, <2>1
  <2> QED BY <1>10, <2>1, <2>2 DEF q
<1>4. \A k \in u..(u + len - 1) : nb[RING_MASK(n, s + k)] = data[k - u + 1]
  <2> SUFFICES ASSUME NEW k \in u..(u + len - 1)
               PROVE  nb[RING_MASK(n, s + k)] = data[k - u + 1]
    OBVIOUS
  <2> DEFINE q == RING_MASK(n, s + k)
  <2>0. k \in 0..(n - 1)
    BY <1>0
  <2>1. q \in 0..(n - 1) /\ q = IF s + k < n THEN s + k ELSE s + k - n
    BY <2>0, <1>2
  <2> HIDE DEF q
  <2>4. IF pos <= q THEN q - pos = k - u ELSE q + n - pos = k - u
    <3>1. u <= k /\ k < n /\ k \in Nat
      BY <1>0
    <3>2. n \in Nat /\ s \in Nat /\ s < n /\ u \in Nat
      OBVIOUS
    <3>3. pos \in Nat /\ q \in Nat
      BY <1>1, <2>1
    <3>4. pos = IF s + u < n THEN s + u ELSE s + u - n
      BY <1>1
    <3>5. q = IF s + k < n THEN s + k ELSE s + k - n
      BY <2>1
    <3> QED BY <3>1, <3>2, <3>3, <3>4, <3>5, Behind
  <2>2. CASE pos <= q
    <3>1. q - pos = k - u
      BY <2>4, <2>2
    <3>2. q < pos + len
      BY <1>0, <1>1, <2>1, <3>1
    <3> QED BY <1>10, <2>1, <2>2, <3>1, <3>2 DEF q
  <2>3. CASE ~(pos <= q)
    <3>1. q < pos + len - n /\ q + n - pos = k - u
      BY <1>0, <1>1, <2>1, <2>3, <2>4
    <3> QED BY <1>10, <2>1, <2>3, <3>1 DEF q
  <2> QED BY <1>1, <2>1, <2>2, <2>3
<1>5. \A i \in 1..(u + len) : new[i] = IF i <= u THEN old[i] ELSE data[i - u]
  <2> SUFFICES ASSUME NEW i \in 1..(u + len)
               PROVE  new[i] = IF i <= u THEN old[i] ELSE data[i - u]
    OBVIOUS
  <2>0. PICK k \in 0..(u + len - 1) : k = i - 1
    BY <1>0
  <2>1. s + i - 1 = s + k
    BY <2>0
  <2>2. new[i] = nb[RING_MASK(n, s + k)]
    BY <2>1 DEF Around
  <2>3. CASE i <= u
    <3>1. old[i] = b[RING_MASK(n, s + k)]
      BY <2>1, <2>3 DEF Around
    <3>2. k \in 0..(u - 1)
      BY <2>0, <2>3
    <3> QED BY <2>2, <2>3, <3>1, <3>2, <1>3
  <2>4. CASE ~(i <= u)
    <3>1. k \in u..(u + len - 1) /\ k - u + 1 = i - u
      BY <2>0, <2>4, <1>0
    <3> QED BY <2>2, <2>4, <3>1, <1>4
  <2> QED BY <2>3, <2>4
<1>9. old \in Seq(Cell)
  <2>1. \A i \in 1..u : i - 1 \in 0..(n - 1) /\ s + i - 1 = s + (i - 1)
    BY <1>0
  <2>2. \A i \in 1..u : b[RING_MASK(n, s + i - 1)] \in Cell
    BY <1>2, <2>1
  <2>3. old \in [1..u -> Cell]
    BY <2>2 DEF Around
  <2> HIDE DEF old
  <2> QED BY <2>3, FunctionIsSeq
<1>6. old \o data = [i \in 1..(u + len) |-> IF i <= u THEN old[i] ELSE data[i - u]]
  <2>1. Len(old) = u
    BY DEF Around
  <2>2. data \in Seq(Cell)
    BY DEF Cell
  <2> HIDE DEF old
  <2>3. /\ Len(old \o data) = u + len
        /\ \A i \in 1..(u + len) : (old \o data)[i] = IF i <= u THEN old[i] ELSE data[i - u]
        /\ old \o data \in Seq(Cell)
    BY <1>9, <2>1, <2>2, ConcatProperties
  <2> DEFINE c == old \o data
  <2>4. c = [i \in 1..(u + len) |-> c[i]]
    <3>1. c \in Seq(Cell) /\ Len(c) = u + len
      BY <2>3
    <3> HIDE DEF c
    <3>2. c \in [1..(u + len) -> Cell]
      BY <3>1, LenProperties
    <3> QED BY <3>2
  <2> QED BY <2>3, <2>4
<1>7. new = [i \in 1..(u + len) |-> new[i]]
  BY DEF Around
<1> HIDE DEF new, old
<1>8. new = old \o data
  BY <1>5, <1>6, <1>7
<1> QED BY <1>8 DEF new, old, nb, pos

\* Moving the start over m bytes drops them from the front.
LEMMA PullDrops ==
    ASSUME NEW n \in Nat \ {0}, NEW s \in 0..(n - 1), NEW u \in 0..n, NEW m \in 0..u,
           NEW b
    PROVE  Around(b, n, RING_MASK(n, s + m), u - m) = SubSeq(Around(b, n, s, u), m + 1, u)
<1> DEFINE t == RING_MASK(n, s + m)
<1>0. m \in 0..n
  OBVIOUS
<1>1. t \in 0..(n - 1) /\ t = IF s + m < n THEN s + m ELSE s + m - n
  BY <1>0, MaskSum
<1> HIDE DEF t
<1>2. \A i \in 1..(u - m) : b[RING_MASK(n, t + i - 1)] = b[RING_MASK(n, s + (i + m) - 1)]
  <2> SUFFICES ASSUME NEW i \in 1..(u - m)
               PROVE  RING_MASK(n, t + i - 1) = RING_MASK(n, s + (i + m) - 1)
    OBVIOUS
  <2>1. PICK k \in 0..n : k = i - 1
    OBVIOUS
  <2>2. PICK j \in 0..n : j = i + m - 1
    OBVIOUS
  <2>3. RING_MASK(n, t + k) = IF t + k < n THEN t + k ELSE t + k - n
    BY <1>1, MaskSum
  <2>4. RING_MASK(n, s + j) = IF s + j < n THEN s + j ELSE s + j - n
    BY MaskSum
  <2>5. t + i - 1 = t + k /\ s + (i + m) - 1 = s + j
    BY <1>1, <2>1, <2>2
  <2>6. RING_MASK(n, t + k) = RING_MASK(n, s + j)
    BY <1>1, <2>1, <2>2, <2>3, <2>4
  <2> QED BY <2>5, <2>6
<1>3. SubSeq(Around(b, n, s, u), m + 1, u) =
        [i \in 1..(u - m) |-> b[RING_MASK(n, s + (i + m) - 1)]]
  <2> DEFINE old == Around(b, n, s, u)
  <2>1. \A i \in 1..u : old[i] = b[RING_MASK(n, s + i - 1)]
    BY DEF Around
  <2> HIDE DEF old
  <2>2. SubSeq(old, m + 1, u) = [i \in 1..(u - m) |-> old[i + m]]
    OBVIOUS
  <2>3. \A i \in 1..(u - m) : old[i + m] = b[RING_MASK(n, s + (i + m) - 1)]
    BY <2>1
  <2> QED BY <2>2, <2>3 DEF old
<1>4. Around(b, n, t, u - m) = [i \in 1..(u - m) |-> b[RING_MASK(n, t + i - 1)]]
  BY DEF Around
<1>5. Around(b, n, t, u - m) = SubSeq(Around(b, n, s, u), m + 1, u)
  BY <1>2, <1>3, <1>4
<1> QED BY <1>5 DEF t

\* The content is a sequence of the bytes in use, and of bytes only if all
\* of them were written.
LEMMA AroundSeq ==
    ASSUME NEW n, NEW s, NEW u \in Nat, NEW b
    PROVE  /\ DOMAIN Around(b, n, s, u) = 1..u
           /\ Len(Around(b, n, s, u)) = u
           /\ \A i \in 1..u : Around(b, n, s, u)[i] = b[RING_MASK(n, s + i - 1)]
BY DEF Around

\* The data of a push is a sequence of bytes.
LEMMA DataIsSeq ==
    ASSUME NEW data \in Data
    PROVE  data \in Seq(Byte) /\ Len(data) \in 0..MaxPush /\ Len(data) \in Nat
BY ConstantsAssumption DEF Data

\* A content without uninitialised bytes is a sequence of bytes.
LEMMA ContentBytes ==
    ASSUME NEW n, NEW s, NEW u \in Nat, NEW b,
           \A i \in 1..u : Around(b, n, s, u)[i] \in Byte
    PROVE  Around(b, n, s, u) \in Seq(Byte) /\ Len(Around(b, n, s, u)) = u
<1>1. Around(b, n, s, u) \in [1..u -> Byte]
  BY DEF Around
<1> QED BY <1>1, FunctionIsSeq

(***************************************************************************)
(* Reading a buffer piece by piece                                         *)
(***************************************************************************)

\* The m bytes at position base of a buffer, as one iovec describes them.
Stretch(b, base, m) == [i \in 1..m |-> b[base + i - 1]]

\* Bytes that do not reach the end of the buffer are one piece.
LEMMA OnePiece ==
    ASSUME NEW n \in Nat, NEW s \in Nat, NEW m \in Nat, s + m <= n, NEW b
    PROVE  Around(b, n, s, m) = Stretch(b, s, m)
<1>1. \A i \in 1..m : RING_MASK(n, s + i - 1) = s + i - 1
  <2> SUFFICES ASSUME NEW i \in 1..m PROVE RING_MASK(n, s + i - 1) = s + i - 1
    OBVIOUS
  <2>1. PICK v \in Nat : v = s + i - 1
    OBVIOUS
  <2>2. v < n
    BY <2>1
  <2>3. RING_MASK(n, v) = v
    BY <2>2 DEF RING_MASK
  <2> QED BY <2>1, <2>3
<1> QED BY <1>1 DEF Around, Stretch

\* Bytes that reach the end of the buffer are two.
LEMMA TwoPieces ==
    ASSUME NEW n \in Nat \ {0}, NEW s \in 0..(n - 1), NEW m \in 0..n, n - s <= m,
           NEW b \in [0..(n - 1) -> Cell]
    PROVE  Around(b, n, s, m) = Stretch(b, s, n - s) \o Stretch(b, 0, m - (n - s))
<1> DEFINE l == n - s
           c == m - l
<1>0. l \in 1..n /\ c \in 0..n /\ l \in Nat /\ c \in Nat /\ l + c = m
  OBVIOUS
<1>1. PICK p : p = Stretch(b, s, l)
  OBVIOUS
<1>2. PICK q : q = Stretch(b, 0, c)
  OBVIOUS
<1>3. p \in [1..l -> Cell] /\ \A i \in 1..l : p[i] = b[s + i - 1]
  <2>1. \A i \in 1..l : s + i - 1 \in 0..(n - 1)
    BY <1>0
  <2> HIDE DEF l
  <2> QED BY <1>1, <2>1 DEF Stretch
<1>4. q \in [1..c -> Cell] /\ \A i \in 1..c : q[i] = b[i - 1]
  <2>1. \A i \in 1..c : i - 1 \in 0..(n - 1) /\ 0 + i - 1 = i - 1
    BY <1>0
  <2> HIDE DEF c
  <2> QED BY <1>2, <2>1 DEF Stretch
<1>5. p \in Seq(Cell) /\ Len(p) = l /\ q \in Seq(Cell) /\ Len(q) = c
  BY <1>0, <1>3, <1>4, FunctionIsSeq
<1>6. /\ Len(p \o q) = m
      /\ \A i \in 1..m : (p \o q)[i] = IF i <= l THEN p[i] ELSE q[i - l]
      /\ p \o q \in Seq(Cell)
  <2> HIDE DEF l, c
  <2>1. /\ p \o q \in Seq(Cell)
        /\ Len(p \o q) = Len(p) + Len(q)
        /\ \A i \in 1..(Len(p) + Len(q)) :
               (p \o q)[i] = IF i <= Len(p) THEN p[i] ELSE q[i - Len(p)]
    BY ONLY <1>5, ConcatProperties, Zenon
  <2>2. Len(p) = l /\ Len(p) + Len(q) = m
    BY <1>0, <1>5
  <2> QED BY ONLY <2>1, <2>2
<1>7. PICK pq : pq = p \o q
  OBVIOUS
<1>8. pq = [i \in 1..m |-> pq[i]]
  <2>1. pq \in Seq(Cell) /\ Len(pq) = m
    BY ONLY <1>6, <1>7
  <2> QED BY ONLY <2>1, LenProperties
<1>9. \A i \in 1..m : pq[i] = b[RING_MASK(n, s + i - 1)]
  <2> SUFFICES ASSUME NEW i \in 1..m PROVE pq[i] = b[RING_MASK(n, s + i - 1)]
    OBVIOUS
  <2>1. PICK k \in 0..n : k = i - 1
    OBVIOUS
  <2>2. RING_MASK(n, s + k) = IF s + k < n THEN s + k ELSE s + k - n
    BY MaskSum
  <2>3. s + i - 1 = s + k
    BY <2>1
  <2>4. pq[i] = IF i <= l THEN p[i] ELSE q[i - l]
    BY ONLY <1>6, <1>7, i \in 1..m
  <2>5. CASE i <= l
    <3>1. i \in 1..l /\ s + k < n
      BY <2>1, <2>5
    <3>2. p[i] = b[s + k]
      BY <1>3, <2>3, <3>1
    <3> QED BY <2>2, <2>3, <2>4, <2>5, <3>1, <3>2
  <2>6. CASE ~(i <= l)
    <3>1. i - l \in 1..c /\ ~(s + k < n) /\ (i - l) - 1 = s + k - n
      BY <1>0, <2>1, <2>6
    <3>2. q[i - l] = b[s + k - n]
      BY <1>4, <3>1
    <3> QED BY <2>2, <2>3, <2>4, <2>6, <3>1, <3>2
  <2> QED BY <2>5, <2>6
<1>10. Around(b, n, s, m) = pq
  BY <1>8, <1>9 DEF Around
<1> QED BY <1>1, <1>2, <1>7, <1>10

\* The first m bytes of the content are the m bytes from its start on.
LEMMA AroundPrefix ==
    ASSUME NEW n, NEW s, NEW u \in Nat, NEW m \in 0..u, NEW b
    PROVE  SubSeq(Around(b, n, s, u), 1, m) = Around(b, n, s, m)
<1>1. PICK all : all = Around(b, n, s, u)
  OBVIOUS
<1>2. \A i \in 1..m : all[i] = b[RING_MASK(n, s + i - 1)]
  BY <1>1 DEF Around
<1>3. SubSeq(all, 1, m) = [i \in 1..m |-> all[i]]
  OBVIOUS
<1>4. SubSeq(all, 1, m) = Around(b, n, s, m)
  BY <1>2, <1>3 DEF Around
<1> QED BY <1>1, <1>4
=============================================================================
