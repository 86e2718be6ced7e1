--------------------------- MODULE PtyRingProofs ---------------------------
(***************************************************************************)
(* Proofs about PtyRing, for every set of bytes, word size, allocation     *)
(* limit and length of a push.                                             *)
(***************************************************************************)
EXTENDS PtyRing, RingMemoryProofs

\* The inductive invariant; see ShlRingProofs for why it takes all three.
Inv == TypeOK /\ IndicesValid /\ OnlyPushedBytes

\* The smaller of two numbers.
LEMMA MinPair ==
    ASSUME NEW x \in Nat, NEW y \in Nat
    PROVE  Min({x, y}) = IF x <= y THEN x ELSE y
<1>1. Min({x, y}) \in {x, y} /\ \A z \in {x, y} : Min({x, y}) <= z
  BY MinNat
<1> QED BY <1>1

(***************************************************************************)
(* Growing                                                                 *)
(***************************************************************************)

\* One byte always stays free, and Free counts it.
LEMMA UsedRange ==
    ASSUME TypeOK, IndicesValid
    PROVE  /\ Used \in Nat /\ Used <= size
           /\ size > 0 => Used < size
           /\ size = 0 => Used = 0
           /\ Free = size - Used
           /\ size > 0 => end = IF start + Used < size THEN start + Used
                                ELSE start + Used - size
BY DEF TypeOK, IndicesValid, Used, Free

\* ring_grow() never gives up, and asks for a power of two with room for the
\* bytes in use, the new ones and the one that stays free.
LEMMA GrowSize ==
    ASSUME TypeOK, IndicesValid, NEW add \in 0..MaxPush, ~HasRoom(add)
    PROVE  ring_grow(add) \in Pow2 /\ Used + add < ring_grow(add)
<1> DEFINE need == Used + add + 1
<1>1. PICK p \in Pow2 : DefaultSize <= p /\ MaxAlloc + MaxPush < p
  BY AddressSpaceAssumption
<1>2. /\ Used \in Nat /\ size \in Nat /\ size <= MaxAlloc /\ add \in Nat /\ add <= MaxPush
      /\ MaxAlloc \in Nat /\ MaxPush \in Nat
      /\ Used <= size /\ (size > 0 => Used < size)
      /\ Free = size - Used
  BY UsedRange, ConstantsAssumption DEF TypeOK
<1>3. need \in Nat \ {0} /\ need <= MaxAlloc + MaxPush + 1 /\ need > size
  BY <1>2 DEF HasRoom
<1>4. size + add - Free + 1 = need
  BY <1>2
<1>5. p \in Nat /\ p <= SizeMax /\ need <= p
  BY <1>1, <1>2, <1>3, Pow2Range
<1> HIDE DEF need
<1>6. Word(need) = need
  BY <1>3, <1>5, WordSmall, ConstantsAssumption
<1>7. ring_pow2(need) = NextPow2(need, 0)
  BY <1>3 DEF ring_pow2
<1>8. NextPow2(need, 0) \in Pow2 /\ need <= NextPow2(need, 0)
  BY <1>3, <1>5, NextPow2Above
<1>9. ring_grow(add) = NextPow2(need, 0)
  <2>1. ~(NextPow2(need, 0) <= size)
    BY <1>2, <1>3, <1>8, Pow2Range
  <2> QED BY <1>4, <1>6, <1>7, <2>1 DEF ring_grow
<1>10. need <= ring_grow(add) /\ ring_grow(add) \in Nat
  BY <1>8, <1>9, Pow2Range
<1> QED BY <1>2, <1>8, <1>9, <1>10 DEF need

\* ring_resize() moves the content to the start of the new buffer.
LEMMA ResizeKeepsContents ==
    ASSUME TypeOK, IndicesValid, NEW nsize \in Nat, Used <= nsize
    PROVE  Moved(ring_resize(nsize), nsize, buf, size, start, Used)
<1>1. /\ size \in Nat /\ start \in Nat /\ end \in Nat /\ Used \in Nat /\ Used <= size
      /\ start <= size /\ (size = 0 => start = 0)
      /\ buf \in [0..(size - 1) -> Cell]
  BY UsedRange DEF TypeOK, IndicesValid
<1>2. CASE end >= start
  <2>1. Used = end - start /\ Used <= size - start
    BY <1>1, <1>2 DEF Used, IndicesValid
  <2>2. ring_resize(nsize) = Memcpy(Malloc(nsize), 0, buf, start, Used)
    BY <1>2, <2>1 DEF ring_resize
  <2> QED BY <1>1, <2>1, <2>2, CopyStraight
<1>3. CASE ~(end >= start)
  <2>1. size \in Nat \ {0} /\ start \in 0..(size - 1) /\ Used \in 0..size /\ size - start <= Used
    BY <1>1, <1>3 DEF IndicesValid, Used
  <2>2. PICK b1 : b1 = Memcpy(Malloc(nsize), 0, buf, start, size - start)
    OBVIOUS
  <2>3. PICK nb : nb = Memcpy(b1, size - start, buf, 0, Used - (size - start))
    OBVIOUS
  <2>4. Used - (size - start) = end
    BY <1>1, <1>3 DEF Used
  <2>5. ring_resize(nsize) = nb
    BY <1>3, <2>2, <2>3, <2>4 DEF ring_resize
  <2>6. Moved(nb, nsize, buf, size, start, Used)
    BY <1>1, <2>1, <2>2, <2>3, CopyWrapped
  <2> QED BY <2>5, <2>6
<1> QED BY <1>2, <1>3

(***************************************************************************)
(* Pushing                                                                 *)
(***************************************************************************)

\* The pieces l and, at e1, len - l of a push of len bytes at e.
Pieces(n, e, len, l, e1) ==
    /\ l \in 0..len
    /\ e1 \in 0..(n - 1)
    /\ \/ l = len /\ e + len <= n
       \/ l = n - e /\ e1 = 0 /\ l < len
       \/ l = 0 /\ e1 = e /\ e + len < n
    /\ RING_MASK(n, e1 + (len - l)) = IF e + len < n THEN e + len ELSE e + len - n

\* Where a push ends up: its pieces write the data from e on, around the end
\* of the buffer, and the new end is behind the data.
LEMMA PutPieces ==
    ASSUME NEW n \in Nat \ {0}, NEW s \in 0..(n - 1), NEW u \in Nat, NEW len \in Nat,
           u + len < n,
           NEW e \in 0..(n - 1), e = IF s + u < n THEN s + u ELSE s + u - n,
           NEW l, l = FirstPiece(n, s, e, len),
           NEW e1, e1 = RING_MASK(n, e + l)
    PROVE  Pieces(n, e, len, l, e1)
<1>1. n - e \in Nat /\ Min({n - e, len}) = IF n - e <= len THEN n - e ELSE len
  BY MinPair
<1>2. l = IF s <= e THEN (IF n - e <= len THEN n - e ELSE len) ELSE 0
  BY <1>1 DEF FirstPiece
<1>3. l \in 0..len /\ l \in 0..n
  BY <1>1, <1>2
<1>4. e1 \in 0..(n - 1) /\ e1 = IF e + l < n THEN e + l ELSE e + l - n
  BY <1>3, MaskSum
<1>5. \/ l = len /\ e + len <= n
      \/ l = n - e /\ e1 = 0 /\ l < len
      \/ l = 0 /\ e1 = e /\ e + len < n
  <2>1. CASE s <= e
    BY <2>1, <1>2, <1>3, <1>4
  <2>2. CASE ~(s <= e)
    <3>1. e + len < n
      BY <2>2
    <3> QED BY <2>2, <3>1, <1>2, <1>3, <1>4
  <2> QED BY <2>1, <2>2
<1>6. len - l \in 0..n
  BY <1>3
<1>7. RING_MASK(n, e1 + (len - l)) = IF e1 + (len - l) < n THEN e1 + (len - l) ELSE e1 + (len - l) - n
  BY <1>4, <1>6, MaskSum
<1>8. RING_MASK(n, e1 + (len - l)) = IF e + len < n THEN e + len ELSE e + len - n
  BY <1>3, <1>4, <1>5, <1>7
<1> QED BY <1>3, <1>4, <1>5, <1>8 DEF Pieces

\* e is the end of a content of u bytes that starts at s.
EndAt(n, s, u, e) ==
    e \in 0..(n - 1) /\ e = IF s + u < n THEN s + u ELSE s + u - n

\* The pieces of a push add up to one write around the end.
LEMMA PutIsWritten ==
    ASSUME NEW n \in Nat \ {0}, NEW s \in 0..(n - 1), NEW u \in Nat,
           NEW data \in Seq(Byte), u + Len(data) < n,
           NEW e, EndAt(n, s, u, e),
           NEW b \in [0..(n - 1) -> Cell]
    PROVE  Put(b, n, s, e, data) = Written(b, n, e, data)
<1> DEFINE len == Len(data)
           l   == FirstPiece(n, s, e, len)
           e1  == RING_MASK(n, e + l)
           b1  == Memcpy(b, e, data, 1, l)
<1>0. len \in Nat /\ e \in 0..(n - 1) /\ e = IF s + u < n THEN s + u ELSE s + u - n
  BY DEF EndAt
<1>1. /\ l \in 0..len /\ e1 \in 0..(n - 1)
      /\ \/ l = len /\ e + len <= n
         \/ l = n - e /\ e1 = 0 /\ l < len
         \/ l = 0 /\ e1 = e /\ e + len < n
  <2>1. PICK len2 \in Nat : len2 = len
    BY <1>0
  <2>2. PICK l2 : l2 = FirstPiece(n, s, e, len2)
    OBVIOUS
  <2>3. PICK e2 : e2 = RING_MASK(n, e + l2)
    OBVIOUS
  <2>4. Pieces(n, e, len2, l2, e2)
    BY <1>0, <2>1, <2>2, <2>3, PutPieces
  <2> QED BY <2>1, <2>2, <2>3, <2>4 DEF Pieces
<1>2. Put(b, n, s, e, data) = Memcpy(b1, e1, data, 1 + l, len - l)
  BY DEF Put
<1> HIDE DEF l, e1
<1>3. b1 = [i \in 0..(n - 1) |-> IF e <= i /\ i < e + l THEN data[1 + (i - e)] ELSE b[i]]
  BY DEF Memcpy
<1>4. DOMAIN b1 = 0..(n - 1)
  BY <1>3
<1> HIDE DEF b1
<1>5. Put(b, n, s, e, data) = [i \in 0..(n - 1) |->
          IF e1 <= i /\ i < e1 + (len - l) THEN data[1 + l + (i - e1)] ELSE b1[i]]
  BY <1>2, <1>4 DEF Memcpy
<1>6. \A i \in 0..(n - 1) :
        (IF e1 <= i /\ i < e1 + (len - l) THEN data[1 + l + (i - e1)] ELSE b1[i])
          = IF e <= i /\ i < e + len THEN data[1 + (i - e)]
            ELSE IF i < e + len - n THEN data[1 + (i + n - e)] ELSE b[i]
  <2> SUFFICES ASSUME NEW i \in 0..(n - 1)
               PROVE  (IF e1 <= i /\ i < e1 + (len - l) THEN data[1 + l + (i - e1)] ELSE b1[i])
                        = IF e <= i /\ i < e + len THEN data[1 + (i - e)]
                          ELSE IF i < e + len - n THEN data[1 + (i + n - e)] ELSE b[i]
    OBVIOUS
  <2>0. b1[i] = IF e <= i /\ i < e + l THEN data[1 + (i - e)] ELSE b[i]
    BY <1>3
  <2>1. CASE l = len /\ e + len <= n
    <3>1. ~(e1 <= i /\ i < e1 + (len - l)) /\ ~(i < e + len - n)
      BY <1>0, <1>1, <2>1
    <3> QED BY <2>0, <2>1, <3>1
  <2>2. CASE l = n - e /\ e1 = 0 /\ l < len
    <3>1. CASE e <= i
      <4>1. ~(i < len - l) /\ i < e + len /\ i < e + l
        BY <1>0, <1>1, <2>2, <3>1
      <4> QED BY <1>0, <2>0, <2>2, <3>1, <4>1, SMTT(30)
    <3>2. CASE ~(e <= i)
      <4>1. (i < e + len - n) <=> (i < len - l)
        BY <1>0, <2>2
      <4>2. 1 + l + (i - e1) = 1 + (i + n - e)
        BY <1>0, <2>2
      <4> QED BY <1>0, <1>1, <2>0, <2>2, <3>2, <4>1, <4>2
    <3> QED BY <3>1, <3>2
  <2>3. CASE l = 0 /\ e1 = e /\ e + len < n
    <3>1. ~(i < e + len - n) /\ 1 + l + (i - e1) = 1 + (i - e) /\ ~(e <= i /\ i < e + l)
      BY <1>0, <2>3
    <3>2. (e1 <= i /\ i < e1 + (len - l)) <=> (e <= i /\ i < e + len)
      BY <1>0, <2>3
    <3> QED BY <2>0, <3>1, <3>2
  <2> QED BY <1>1, <2>1, <2>2, <2>3
<1> QED BY <1>5, <1>6 DEF Written

\* The second half of a push, for a buffer with room for the data and with
\* the same content as the ring.
LEMMA PutDataStep ==
    ASSUME Inv, NEW data \in Data, NEW n \in Pow2, n <= MaxAlloc,
           NEW s \in 0..(n - 1), NEW e \in 0..(n - 1),
           NEW b \in [0..(n - 1) -> Cell],
           Around(b, n, s, Used) = Contents,
           Used + Len(data) < n,
           e = IF s + Used < n THEN s + Used ELSE s + Used - n,
           PutData(b, n, s, e, data)
    PROVE  Inv' /\ Contents' = Contents \o data
<1> DEFINE len == Len(data)
<1>1. n \in Nat \ {0} /\ n > 0 /\ Used \in Nat /\ s \in Nat /\ s < n /\ e \in Nat
  BY Pow2Range, UsedRange DEF Inv
<1>2. data \in Seq(Byte) /\ len \in Nat /\ len <= n /\ Used \in 0..n
  BY <1>1, DataIsSeq
<1>13. PICK u \in Nat : u = Used
  BY <1>1
<1>14. u + len < n /\ u \in 0..n /\ e = IF s + u < n THEN s + u ELSE s + u - n
  BY <1>2, <1>13
<1>3. e = RING_MASK(n, s + u)
  BY <1>1, <1>14, MaskSum
<1>15. /\ n \in Nat \ {0} /\ s \in 0..(n - 1) /\ u \in Nat /\ data \in Seq(Byte)
       /\ u + Len(data) < n /\ u + Len(data) <= n
       /\ e \in 0..(n - 1) /\ e = IF s + u < n THEN s + u ELSE s + u - n
       /\ b \in [0..(n - 1) -> Cell]
  BY <1>1, <1>2, <1>14
<1>4. Put(b, n, s, e, data) = Written(b, n, e, data)
  <2>1. EndAt(n, s, u, e)
    BY <1>15 DEF EndAt
  <2> QED BY <1>15, <2>1, PutIsWritten
<1>5. Written(b, n, e, data) \in [0..(n - 1) -> Cell]
  BY <1>1, <1>2, WrittenType
<1>6. Around(Written(b, n, e, data), n, s, Used + len) = Around(b, n, s, Used) \o data
  <2>1. Around(Written(b, n, RING_MASK(n, s + u), data), n, s, u + len) = Around(b, n, s, u) \o data
    BY <1>15, PutAppends, ZenonT(30)
  <2> QED BY <2>1, <1>3, <1>13
<1>7. /\ buf' = Written(b, n, e, data) /\ size' = n /\ start' = s /\ ret' = 0
      /\ end' = IF e + len < n THEN e + len ELSE e + len - n
  <2>1. RING_MASK(n, RING_MASK(n, e + FirstPiece(n, s, e, len)) + (len - FirstPiece(n, s, e, len)))
          = IF e + len < n THEN e + len ELSE e + len - n
    <3>0. PICK m \in Nat : m = len
      BY <1>2
    <3>1. PICK l : l = FirstPiece(n, s, e, m)
      OBVIOUS
    <3>2. PICK e1 : e1 = RING_MASK(n, e + l)
      OBVIOUS
    <3>3. Pieces(n, e, m, l, e1)
      BY <1>1, <1>14, <3>0, <3>1, <3>2, PutPieces
    <3> QED BY <3>0, <3>1, <3>2, <3>3 DEF Pieces
  <2> QED BY <1>4, <2>1 DEF PutData
<1>8. end' \in Nat /\ end' < n /\ Used' = Used + len
  <2>1. end' \in Nat /\ end' < n
    BY <1>1, <1>2, <1>7
  <2>2. Used' = IF end' >= s THEN end' - s ELSE n - s + end'
    BY <1>7 DEF Used
  <2>3. (IF end' >= s THEN end' - s ELSE n - s + end') = u + len
    BY <1>1, <1>2, <1>7, <1>14, <2>1, SMTT(30)
  <2> QED BY <1>13, <2>1, <2>2, <2>3
<1>9. Contents' = Contents \o data
  BY <1>6, <1>7, <1>8 DEF Contents
<1>10. TypeOK'
  <2>1. buf' \in [0..(size' - 1) -> Cell]
    BY <1>5, <1>7
  <2>2. end' \in Nat /\ start' \in Nat /\ ret' \in {0, -ENOMEM} /\ size' \in 0..MaxAlloc
    BY <1>1, <1>2, <1>7, <1>8, ConstantsAssumption
  <2> QED BY <2>1, <2>2 DEF TypeOK
<1>11. IndicesValid'
  BY <1>1, <1>7, <1>8 DEF IndicesValid
<1>12. OnlyPushedBytes'
  <2>1. Contents \in Seq(Byte) /\ Len(Contents) = Used
    BY <1>1, ContentBytes DEF Inv, OnlyPushedBytes, Contents
  <2>2. /\ Contents \o data \in Seq(Byte)
        /\ Len(Contents \o data) = Used + len
    BY <1>2, <2>1, ConcatProperties
  <2>3. \A i \in 1..(Used + len) : (Contents \o data)[i] \in Byte
    BY <2>2, ElementOfSeq
  <2> QED BY <1>8, <1>9, <2>3 DEF OnlyPushedBytes
<1> QED BY <1>9, <1>10, <1>11, <1>12 DEF Inv

\* A push appends its data and returns 0, or changes nothing and returns
\* -ENOMEM.
LEMMA PushStep ==
    ASSUME Inv, NEW data \in Data, ring_push(data)
    PROVE  /\ Inv'
           /\ \/ Contents' = Contents \o data /\ ret' = 0
              \/ Contents' = Contents /\ ret' = -ENOMEM
<1>0. /\ size \in Nat /\ start \in Nat /\ end \in Nat /\ Used \in Nat /\ size <= MaxAlloc
      /\ Free = size - Used /\ Used <= size
      /\ size > 0 => end = IF start + Used < size THEN start + Used ELSE start + Used - size
      /\ Len(data) \in 0..MaxPush /\ Len(data) \in Nat
  BY DataIsSeq, UsedRange, ConstantsAssumption DEF Inv, TypeOK
<1>1. CASE PushFits(data)
  <2>1. HasRoom(Len(data)) /\ PutData(buf, size, start, end, data)
    BY <1>1 DEF PushFits
  <2>2. size > 0 /\ Used + Len(data) < size
    BY <1>0, <2>1 DEF HasRoom
  <2>3. /\ size \in Pow2 /\ start \in 0..(size - 1) /\ end \in 0..(size - 1)
        /\ buf \in [0..(size - 1) -> Cell]
    BY <2>2 DEF Inv, TypeOK, IndicesValid
  <2>4. Inv' /\ Contents' = Contents \o data
    BY <1>0, <2>1, <2>2, <2>3, PutDataStep DEF Contents
  <2>5. ret' = 0
    BY <2>1 DEF PutData
  <2> QED BY <2>4, <2>5
<1>2. CASE PushGrows(data)
  <2> DEFINE nsize == ring_grow(Len(data))
  <2>1. /\ ~HasRoom(Len(data)) /\ nsize \in 1..MaxAlloc
        /\ PutData(ring_resize(nsize), nsize, 0, Used, data)
    BY <1>2 DEF PushGrows
  <2>2. nsize \in Pow2 /\ Used + Len(data) < nsize
    BY <1>0, <2>1, GrowSize DEF Inv
  <2> HIDE DEF nsize
  <2>3. nsize \in Nat /\ nsize > 0 /\ Used < nsize /\ nsize <= MaxAlloc
    BY <1>0, <2>1, <2>2, Pow2Range, ConstantsAssumption
  <2>4. Moved(ring_resize(nsize), nsize, buf, size, start, Used)
    BY <1>0, <2>3, ResizeKeepsContents DEF Inv
  <2>5. /\ ring_resize(nsize) \in [0..(nsize - 1) -> Cell]
        /\ Around(ring_resize(nsize), nsize, 0, Used) = Contents
    BY <2>4 DEF Moved, Contents
  <2>6. /\ 0 \in 0..(nsize - 1) /\ Used \in 0..(nsize - 1)
        /\ Used = IF 0 + Used < nsize THEN 0 + Used ELSE 0 + Used - nsize
    BY <1>0, <2>3
  <2>7. Inv' /\ Contents' = Contents \o data
    BY <2>1, <2>2, <2>3, <2>5, <2>6, PutDataStep
  <2>8. ret' = 0
    BY <2>1 DEF PutData
  <2> QED BY <2>7, <2>8
<1>3. CASE PushFails(data)
  <2>1. UNCHANGED ring /\ ret' = -ENOMEM
    BY <1>3 DEF PushFails
  <2>2. Contents' = Contents
    BY <2>1 DEF Contents, Used, ring
  <2>3. Inv'
    BY <2>1 DEF Inv, TypeOK, IndicesValid, OnlyPushedBytes, Contents, Used, ring
  <2> QED BY <2>1, <2>2, <2>3
<1> QED BY <1>1, <1>2, <1>3 DEF ring_push

(***************************************************************************)
(* Popping                                                                 *)
(***************************************************************************)

\* The two pieces of a pop add up to one move of the start, by as many bytes
\* as asked for and there.
LEMMA PopMoves ==
    ASSUME TypeOK, IndicesValid, size > 0, NEW n \in Nat, ring_pop(n)
    PROVE  start' = RING_MASK(size, start + IF n > Used THEN Used ELSE n)
<1> DEFINE l1 == IF start > end THEN Min({size - start, n}) ELSE 0
           s1 == RING_MASK(size, start + l1)
           l2 == Min({end - s1, n - l1})
           m  == IF n > Used THEN Used ELSE n
<1>0. /\ size \in Nat \ {0} /\ start \in 0..(size - 1) /\ end \in Nat /\ end < size
      /\ start \in Nat /\ Used = IF end >= start THEN end - start ELSE size - start + end
  BY DEF TypeOK, IndicesValid, Used
<1>1. start' = IF n - l1 = 0 THEN s1 ELSE RING_MASK(size, s1 + l2)
  BY DEF ring_pop
<1>2. l1 = IF start > end THEN (IF size - start <= n THEN size - start ELSE n) ELSE 0
  BY <1>0, MinPair
<1>3. l1 \in 0..size /\ l1 <= n
  BY <1>0, <1>2
<1> HIDE DEF l1
<1>4. s1 \in 0..(size - 1) /\ s1 = IF start + l1 < size THEN start + l1 ELSE start + l1 - size
  BY <1>0, <1>3, MaskSum
<1> HIDE DEF s1
<1>5. m \in 0..size
  BY <1>0
<1>6. RING_MASK(size, start + m) = IF start + m < size THEN start + m ELSE start + m - size
  BY <1>0, <1>5, MaskSum
<1>7. CASE n - l1 = 0
  <2>1. m = n /\ l1 = n
    BY <1>0, <1>2, <1>3, <1>7
  <2> QED BY <1>1, <1>4, <1>6, <1>7, <2>1
<1>8. CASE ~(n - l1 = 0)
  <2>1. end - s1 \in Nat /\ n - l1 \in Nat
    BY <1>0, <1>2, <1>3, <1>4, <1>8
  <2>2. l2 = IF end - s1 <= n - l1 THEN end - s1 ELSE n - l1
    BY <2>1, MinPair
  <2>3. l2 \in 0..size
    BY <1>0, <1>4, <2>1, <2>2
  <2> HIDE DEF l2
  <2>4. RING_MASK(size, s1 + l2) = IF s1 + l2 < size THEN s1 + l2 ELSE s1 + l2 - size
    BY <1>0, <1>4, <2>3, MaskSum
  <2>5. s1 + l2 = IF start + m < size THEN start + m ELSE start + m - size
    BY <1>0, <1>2, <1>3, <1>4, <1>8, <2>1, <2>2
  <2>6. s1 + l2 < size
    BY <1>0, <1>4, <2>1, <2>2
  <2> QED BY <1>1, <1>6, <1>8, <2>4, <2>5, <2>6
<1> QED BY <1>7, <1>8

\* A pop drops bytes from the front, as many as asked for and there.
LEMMA PopStep ==
    ASSUME Inv, NEW n \in Nat, ring_pop(n)
    PROVE  /\ Inv' /\ ret' = ret
           /\ \E m \in 0..Used : /\ m = IF n > Used THEN Used ELSE n
                                /\ Contents' = SubSeq(Contents, m + 1, Used)
<1> DEFINE m == IF n > Used THEN Used ELSE n
<1>0. /\ size \in Nat /\ Used \in Nat /\ Used <= size /\ start \in Nat /\ end \in Nat
      /\ size = 0 => start = 0 /\ end = 0 /\ Used = 0
      /\ size > 0 => size \in Pow2 /\ start < size /\ end < size
      /\ size > 0 => end = IF start + Used < size THEN start + Used ELSE start + Used - size
      /\ size > 0 => Used < size
      /\ \A i \in 1..Used : Contents[i] \in Byte
  BY UsedRange DEF Inv, TypeOK, IndicesValid, OnlyPushedBytes
<1>1. buf' = buf /\ size' = size /\ end' = end /\ ret' = ret
  BY DEF ring_pop
<1>2. m \in 0..Used
  BY <1>0
<1>5. m = IF n > Used THEN Used ELSE n
  OBVIOUS
<1>3. CASE size = 0
  <2>0. m = 0 /\ Used = 0 /\ start = 0 /\ end = 0
    BY <1>0, <1>2, <1>3
  <2>1. RING_MASK(size, start + 0) = 0
    BY <1>3, <2>0 DEF RING_MASK
  <2>2. Min({end - 0, n - 0}) = 0
    BY <2>0, MinPair
  <2>3. start' = 0
    BY <2>0, <2>1, <2>2 DEF ring_pop
  <2>4. Used' = 0
    BY <1>1, <2>0, <2>3 DEF Used
  <2>5. Inv'
    BY <1>1, <2>0, <2>3, <2>4 DEF Inv, TypeOK, IndicesValid, OnlyPushedBytes
  <2>6. Contents' = SubSeq(Contents, m + 1, Used)
    BY <2>0, <2>4 DEF Contents, Around
  <2> QED BY <1>1, <1>2, <2>5, <2>6
<1>4. CASE size > 0
  <2>1. size \in Nat \ {0} /\ start \in 0..(size - 1) /\ Used \in 0..size /\ m \in 0..size
    BY <1>0, <1>2, <1>4
  <2>2. start' = RING_MASK(size, start + m)
    BY <1>4, PopMoves DEF Inv
  <2> HIDE DEF m
  <2>3. start' \in 0..(size - 1) /\ start' = IF start + m < size THEN start + m ELSE start + m - size
    BY <2>1, <2>2, MaskSum
  <2>4. Used' = Used - m
    <3>1. PICK u \in Nat : u = Used
      BY <1>0
    <3>2. Used' = IF end >= start' THEN end - start' ELSE size - start' + end
      BY <1>1 DEF Used
    <3>3. /\ m \in 0..u /\ u < size
          /\ end = IF start + u < size THEN start + u ELSE start + u - size
      BY <1>0, <1>2, <1>4, <3>1
    <3>4. (IF end >= start' THEN end - start' ELSE size - start' + end) = u - m
      BY <2>1, <2>3, <3>3
    <3> QED BY <3>1, <3>2, <3>4
  <2>5. Around(buf, size, RING_MASK(size, start + m), Used - m)
          = SubSeq(Around(buf, size, start, Used), m + 1, Used)
    BY <1>2, <2>1, PullDrops
  <2>6. Contents' = SubSeq(Contents, m + 1, Used)
    BY <1>1, <2>2, <2>4, <2>5 DEF Contents
  <2>7. TypeOK'
    BY <1>0, <1>1, <2>3 DEF Inv, TypeOK
  <2>8. IndicesValid'
    BY <1>0, <1>1, <1>4, <2>3 DEF IndicesValid
  <2>9. OnlyPushedBytes'
    <3>1. Contents \in Seq(Byte) /\ Len(Contents) = Used
      BY <1>0, ContentBytes DEF Contents
    <3> SUFFICES ASSUME NEW i \in 1..(Used - m)
                 PROVE  Contents'[i] \in Byte
      BY <2>4 DEF OnlyPushedBytes
    <3>2. SubSeq(Contents, m + 1, Used)[i] = Contents[i + m]
      BY <1>0, <1>2, <3>1
    <3>3. i + m \in 1..Used
      BY <1>0, <1>2
    <3> QED BY <1>0, <2>6, <3>2, <3>3
  <2> QED BY <1>1, <1>2, <1>5, <2>6, <2>7, <2>8, <2>9 DEF Inv
<1> QED BY <1>0, <1>3, <1>4

(***************************************************************************)
(* Theorems                                                                *)
(***************************************************************************)

\* The ring of a new pty satisfies the invariant.
LEMMA InitInv == Init => Inv
BY ConstantsAssumption DEF Init, Inv, TypeOK, IndicesValid, OnlyPushedBytes, Malloc, Used

\* Every step preserves the invariant.
LEMMA NextInv == Inv /\ [Next]_vars => Inv'
<1> SUFFICES ASSUME Inv, [Next]_vars PROVE Inv'
  OBVIOUS
<1>1. CASE \E data \in Data : ring_push(data)
  BY <1>1, PushStep
<1>2. CASE \E n \in 0..(MaxAlloc + 1) : ring_pop(n)
  BY <1>2, PopStep, ConstantsAssumption
<1>3. CASE UNCHANGED vars
  BY <1>3 DEF vars, Inv, TypeOK, IndicesValid, OnlyPushedBytes, Contents, Used
<1> QED BY <1>1, <1>2, <1>3 DEF Next

\* The fields of struct ring keep their types under every operation.
THEOREM TypeCorrect == Spec => []TypeOK
<1>1. Inv => TypeOK
  BY DEF Inv
<1> QED BY <1>1, InitInv, NextInv, PTL DEF Spec

\* ring_grow() only ever asks for powers of two, every index computed with
\* RING_MASK lies inside the buffer, and ring_resize() never makes a byte it
\* did not copy part of the content.
THEOREM BufferStaysValid == Spec => []BufferValid
<1>1. Inv => BufferValid
  BY DEF Inv, BufferValid
<1> QED BY <1>1, InitInv, NextInv, PTL DEF Spec

\* A new ring is an empty queue.
LEMMA InitQueue == Init => Queue!Init
BY DEF Init, Queue!Init, Contents, Around, Used

\* Every step of the ring is a step of the queue, or leaves it alone.
LEMMA NextQueue == Inv /\ [Next]_vars => [Queue!Next]_(Queue!qvars)
<1> SUFFICES ASSUME Inv, [Next]_vars PROVE [Queue!Next]_(Queue!qvars)
  OBVIOUS
<1>1. ASSUME NEW data \in Data, ring_push(data)
      PROVE  Queue!Next
  <2>1. data \in Queue!Data
    BY DEF Data, Queue!Data
  <2>2. Queue!Push(data) \/ Queue!PushFails
    BY <1>1, PushStep DEF Queue!Push, Queue!PushFails, Queue!ENOMEM, ENOMEM
  <2> QED BY <2>1, <2>2 DEF Queue!Next
<1>2. ASSUME NEW n \in 0..(MaxAlloc + 1), ring_pop(n)
      PROVE  Queue!Next
  <2>1. n \in Nat
    BY ConstantsAssumption
  <2>2. PICK m \in 0..Used : Contents' = SubSeq(Contents, m + 1, Used) /\ ret' = ret
    BY <1>2, <2>1, PopStep
  <2>3. Len(Contents) = Used
    BY UsedRange, AroundSeq DEF Inv, Contents
  <2>4. m \in 0..Len(Contents) /\ Queue!Pull(m)
    BY <2>2, <2>3 DEF Queue!Pull
  <2> QED BY <2>4 DEF Queue!Next
<1>3. ASSUME UNCHANGED vars
      PROVE  UNCHANGED Queue!qvars
  BY <1>3 DEF vars, Queue!qvars, Contents, Used
<1> QED BY <1>1, <1>2, <1>3 DEF Next

\* The private ring of src/shl_pty.c implements the byte queue: output is
\* never lost, duplicated or reordered, and a failed push changes nothing.
THEOREM ImplementsQueue == Spec => RefinesQueue
<1>1. Init => Inv /\ Queue!Init
  BY InitInv, InitQueue
<1> QED BY <1>1, NextInv, NextQueue, PTL DEF Spec, RefinesQueue, Queue!Spec

\* A pop takes n bytes from the front of the content, or all there are.
LEMMA PopStepExact ==
    ASSUME Inv, NEW n \in Nat, ring_pop(n)
    PROVE  Contents' = SubSeq(Contents, n + 1, Used)
<1>1. PICK m \in 0..Used : /\ m = IF n > Used THEN Used ELSE n
                          /\ Contents' = SubSeq(Contents, m + 1, Used)
  BY PopStep
<1>2. Used \in Nat
  BY UsedRange DEF Inv, TypeOK
<1>3. CASE n > Used
  <2>1. SubSeq(Contents, Used + 1, Used) = << >> /\ SubSeq(Contents, n + 1, Used) = << >>
    BY <1>2, <1>3
  <2> QED BY <1>1, <1>3, <2>1
<1>4. CASE ~(n > Used)
  BY <1>1, <1>4
<1> QED BY <1>3, <1>4

\* Every push and every pop changes the content in exactly the way its
\* arguments ask for.
THEOREM OperationsAreExact == Spec => OperationsExact
<1> DEFINE Exact ==
      /\ \A data \in Data : ring_push(data) =>
            Contents' = IF ret' = 0 THEN Contents \o data ELSE Contents
      /\ \A n \in 0..(MaxAlloc + 1) : ring_pop(n) =>
            Contents' = SubSeq(Contents, n + 1, Used)
<1>1. Inv => Exact
  <2>1. ASSUME Inv, NEW data \in Data, ring_push(data)
        PROVE  Contents' = IF ret' = 0 THEN Contents \o data ELSE Contents
    <3>1. \/ Contents' = Contents \o data /\ ret' = 0
          \/ Contents' = Contents /\ ret' = -ENOMEM
      BY <2>1, PushStep
    <3>2. -ENOMEM # 0
      BY DEF ENOMEM
    <3> QED BY <3>1, <3>2
  <2>2. ASSUME Inv, NEW n \in 0..(MaxAlloc + 1), ring_pop(n)
        PROVE  Contents' = SubSeq(Contents, n + 1, Used)
    BY <2>2, PopStepExact, ConstantsAssumption
  <2> QED BY <2>1, <2>2
<1>2. Inv /\ [Next]_vars => [Exact]_vars
  BY <1>1
<1> HIDE DEF Exact
<1>3. Spec => [][Exact]_vars
  BY <1>2, InitInv, NextInv, PTL DEF Spec
<1> QED BY <1>3 DEF Exact, OperationsExact

(***************************************************************************)
(* Reading                                                                 *)
(***************************************************************************)

\* The pieces that ring_peek() describes lie inside the buffer and are not
\* empty, and together they are the content.
LEMMA PeekIsExact ==
    ASSUME Inv
    PROVE  PeekExact
<1>0. /\ size \in Nat /\ start \in Nat /\ end \in Nat
      /\ size > 0 => start < size /\ end < size
      /\ size = 0 => start = 0 /\ end = 0
      /\ buf \in [0..(size - 1) -> Cell]
  BY DEF Inv, TypeOK, IndicesValid
<1>1. CASE end = start
  <2>1. ring_peek = << >>
    BY <1>0, <1>1 DEF ring_peek
  <2>2. Contents = << >>
    BY <1>0, <1>1 DEF Contents, Around, Used
  <2> QED BY <2>1, <2>2 DEF PeekExact
<1>2. ASSUME NEW l \in Nat, l > 0, start + l <= size, Used = l,
             ring_peek = << <<start, l>> >>
      PROVE  PeekExact
  <2>1. Contents = Stretch(buf, start, l)
    BY <1>0, <1>2, OnePiece DEF Contents
  <2>2. PICK v : v = ring_peek
    OBVIOUS
  <2>3. Len(v) = 1 /\ v # << >> /\ v[1][1] = start /\ v[1][2] = l
    BY ONLY <1>2, <2>2
  <2>4. \A k \in 1..Len(v) : v[k][2] > 0 /\ v[k][1] + v[k][2] <= size
    BY ONLY <1>2, <2>3
  <2>5. Contents = [i \in 1..v[1][2] |-> buf[v[1][1] + i - 1]]
    BY ONLY <2>1, <2>3 DEF Stretch
  <2> QED BY <2>2, <2>3, <2>4, <2>5 DEF PeekExact
<1>3. CASE end > start
  <2>1. /\ end - start \in Nat /\ end - start > 0 /\ start + (end - start) <= size
        /\ Used = end - start /\ ring_peek = << <<start, end - start>> >>
    BY <1>0, <1>3 DEF Used, ring_peek
  <2> QED BY <1>2, <2>1
<1>4. CASE end < start /\ end = 0
  <2>1. /\ size - start \in Nat /\ size - start > 0 /\ start + (size - start) <= size
        /\ Used = size - start /\ ring_peek = << <<start, size - start>> >>
    BY <1>0, <1>4 DEF Used, ring_peek
  <2> QED BY <1>2, <2>1
<1>5. CASE end < start /\ end # 0
  <2>1. PICK l \in Nat : l = size - start
    BY <1>0, <1>5
  <2>2. /\ l > 0 /\ start + l <= size /\ end > 0 /\ 0 + end <= size
        /\ ring_peek = << <<start, l>>, <<0, end>> >>
    BY <1>0, <1>5, <2>1 DEF ring_peek
  <2>3. /\ size \in Nat \ {0} /\ start \in 0..(size - 1) /\ Used \in 0..size
        /\ size - start <= Used /\ Used - (size - start) = end
    BY <1>0, <1>5 DEF Used
  <2>4. Contents = Stretch(buf, start, l) \o Stretch(buf, 0, end)
    BY <1>0, <2>1, <2>3, TwoPieces DEF Contents
  <2>5. PICK v : v = ring_peek
    OBVIOUS
  <2>6. /\ Len(v) = 2 /\ v # << >> /\ v[1][1] = start /\ v[1][2] = l
        /\ v[2][1] = 0 /\ v[2][2] = end
    BY ONLY <2>2, <2>5
  <2>7. \A k \in 1..Len(v) : v[k][2] > 0 /\ v[k][1] + v[k][2] <= size
    BY ONLY <2>2, <2>6
  <2>8. Contents = [i \in 1..v[1][2] |-> buf[v[1][1] + i - 1]]
                     \o [i \in 1..v[2][2] |-> buf[v[2][1] + i - 1]]
    BY ONLY <2>4, <2>6 DEF Stretch
  <2>9. Len(v) # 1
    BY ONLY <2>6
  <2> QED BY ONLY <2>5, <2>6, <2>7, <2>8, <2>9, Zenon DEF PeekExact
<1> QED BY <1>0, <1>1, <1>3, <1>4, <1>5

\* What pty_write() hands to writev() is the content of the ring, all of it
\* and in order, in pieces that lie inside the buffer.
THEOREM PeeksAreExact == Spec => []PeekExact
<1>1. Inv => PeekExact
  BY PeekIsExact
<1> QED BY <1>1, InitInv, NextInv, PTL DEF Spec
=============================================================================
