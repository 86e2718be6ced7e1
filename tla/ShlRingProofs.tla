--------------------------- MODULE ShlRingProofs ---------------------------
(***************************************************************************)
(* Proofs about ShlRing, for every set of bytes, word size, allocation     *)
(* limit and length of a push: the indices stay inside the buffer, no byte *)
(* that was never pushed is ever part of the content, and the ring         *)
(* implements the byte queue.                                              *)
(***************************************************************************)
EXTENDS ShlRing, RingMemoryProofs

\* The inductive invariant.  RING_MASK is a modulo only for the sizes that
\* IndicesValid allows, and OnlyPushedBytes is about the positions RING_MASK
\* yields, so neither of the three is preserved without the others.
Inv == TypeOK /\ IndicesValid /\ OnlyPushedBytes

(***************************************************************************)
(* Growing                                                                 *)
(***************************************************************************)

\* ring_grow() never gives up, and asks for a power of two with room for
\* the bytes in use and the new ones.
LEMMA GrowSize ==
    ASSUME TypeOK, IndicesValid, NEW add \in 1..MaxPush
    PROVE  ring_grow(add) \in Pow2 /\ used + add <= ring_grow(add)
<1> DEFINE need == used + add
           want == IF need < DefaultSize THEN DefaultSize ELSE need
<1>1. PICK p \in Pow2 : DefaultSize <= p /\ MaxAlloc + MaxPush < p
  BY AddressSpaceAssumption
<1>2. /\ need \in Nat /\ need > used
      /\ need <= MaxAlloc + MaxPush
      /\ DefaultSize \in Nat
  BY ConstantsAssumption, Pow2Range DEF TypeOK, IndicesValid
<1>3. Word(need) = need
  BY <1>1, <1>2, Pow2Range, WordSmall, ConstantsAssumption
<1>4. want \in Nat /\ want <= p /\ need <= want
  BY <1>1, <1>2, Pow2Range, ConstantsAssumption
<1>5. ring_grow(add) = SHL_ALIGN_POWER2(want)
  BY <1>2, <1>3 DEF ring_grow, TypeOK
<1>6. SHL_ALIGN_POWER2(want) \in Pow2 /\ want <= SHL_ALIGN_POWER2(want)
  BY <1>4, NextPow2Above DEF SHL_ALIGN_POWER2
<1> HIDE DEF want
<1> QED BY <1>2, <1>4, <1>5, <1>6, Pow2Range

\* ring_resize() moves the content to the start of the new buffer.
LEMMA ResizeKeepsContents ==
    ASSUME TypeOK, IndicesValid, NEW nsize \in Nat, used <= nsize
    PROVE  Moved(ring_resize(nsize), nsize, buf, size, start, used)
<1>1. /\ size \in Nat /\ start \in Nat /\ used \in Nat /\ used <= size
      /\ start <= size /\ (size = 0 => start = 0)
      /\ buf \in [0..(size - 1) -> Cell]
  BY DEF TypeOK, IndicesValid
<1>2. CASE used <= size - start
  <2>1. ring_resize(nsize) = Memcpy(Malloc(nsize), 0, buf, start, used)
    BY <1>2 DEF ring_resize
  <2> QED BY <1>1, <1>2, <2>1, CopyStraight
<1>3. CASE ~(used <= size - start)
  <2>1. size \in Nat \ {0} /\ start \in 0..(size - 1) /\ used \in 0..size /\ size - start <= used
    BY <1>1, <1>3 DEF IndicesValid
  <2>2. PICK b1 : b1 = Memcpy(Malloc(nsize), 0, buf, start, size - start)
    OBVIOUS
  <2>3. PICK nb : nb = Memcpy(b1, size - start, buf, 0, used - (size - start))
    OBVIOUS
  <2>4. ring_resize(nsize) = nb
    BY <1>3, <2>2, <2>3 DEF ring_resize
  <2>5. Moved(nb, nsize, buf, size, start, used)
    BY <1>1, <2>1, <2>2, <2>3, CopyWrapped
  <2> QED BY <2>4, <2>5
<1> QED BY <1>2, <1>3

(***************************************************************************)
(* Pushing                                                                 *)
(***************************************************************************)

\* Both branches of a push write the data from pos on, around the end.
LEMMA PutIsWritten ==
    ASSUME NEW n \in Nat \ {0}, NEW pos \in 0..(n - 1),
           NEW data \in Seq(Byte), Len(data) <= n,
           NEW b \in [0..(n - 1) -> Cell]
    PROVE  /\ Put(b, n, pos, data) = Written(b, n, pos, data)
           /\ Put(b, n, pos, data) \in [0..(n - 1) -> Cell]
<1> DEFINE len == Len(data)
           l   == n - pos
<1>0. len \in Nat /\ l \in 1..n /\ \A i \in 1..len : data[i] \in Byte
  OBVIOUS
<1>1. ASSUME l >= len
      PROVE  Put(b, n, pos, data) = Written(b, n, pos, data)
  <2>1. Put(b, n, pos, data) =
          [i \in 0..(n - 1) |-> IF pos <= i /\ i < pos + len THEN data[1 + (i - pos)] ELSE b[i]]
    BY <1>1 DEF Put, Memcpy
  <2>2. \A i \in 0..(n - 1) : ~(i < pos + len - n)
    BY <1>0, <1>1
  <2>3. Written(b, n, pos, data) =
          [i \in 0..(n - 1) |-> IF pos <= i /\ i < pos + len THEN data[1 + (i - pos)] ELSE b[i]]
    BY <2>2 DEF Written
  <2> QED BY <2>1, <2>3
<1>2. ASSUME ~(l >= len)
      PROVE  Put(b, n, pos, data) = Written(b, n, pos, data)
  <2> DEFINE b1 == Memcpy(b, pos, data, 1, l)
  <2>1. b1 = [i \in 0..(n - 1) |-> IF pos <= i /\ i < pos + l THEN data[1 + (i - pos)] ELSE b[i]]
    BY DEF Memcpy
  <2>2. DOMAIN b1 = 0..(n - 1)
    BY <2>1
  <2>3. Put(b, n, pos, data) =
          [i \in 0..(n - 1) |-> IF 0 <= i /\ i < 0 + (len - l) THEN data[1 + l + (i - 0)] ELSE b1[i]]
    BY <1>2, <2>2 DEF Put, Memcpy
  <2> HIDE DEF b1
  <2>4. \A i \in 0..(n - 1) :
          (IF 0 <= i /\ i < 0 + (len - l) THEN data[1 + l + (i - 0)] ELSE b1[i])
            = IF pos <= i /\ i < pos + len THEN data[1 + (i - pos)]
              ELSE IF i < pos + len - n THEN data[1 + (i + n - pos)] ELSE b[i]
    <3> SUFFICES ASSUME NEW i \in 0..(n - 1)
                 PROVE  (IF 0 <= i /\ i < 0 + (len - l) THEN data[1 + l + (i - 0)] ELSE b1[i])
                          = IF pos <= i /\ i < pos + len THEN data[1 + (i - pos)]
                            ELSE IF i < pos + len - n THEN data[1 + (i + n - pos)] ELSE b[i]
      OBVIOUS
    <3>1. CASE pos <= i
      <4>1. ~(i < len - l) /\ i < pos + len /\ i < pos + l
        BY <1>0, <1>2, <3>1
      <4> QED BY <1>0, <2>1, <3>1, <4>1
    <3>2. CASE ~(pos <= i)
      <4>1. (i < pos + len - n) <=> (i < len - l)
        BY <1>0
      <4>2. 1 + l + (i - 0) = 1 + (i + n - pos)
        BY <1>0
      <4> QED BY <1>0, <2>1, <3>2, <4>1, <4>2
    <3> QED BY <3>1, <3>2
  <2> QED BY <2>3, <2>4 DEF Written
<1>3. Put(b, n, pos, data) = Written(b, n, pos, data)
  BY <1>1, <1>2
<1>4. Written(b, n, pos, data) \in [0..(n - 1) -> Cell]
  BY WrittenType
<1> QED BY <1>3, <1>4

\* The second half of a push, for a buffer with room for the data and with
\* the same content as the ring.
LEMMA PutDataStep ==
    ASSUME Inv, NEW data \in Data, NEW n \in Pow2, n <= MaxAlloc,
           NEW s \in 0..(n - 1), NEW b \in [0..(n - 1) -> Cell],
           Around(b, n, s, used) = Contents,
           used + Len(data) <= n,
           PutData(b, n, s, data)
    PROVE  Inv' /\ Contents' = Contents \o data
<1> DEFINE pos == RING_MASK(n, s + used)
<1>1. n \in Nat \ {0} /\ n > 0 /\ used \in Nat /\ s \in Nat /\ s < n
  BY Pow2Range DEF Inv, TypeOK
<1>2. data \in Seq(Byte) /\ Len(data) \in Nat /\ Len(data) <= n /\ used \in 0..n
  BY <1>1, DataIsSeq
<1>3. pos \in 0..(n - 1)
  BY <1>1, <1>2, MaskSum
<1>4. /\ Put(b, n, pos, data) = Written(b, n, pos, data)
      /\ Put(b, n, pos, data) \in [0..(n - 1) -> Cell]
  BY <1>1, <1>2, <1>3, PutIsWritten
<1>5. Around(Written(b, n, pos, data), n, s, used + Len(data)) = Around(b, n, s, used) \o data
  BY <1>1, <1>2, PutAppends, ZenonT(30)
<1>6. /\ buf' = Put(b, n, pos, data) /\ size' = n /\ start' = s
      /\ used' = used + Len(data) /\ ret' = 0
  BY DEF PutData
<1> HIDE DEF pos
<1>7. Contents' = Contents \o data
  BY <1>4, <1>5, <1>6 DEF Contents
<1>8. TypeOK'
  <2>1. buf' \in [0..(size' - 1) -> Cell]
    BY <1>4, <1>6
  <2>2. used' \in Nat /\ start' \in Nat /\ ret' \in {0, -ENOMEM} /\ size' \in 0..MaxAlloc
    BY <1>1, <1>2, <1>6, ConstantsAssumption
  <2> QED BY <2>1, <2>2 DEF TypeOK
<1>9. IndicesValid'
  BY <1>1, <1>6 DEF IndicesValid
<1>10. OnlyPushedBytes'
  <2>1. Contents \in Seq(Byte) /\ Len(Contents) = used
    BY <1>1, ContentBytes DEF Inv, OnlyPushedBytes, Contents
  <2>2. /\ Contents \o data \in Seq(Byte)
        /\ Len(Contents \o data) = used + Len(data)
    BY <1>2, <2>1, ConcatProperties
  <2>3. \A i \in 1..(used + Len(data)) : (Contents \o data)[i] \in Byte
    BY <2>2, ElementOfSeq
  <2> QED BY <1>6, <1>7, <2>3 DEF OnlyPushedBytes
<1> QED BY <1>7, <1>8, <1>9, <1>10 DEF Inv

\* A push appends its data and returns 0, or changes nothing; it returns
\* -ENOMEM only in the second case.
LEMMA PushStep ==
    ASSUME Inv, NEW data \in Data, shl_ring_push(data)
    PROVE  /\ Inv'
           /\ \/ Contents' = Contents \o data /\ ret' = 0
              \/ Contents' = Contents /\ ret' = -ENOMEM
<1>0. /\ size \in Nat /\ used \in Nat /\ used <= size /\ size <= MaxAlloc
      /\ data \in Seq(Byte) /\ Len(data) \in 0..MaxPush /\ Len(data) \in Nat
  BY DataIsSeq, ConstantsAssumption DEF Inv, TypeOK, IndicesValid
<1>5. data # << >> => Len(data) \in 1..MaxPush
  BY <1>0, EmptySeq
<1>1. CASE PushNothing(data)
  <2>1. data = << >> /\ UNCHANGED ring /\ ret' = 0
    BY <1>1 DEF PushNothing
  <2>2. Inv'
    BY <2>1 DEF Inv, TypeOK, IndicesValid, OnlyPushedBytes, Contents, ring
  <2>3. Contents' = Contents
    BY <2>1 DEF Contents, ring
  <2>4. Contents \in Seq(Byte)
    BY <1>0, ContentBytes DEF Inv, OnlyPushedBytes, Contents
  <2>5. Contents \o data = Contents
    BY <2>1, <2>4, ConcatEmptySeq
  <2> QED BY <2>1, <2>2, <2>3, <2>5
<1>2. CASE PushFits(data)
  <2>1. data # << >> /\ HasRoom(Len(data)) /\ PutData(buf, size, start, data)
    BY <1>2 DEF PushFits
  <2>2. size > 0 /\ used + Len(data) <= size
    BY <1>0, <1>5, <2>1 DEF HasRoom
  <2>3. size \in Pow2 /\ start \in 0..(size - 1) /\ buf \in [0..(size - 1) -> Cell]
    BY <2>2 DEF Inv, TypeOK, IndicesValid
  <2>4. Inv' /\ Contents' = Contents \o data
    BY <1>0, <2>1, <2>2, <2>3, PutDataStep DEF Contents
  <2>5. ret' = 0
    BY <2>1 DEF PutData
  <2> QED BY <2>4, <2>5
<1>3. CASE PushGrows(data)
  <2> DEFINE nsize == ring_grow(Len(data))
  <2>1. /\ data # << >> /\ nsize \in 1..MaxAlloc
        /\ PutData(ring_resize(nsize), nsize, 0, data)
    BY <1>3 DEF PushGrows
  <2>2. nsize \in Pow2 /\ used + Len(data) <= nsize
    BY <1>5, <2>1, GrowSize DEF Inv
  <2> HIDE DEF nsize
  <2>3. nsize \in Nat /\ nsize > 0 /\ used <= nsize /\ nsize <= MaxAlloc
    BY <1>0, <2>1, <2>2, Pow2Range, ConstantsAssumption
  <2>4. Moved(ring_resize(nsize), nsize, buf, size, start, used)
    BY <2>3, ResizeKeepsContents DEF Inv
  <2>5. /\ ring_resize(nsize) \in [0..(nsize - 1) -> Cell]
        /\ Around(ring_resize(nsize), nsize, 0, used) = Contents
    BY <2>4 DEF Moved, Contents
  <2>6. 0 \in 0..(nsize - 1)
    BY <2>3
  <2>7. Inv' /\ Contents' = Contents \o data
    BY <2>1, <2>2, <2>3, <2>5, <2>6, PutDataStep
  <2>8. ret' = 0
    BY <2>1 DEF PutData
  <2> QED BY <2>7, <2>8
<1>4. CASE PushFails(data)
  <2>1. UNCHANGED ring /\ ret' = -ENOMEM
    BY <1>4 DEF PushFails
  <2>2. Contents' = Contents
    BY <2>1 DEF Contents, ring
  <2>3. Inv'
    BY <2>1 DEF Inv, TypeOK, IndicesValid, OnlyPushedBytes, Contents, ring
  <2> QED BY <2>1, <2>2, <2>3
<1> QED BY <1>1, <1>2, <1>3, <1>4 DEF shl_ring_push

(***************************************************************************)
(* Pulling                                                                 *)
(***************************************************************************)

\* A pull drops bytes from the front, as many as asked for and there.
LEMMA PullStep ==
    ASSUME Inv, NEW n \in Nat, shl_ring_pull(n)
    PROVE  /\ Inv' /\ ret' = ret
           /\ \E m \in 0..used : /\ m = IF n > used THEN used ELSE n
                                /\ Contents' = SubSeq(Contents, m + 1, used)
<1> DEFINE m == IF n > used THEN used ELSE n
<1>0. /\ size \in Nat /\ used \in Nat /\ used <= size /\ start \in Nat
      /\ size = 0 => start = 0
      /\ size > 0 => size \in Pow2 /\ start < size
      /\ \A i \in 1..used : Contents[i] \in Byte
  BY DEF Inv, TypeOK, IndicesValid, OnlyPushedBytes
<1>1. /\ start' = RING_MASK(size, start + m) /\ used' = used - m
      /\ buf' = buf /\ size' = size /\ ret' = ret
  BY DEF shl_ring_pull
<1>2. m \in 0..used
  BY <1>0
<1>5. m = IF n > used THEN used ELSE n
  OBVIOUS
<1> HIDE DEF m
<1>3. CASE size = 0
  <2>1. m = 0 /\ used = 0 /\ start = 0
    BY <1>0, <1>2, <1>3
  <2>2. start' = 0 /\ used' = 0
    BY <1>1, <1>3, <2>1 DEF RING_MASK
  <2>3. Inv'
    BY <1>1, <2>1, <2>2 DEF Inv, TypeOK, IndicesValid, OnlyPushedBytes
  <2>4. Contents' = SubSeq(Contents, m + 1, used)
    BY <2>1, <2>2 DEF Contents, Around
  <2> QED BY <1>1, <1>2, <1>5, <2>3, <2>4
<1>4. CASE size > 0
  <2>1. size \in Nat \ {0} /\ start \in 0..(size - 1) /\ used \in 0..size /\ m \in 0..size
    BY <1>0, <1>2, <1>4
  <2>2. RING_MASK(size, start + m) \in 0..(size - 1)
    BY <2>1, MaskSum
  <2>3. Around(buf, size, RING_MASK(size, start + m), used - m)
          = SubSeq(Around(buf, size, start, used), m + 1, used)
    BY <1>2, <2>1, PullDrops
  <2>4. Contents' = SubSeq(Contents, m + 1, used)
    BY <1>1, <2>3 DEF Contents
  <2>5. TypeOK'
    BY <1>0, <1>1, <1>2, <2>2 DEF Inv, TypeOK
  <2>6. IndicesValid'
    BY <1>0, <1>1, <1>2, <1>4, <2>2 DEF IndicesValid
  <2>7. OnlyPushedBytes'
    <3>1. Contents \in Seq(Byte) /\ Len(Contents) = used
      BY <1>0, ContentBytes DEF Contents
    <3> SUFFICES ASSUME NEW i \in 1..(used - m)
                 PROVE  Contents'[i] \in Byte
      BY <1>1 DEF OnlyPushedBytes
    <3>2. SubSeq(Contents, m + 1, used)[i] = Contents[i + m]
      BY <1>0, <1>2, <3>1
    <3>3. i + m \in 1..used
      BY <1>0, <1>2
    <3> QED BY <1>0, <2>4, <3>2, <3>3
  <2> QED BY <1>1, <1>2, <1>5, <2>4, <2>5, <2>6, <2>7 DEF Inv
<1> QED BY <1>0, <1>3, <1>4

\* Flushing and clearing empty the ring.
LEMMA ResetStep ==
    ASSUME Inv, shl_ring_flush \/ shl_ring_clear
    PROVE  Inv' /\ ret' = ret /\ Contents' = << >>
<1>1. used' = 0 /\ start' = 0 /\ ret' = ret
  BY DEF shl_ring_flush, shl_ring_clear
<1>2. Contents' = << >>
  BY <1>1 DEF Contents, Around
<1>3. OnlyPushedBytes'
  BY <1>1 DEF OnlyPushedBytes
<1>4. TypeOK' /\ IndicesValid'
  <2>1. CASE shl_ring_flush
    BY <1>1, <2>1 DEF shl_ring_flush, Inv, TypeOK, IndicesValid
  <2>2. CASE shl_ring_clear
    BY <1>1, <2>2, ConstantsAssumption DEF shl_ring_clear, Inv, TypeOK, IndicesValid, Malloc
  <2> QED BY <2>1, <2>2
<1> QED BY <1>1, <1>2, <1>3, <1>4 DEF Inv

(***************************************************************************)
(* Theorems                                                                *)
(***************************************************************************)

\* A ring that was set to zero satisfies the invariant.
LEMMA InitInv == Init => Inv
BY ConstantsAssumption DEF Init, Inv, TypeOK, IndicesValid, OnlyPushedBytes, Malloc

\* Every step preserves the invariant.
LEMMA NextInv == Inv /\ [Next]_vars => Inv'
<1> SUFFICES ASSUME Inv, [Next]_vars PROVE Inv'
  OBVIOUS
<1>1. CASE \E data \in Data : shl_ring_push(data)
  BY <1>1, PushStep
<1>2. CASE \E n \in 0..(MaxAlloc + 1) : shl_ring_pull(n)
  BY <1>2, PullStep, ConstantsAssumption
<1>3. CASE shl_ring_flush \/ shl_ring_clear
  BY <1>3, ResetStep
<1>4. CASE UNCHANGED vars
  BY <1>4 DEF vars, Inv, TypeOK, IndicesValid, OnlyPushedBytes, Contents
<1> QED BY <1>1, <1>2, <1>3, <1>4 DEF Next

\* The fields of struct shl_ring keep their types under every operation of
\* src/shl_ring.c.
THEOREM TypeCorrect == Spec => []TypeOK
<1>1. Inv => TypeOK
  BY DEF Inv
<1> QED BY <1>1, InitInv, NextInv, PTL DEF Spec

\* ring_grow() only ever asks for powers of two, every index computed with
\* RING_MASK lies inside the buffer, and ring_resize() never makes a byte it
\* did not copy part of the content.
THEOREM BufferStaysValid == Spec => []BufferValid
<1>1. Inv => BufferValid
  BY DEF Inv, BufferValid
<1> QED BY <1>1, InitInv, NextInv, PTL DEF Spec

\* A new ring is an empty queue.
LEMMA InitQueue == Init => Queue!Init
BY DEF Init, Queue!Init, Contents, Around

\* Every step of the ring is a step of the queue, or leaves it alone.
LEMMA NextQueue == Inv /\ [Next]_vars => [Queue!Next]_(Queue!qvars)
<1> SUFFICES ASSUME Inv, [Next]_vars PROVE [Queue!Next]_(Queue!qvars)
  OBVIOUS
<1>1. ASSUME NEW data \in Data, shl_ring_push(data)
      PROVE  Queue!Next
  <2>1. data \in Queue!Data
    BY DEF Data, Queue!Data
  <2>2. Queue!Push(data) \/ Queue!PushFails
    BY <1>1, PushStep DEF Queue!Push, Queue!PushFails, Queue!ENOMEM, ENOMEM
  <2> QED BY <2>1, <2>2 DEF Queue!Next
<1>2. ASSUME NEW n \in 0..(MaxAlloc + 1), shl_ring_pull(n)
      PROVE  Queue!Next
  <2>1. n \in Nat
    BY ConstantsAssumption
  <2>2. PICK m \in 0..used : Contents' = SubSeq(Contents, m + 1, used) /\ ret' = ret
    BY <1>2, <2>1, PullStep
  <2>3. Len(Contents) = used
    BY AroundSeq DEF Inv, TypeOK, Contents
  <2>4. m \in 0..Len(Contents) /\ Queue!Pull(m)
    BY <2>2, <2>3 DEF Queue!Pull
  <2> QED BY <2>4 DEF Queue!Next
<1>3. ASSUME shl_ring_flush \/ shl_ring_clear
      PROVE  Queue!Next
  <2>1. Queue!Flush
    BY <1>3, ResetStep DEF Queue!Flush
  <2> QED BY <2>1 DEF Queue!Next
<1>4. ASSUME UNCHANGED vars
      PROVE  UNCHANGED Queue!qvars
  BY <1>4 DEF vars, Queue!qvars, Contents
<1> QED BY <1>1, <1>2, <1>3, <1>4 DEF Next

\* src/shl_ring.c implements the byte queue: its operations never lose,
\* duplicate or reorder a byte, and a failed push changes nothing.
THEOREM ImplementsQueue == Spec => RefinesQueue
<1>1. Init => Inv /\ Queue!Init
  BY InitInv, InitQueue
<1> QED BY <1>1, NextInv, NextQueue, PTL DEF Spec, RefinesQueue, Queue!Spec

\* A pull takes n bytes from the front of the content, or all there are.
LEMMA PullStepExact ==
    ASSUME Inv, NEW n \in Nat, shl_ring_pull(n)
    PROVE  Contents' = SubSeq(Contents, n + 1, used)
<1>1. PICK m \in 0..used : /\ m = IF n > used THEN used ELSE n
                          /\ Contents' = SubSeq(Contents, m + 1, used)
  BY PullStep
<1>2. used \in Nat
  BY DEF Inv, TypeOK
<1>3. CASE n > used
  <2>1. SubSeq(Contents, used + 1, used) = << >> /\ SubSeq(Contents, n + 1, used) = << >>
    BY <1>2, <1>3
  <2> QED BY <1>1, <1>3, <2>1
<1>4. CASE ~(n > used)
  BY <1>1, <1>4
<1> QED BY <1>3, <1>4

\* Every push and every pull changes the content in exactly the way its
\* arguments ask for.
THEOREM OperationsAreExact == Spec => OperationsExact
<1> DEFINE Exact ==
      /\ \A data \in Data : shl_ring_push(data) =>
            Contents' = IF ret' = 0 THEN Contents \o data ELSE Contents
      /\ \A n \in 0..(MaxAlloc + 1) : shl_ring_pull(n) =>
            Contents' = SubSeq(Contents, n + 1, used)
<1>1. Inv => Exact
  <2>1. ASSUME Inv, NEW data \in Data, shl_ring_push(data)
        PROVE  Contents' = IF ret' = 0 THEN Contents \o data ELSE Contents
    <3>1. \/ Contents' = Contents \o data /\ ret' = 0
          \/ Contents' = Contents /\ ret' = -ENOMEM
      BY <2>1, PushStep
    <3>2. -ENOMEM # 0
      BY DEF ENOMEM
    <3> QED BY <3>1, <3>2
  <2>2. ASSUME Inv, NEW n \in 0..(MaxAlloc + 1), shl_ring_pull(n)
        PROVE  Contents' = SubSeq(Contents, n + 1, used)
    BY <2>2, PullStepExact, ConstantsAssumption
  <2> QED BY <2>1, <2>2
<1>2. Inv /\ [Next]_vars => [Exact]_vars
  BY <1>1
<1> HIDE DEF Exact
<1>3. Spec => [][Exact]_vars
  BY <1>2, InitInv, NextInv, PTL DEF Spec
<1> QED BY <1>3 DEF Exact, OperationsExact

(***************************************************************************)
(* Reading                                                                 *)
(***************************************************************************)

\* Slices of the buffer are the pieces RingMemoryProofs speaks of.
LEMMA SliceIsStretch ==
    ASSUME NEW base, NEW n
    PROVE  Slice(base, n) = Stretch(buf, base, n)
BY DEF Slice, Stretch

\* The first m bytes of the content, as both ways to read the ring cut them.
LEMMA ReadPieces ==
    ASSUME Inv, NEW m \in 0..used
    PROVE  /\ start + m <= size => Around(buf, size, start, m) = Slice(start, m)
           /\ start + m >= size /\ m > 0 =>
                 Around(buf, size, start, m)
                   = Slice(start, size - start) \o Slice(0, m - (size - start))
<1>0. /\ size \in Nat /\ start \in Nat /\ used \in Nat /\ m \in Nat /\ m <= size
      /\ size > 0 => start < size
      /\ buf \in [0..(size - 1) -> Cell]
  BY DEF Inv, TypeOK, IndicesValid
<1>1. ASSUME start + m <= size
      PROVE  Around(buf, size, start, m) = Slice(start, m)
  BY <1>0, <1>1, OnePiece, SliceIsStretch
<1>2. ASSUME start + m >= size, m > 0
      PROVE  Around(buf, size, start, m)
               = Slice(start, size - start) \o Slice(0, m - (size - start))
  <2>1. size \in Nat \ {0} /\ start \in 0..(size - 1) /\ m \in 0..size /\ size - start <= m
    BY <1>0, <1>2
  <2> QED BY <1>0, <2>1, TwoPieces, SliceIsStretch
<1> QED BY <1>1, <1>2

\* The vectors of shl_ring_peek().
LEMMA PeekIsExact ==
    ASSUME Inv
    PROVE  PeekExact
<1>0. /\ size \in Nat /\ start \in Nat /\ used \in Nat /\ used <= size
      /\ size > 0 => start < size
  BY DEF Inv, TypeOK, IndicesValid
<1>1. CASE used = 0
  <2>1. shl_ring_peek = << >>
    BY <1>1 DEF shl_ring_peek
  <2>2. Contents = << >>
    BY <1>1 DEF Contents, Around
  <2> QED BY <2>1, <2>2 DEF PeekExact
<1>2. CASE used > 0 /\ start + used <= size
  <2>1. shl_ring_peek = << <<start, used>> >>
    BY <1>0, <1>2 DEF shl_ring_peek
  <2>2. Contents = Slice(start, used)
    BY <1>0, <1>2, ReadPieces DEF Contents
  <2> QED BY <1>2, <2>1, <2>2 DEF PeekExact
<1>3. CASE used > 0 /\ ~(start + used <= size)
  <2>1. shl_ring_peek = << <<start, size - start>>, <<0, used - (size - start)>> >>
    BY <1>0, <1>3 DEF shl_ring_peek
  <2>2. Contents = Slice(start, size - start) \o Slice(0, used - (size - start))
    BY <1>0, <1>3, ReadPieces DEF Contents
  <2>3. /\ size - start > 0 /\ start + (size - start) <= size
        /\ used - (size - start) > 0 /\ 0 + (used - (size - start)) <= size
    BY <1>0, <1>3
  <2>4. PICK l : l = size - start
    OBVIOUS
  <2>5. PICK c : c = used - l
    OBVIOUS
  <2>6. /\ shl_ring_peek = << <<start, l>>, <<0, c>> >>
        /\ Contents = Slice(start, l) \o Slice(0, c)
        /\ l > 0 /\ start + l <= size /\ c > 0 /\ 0 + c <= size
    BY ONLY <2>1, <2>2, <2>3, <2>4, <2>5
  <2>7. PICK v : v = shl_ring_peek
    OBVIOUS
  <2>8. /\ Len(v) = 2 /\ v # << >> /\ v[1][1] = start /\ v[1][2] = l
        /\ v[2][1] = 0 /\ v[2][2] = c
    BY ONLY <2>6, <2>7
  <2>9. \A k \in 1..Len(v) : v[k][2] > 0 /\ v[k][1] + v[k][2] <= size
    BY ONLY <2>6, <2>8
  <2>10. Contents = Slice(v[1][1], v[1][2]) \o Slice(v[2][1], v[2][2])
    BY ONLY <2>6, <2>8
  <2> QED BY <2>7, <2>8, <2>9, <2>10 DEF PeekExact
<1> QED BY <1>0, <1>1, <1>2, <1>3

\* The bytes of shl_ring_copy().
LEMMA CopyIsExact ==
    ASSUME Inv
    PROVE  CopyExact
<1> SUFFICES ASSUME NEW n \in 0..(MaxAlloc + 1)
             PROVE  shl_ring_copy(n) = SubSeq(Contents, 1, IF n > used THEN used ELSE n)
  BY DEF CopyExact
<1>0. /\ size \in Nat /\ start \in Nat /\ used \in Nat /\ used <= size /\ n \in Nat
      /\ size > 0 => start < size
      /\ size = 0 => start = 0
  BY ConstantsAssumption DEF Inv, TypeOK, IndicesValid
<1>1. PICK m \in 0..used : m = IF n > used THEN used ELSE n
  BY <1>0
<1>2. SubSeq(Contents, 1, m) = Around(buf, size, start, m)
  BY <1>0, AroundPrefix DEF Contents
<1>3. shl_ring_copy(n) = IF m <= size - start THEN Slice(start, m)
                         ELSE Slice(start, size - start) \o Slice(0, m - (size - start))
  BY <1>1 DEF shl_ring_copy
<1>4. CASE m <= size - start
  <2>1. Around(buf, size, start, m) = Slice(start, m)
    BY <1>0, <1>4, ReadPieces
  <2> QED BY <1>1, <1>2, <1>3, <1>4, <2>1
<1>5. CASE ~(m <= size - start)
  <2>1. start + m >= size /\ m > 0
    BY <1>0, <1>5
  <2>2. Around(buf, size, start, m)
          = Slice(start, size - start) \o Slice(0, m - (size - start))
    BY <2>1, ReadPieces
  <2> QED BY <1>1, <1>2, <1>3, <1>5, <2>2
<1> QED BY <1>4, <1>5

\* shl_ring_peek() and shl_ring_copy() show exactly the content of the ring,
\* however it lies around the end of the buffer, in pieces inside it.
THEOREM ReadsAreExact == Spec => []ReadsExact
<1>1. Inv => ReadsExact
  BY PeekIsExact, CopyIsExact DEF ReadsExact
<1> QED BY <1>1, InitInv, NextInv, PTL DEF Spec
=============================================================================
