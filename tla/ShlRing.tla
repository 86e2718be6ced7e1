------------------------------ MODULE ShlRing ------------------------------
(***************************************************************************)
(* The ring buffer of src/shl_ring.c: struct shl_ring and every operation  *)
(* on it.  The ring stores (start, used), so it can be filled completely.  *)
(* Sizes are size_t values; what malloc() returns is uninitialised, which  *)
(* is the byte Undef.                                                      *)
(***************************************************************************)
EXTENDS RingMemory

CONSTANT AlignOverflow   \* SHL_ALIGN_POWER2() when no power of two is left

ASSUME AlignOverflowAssumption == AlignOverflow \in {0, 1}

VARIABLES
    buf,     \* r->buf: its bytes, at 0..size-1 (size 0: NULL)
    size,    \* r->size
    start,   \* r->start
    used,    \* r->used
    ret      \* return value of the last shl_ring_push()

ring == <<buf, size, start, used>>
vars == <<buf, size, start, used, ret>>

\* Next higher power of two.  Beyond the largest one the code shifts by the
\* width of the word, which C leaves undefined: 0 or 1.
SHL_ALIGN_POWER2(u) == NextPow2(u, AlignOverflow)

\* The n bytes at position base of the buffer.
Slice(base, n) == [i \in 1..n |-> buf[base + i - 1]]

(***************************************************************************)
(* Read-only operations                                                    *)
(***************************************************************************)

shl_ring_get_size == used

\* Mutant of shl_ring_peek: "<" for "<=" in the test for one piece.
PeekStrict ==
    IF used = 0 THEN << >>
    ELSE IF start + used < size
    THEN << <<start, used>> >>
    ELSE << <<start, size - start>>, <<0, used - (size - start)>> >>

\* The iovecs filled in, each as <<offset of iov_base, iov_len>>.
shl_ring_peek ==
    IF used = 0 THEN << >>
    ELSE IF start + used <= size
    THEN << <<start, used>> >>
    ELSE << <<start, size - start>>, <<0, used - (size - start)>> >>

\* What a copy of at most n bytes writes to the external buffer.
shl_ring_copy(n) ==
    LET m == IF n > used THEN used ELSE n
        l == size - start
    IN  IF m <= l THEN Slice(start, m) ELSE Slice(start, l) \o Slice(0, m - l)

(***************************************************************************)
(* Operations that change the ring                                         *)
(***************************************************************************)

\* Mutant of shl_ring_flush: only the position is reset.
FlushKeepsUsed == start' = 0 /\ UNCHANGED <<buf, size, used, ret>>

shl_ring_flush ==
    /\ start' = 0
    /\ used' = 0
    /\ UNCHANGED <<buf, size, ret>>

shl_ring_clear ==
    /\ buf' = Malloc(0)
    /\ size' = 0
    /\ start' = 0
    /\ used' = 0
    /\ UNCHANGED ret

\* Mutant of ring_resize: the wrapped piece is forgotten.
ResizeFirstPiece(nsize) == Memcpy(Malloc(nsize), 0, buf, start, Min({used, size - start}))

\* The buffer ring_resize() allocates, with the content moved to its start.
ring_resize(nsize) ==
    LET new == Malloc(nsize)
        l   == size - start
    IN  IF used <= l
        THEN Memcpy(new, 0, buf, start, used)
        ELSE Memcpy(Memcpy(new, 0, buf, start, l), l, buf, 0, used - l)

\* ring_grow() has nothing to do: the data fits.
HasRoom(add) == size - used >= add

\* The size ring_grow() asks for, 0 if it gives up with -ENOMEM.
ring_grow(add) ==
    LET need == Word(used + add)
    IN  IF need <= used THEN 0
        ELSE SHL_ALIGN_POWER2(IF need < DefaultSize THEN DefaultSize ELSE need)

\* Mutant of Put: the second memcpy() starts at the first byte of the data.
PutFirstTwice(b, n, pos, data) ==
    LET l == n - pos
        len == Len(data)
    IN  IF l >= len THEN Memcpy(b, pos, data, 1, len)
        ELSE Memcpy(Memcpy(b, pos, data, 1, l), 0, data, 1, len - l)

\* b, of n bytes, after writing data from pos on, around its end.
Put(b, n, pos, data) ==
    LET l == n - pos
        len == Len(data)
    IN  IF l >= len THEN Memcpy(b, pos, data, 1, len)
        ELSE Memcpy(Memcpy(b, pos, data, 1, l), 0, data, 1 + l, len - l)

\* The second half of shl_ring_push(): data goes behind the used bytes of a
\* ring whose buffer is b, of n bytes, with its content at s.
PutData(b, n, s, data) ==
    /\ size' = n
    /\ start' = s
    /\ used' = used + Len(data)
    /\ ret' = 0
    /\ buf' = Put(b, n, RING_MASK(n, s + used), data)

PushNothing(data) ==
    /\ data = << >>
    /\ ret' = 0
    /\ UNCHANGED ring

PushFits(data) ==
    /\ data # << >>
    /\ HasRoom(Len(data))
    /\ PutData(buf, size, start, data)

PushGrows(data) ==
    LET nsize == ring_grow(Len(data))
    IN  /\ data # << >>
        /\ ~HasRoom(Len(data))
        /\ nsize \in 1..MaxAlloc
        /\ PutData(ring_resize(nsize), nsize, 0, data)

\* Giving up on the size, or malloc() failing, which it may always do.
PushFails(data) ==
    /\ data # << >>
    /\ ~HasRoom(Len(data))
    /\ ret' = -ENOMEM
    /\ UNCHANGED ring

shl_ring_push(data) ==
    PushNothing(data) \/ PushFits(data) \/ PushGrows(data) \/ PushFails(data)

\* Mutant of shl_ring_pull: no protection against pulling too much.
PullTooMuch(n) ==
    /\ start' = RING_MASK(size, start + n)
    /\ used' = used - n
    /\ UNCHANGED <<buf, size, ret>>

shl_ring_pull(n) ==
    LET m == IF n > used THEN used ELSE n
    IN  /\ start' = RING_MASK(size, start + m)
        /\ used' = used - m
        /\ UNCHANGED <<buf, size, ret>>

(***************************************************************************)
(* The specification                                                       *)
(***************************************************************************)

\* A ring is memset() to zero before its first use.
Init ==
    /\ buf = Malloc(0)
    /\ size = 0
    /\ start = 0
    /\ used = 0
    /\ ret = 0

Next ==
    \/ \E data \in Data : shl_ring_push(data)
    \/ \E n \in 0..(MaxAlloc + 1) : shl_ring_pull(n)
    \/ shl_ring_flush
    \/ shl_ring_clear

Spec == Init /\ [][Next]_vars

(***************************************************************************)
(* Properties                                                              *)
(***************************************************************************)

TypeOK ==
    /\ size \in 0..MaxAlloc
    /\ buf \in [0..(size - 1) -> Cell]
    /\ start \in Nat
    /\ used \in Nat
    /\ ret \in {0, -ENOMEM}

\* Every index the operations compute stays inside the buffer, and the size
\* is always one RING_MASK can be used with: a power of two, or 0 before the
\* first allocation (comment of ring_resize(), src/shl_ring.c:91-94).
IndicesValid ==
    /\ size = 0 => start = 0
    /\ size > 0 => size \in Pow2 /\ start < size
    /\ used <= size

\* The queue the ring stands for: used bytes from start on, around the end.
Contents == Around(buf, size, start, used)

\* No byte a caller can see is uninitialised memory: growing the ring (and
\* wrapping around inside it) moves exactly the bytes that are in use.
OnlyPushedBytes == \A i \in 1..used : Contents[i] \in Byte

\* The memory of the ring is used as it should be, however often the content
\* has wrapped around and been moved to a larger buffer.
BufferValid == IndicesValid /\ OnlyPushedBytes

\* shl_ring_peek() describes the content, all of it and in order, in pieces
\* that lie inside the buffer and are not empty.
PeekExact ==
    LET v == shl_ring_peek
    IN  /\ \A k \in 1..Len(v) : v[k][2] > 0 /\ v[k][1] + v[k][2] <= size
        /\ Contents =
             IF v = << >> THEN << >>
             ELSE IF Len(v) = 1 THEN Slice(v[1][1], v[1][2])
             ELSE Slice(v[1][1], v[1][2]) \o Slice(v[2][1], v[2][2])

\* shl_ring_copy() returns the first bytes of the content, as many as asked
\* for and available.
CopyExact ==
    \A n \in 0..(MaxAlloc + 1) :
        shl_ring_copy(n) = SubSeq(Contents, 1, IF n > used THEN used ELSE n)

\* Both ways to read the ring show its content.
ReadsExact == PeekExact /\ CopyExact

\* Every operation does to the content what its caller asked for: a push puts
\* exactly the bytes it was given behind it, in their order, wherever the
\* end of the buffer cuts them and whether or not the buffer was grown, or
\* fails and changes nothing; a pull takes n bytes from the front, or all there
\* are.
OperationsExact ==
    [][/\ \A data \in Data : shl_ring_push(data) =>
              Contents' = IF ret' = 0 THEN Contents \o data ELSE Contents
       /\ \A n \in 0..(MaxAlloc + 1) : shl_ring_pull(n) =>
              Contents' = SubSeq(Contents, n + 1, used)]_vars

Queue == INSTANCE ByteQueue WITH queue <- Contents

\* The ring implements a first-in first-out queue of bytes: no operation
\* loses, duplicates or reorders a byte, and a push that returns -ENOMEM
\* leaves the queue as it was.
RefinesQueue == Queue!Spec
=============================================================================
