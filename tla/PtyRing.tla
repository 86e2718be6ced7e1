------------------------------ MODULE PtyRing ------------------------------
(***************************************************************************)
(* The private ring buffer of src/shl_pty.c that holds the output of a     *)
(* pty: struct ring and every operation on it.  Unlike ShlRing it stores   *)
(* (start, end), so "end == start" has to mean empty and one byte of the   *)
(* buffer always stays free.                                               *)
(***************************************************************************)
EXTENDS RingMemory

VARIABLES
    buf,     \* r->buf: its bytes, at 0..size-1 (size 0: NULL)
    size,    \* r->size
    start,   \* r->start
    end,     \* r->end
    ret      \* return value of the last ring_push()

ring == <<buf, size, start, end>>
vars == <<buf, size, start, end, ret>>

\* Next higher power of two; all bits of the largest one are shifted out.
ring_pow2(v) == IF v = 0 THEN DefaultSize ELSE NextPow2(v, 0)

\* Length of the content, as ring_resize() and ring_peek() see it.
Used == IF end >= start THEN end - start ELSE size - start + end

\* Mutant of ring_resize: the wrapped piece is forgotten.
ResizeFirstPiece(nsize) ==
    Memcpy(Malloc(nsize), 0, buf, start, IF end >= start THEN end - start ELSE size - start)

\* The buffer ring_resize() allocates, with the content moved to its start.
ring_resize(nsize) ==
    LET new == Malloc(nsize)
        l   == size - start
    IN  IF end >= start
        THEN Memcpy(new, 0, buf, start, end - start)
        ELSE Memcpy(Memcpy(new, 0, buf, start, l), l, buf, 0, end)

\* The bytes ring_grow() finds free, the one it must keep free included.
Free == IF end < start THEN start - end ELSE start + size - end

\* Mutant of HasRoom: the last byte of the buffer is filled, too.
HasRoomForAll(add) == Free >= add

HasRoom(add) == Free > add

\* The size ring_grow() asks for, 0 if it gives up with -ENOMEM.
ring_grow(add) ==
    LET len == ring_pow2(Word(size + add - Free + 1))
    IN  IF len <= size THEN 0 ELSE len

\* The two pieces in which a push writes at the end e of a buffer b of n
\* bytes: l bytes up to the end of the buffer, unless the content already
\* wraps around, and the rest at the position this leads to.
FirstPiece(n, s, e, len) == IF s <= e THEN Min({n - e, len}) ELSE 0

\* Mutant of Put: the second piece starts at the first byte of the data.
PutFirstTwice(b, n, s, e, data) ==
    LET l == FirstPiece(n, s, e, Len(data))
    IN  Memcpy(Memcpy(b, e, data, 1, l), RING_MASK(n, e + l), data, 1, Len(data) - l)

Put(b, n, s, e, data) ==
    LET l == FirstPiece(n, s, e, Len(data))
    IN  Memcpy(Memcpy(b, e, data, 1, l), RING_MASK(n, e + l), data, 1 + l, Len(data) - l)

\* The second half of ring_push(), on a buffer b of n bytes with its content
\* at s..e.
PutData(b, n, s, e, data) ==
    LET l == FirstPiece(n, s, e, Len(data))
    IN  /\ size' = n
        /\ start' = s
        /\ end' = RING_MASK(n, RING_MASK(n, e + l) + (Len(data) - l))
        /\ ret' = 0
        /\ buf' = Put(b, n, s, e, data)

PushFits(data) ==
    /\ HasRoom(Len(data))
    /\ PutData(buf, size, start, end, data)

PushGrows(data) ==
    LET nsize == ring_grow(Len(data))
    IN  /\ ~HasRoom(Len(data))
        /\ nsize \in 1..MaxAlloc
        /\ PutData(ring_resize(nsize), nsize, 0, Used, data)

\* Mutant of PushFails: the error is returned without its sign.
PushFailsPositive(data) ==
    /\ ~HasRoom(Len(data))
    /\ ret' = ENOMEM
    /\ UNCHANGED ring

\* Giving up on the size, or malloc() failing, which it may always do.
PushFails(data) ==
    /\ ~HasRoom(Len(data))
    /\ ret' = -ENOMEM
    /\ UNCHANGED ring

ring_push(data) == PushFits(data) \/ PushGrows(data) \/ PushFails(data)

\* Mutant of ring_peek: two pieces whenever the content reaches the end of
\* the buffer.
PeekAlwaysTwo ==
    IF end > start THEN << <<start, end - start>> >>
    ELSE IF end = start THEN << >>
    ELSE << <<start, size - start>>, <<0, end>> >>

\* The iovecs filled in, each as <<offset of iov_base, iov_len>>.
ring_peek ==
    IF end > start THEN << <<start, end - start>> >>
    ELSE IF end = start THEN << >>
    ELSE IF end = 0 THEN << <<start, size - start>> >>
    ELSE << <<start, size - start>>, <<0, end>> >>

\* Bytes up to the end of the buffer, if the content wraps around there,
\* then from its start.
ring_pop(n) ==
    LET l1 == IF start > end THEN Min({size - start, n}) ELSE 0
        s1 == RING_MASK(size, start + l1)
        l2 == Min({end - s1, n - l1})
    IN  /\ start' = IF n - l1 = 0 THEN s1 ELSE RING_MASK(size, s1 + l2)
        /\ UNCHANGED <<buf, size, end, ret>>

\* The pty and the ring in it are calloc()ed.
Init ==
    /\ buf = Malloc(0)
    /\ size = 0
    /\ start = 0
    /\ end = 0
    /\ ret = 0

Next ==
    \/ \E data \in Data : ring_push(data)
    \/ \E n \in 0..(MaxAlloc + 1) : ring_pop(n)

Spec == Init /\ [][Next]_vars

(***************************************************************************)
(* Properties                                                              *)
(***************************************************************************)

TypeOK ==
    /\ size \in 0..MaxAlloc
    /\ buf \in [0..(size - 1) -> Cell]
    /\ start \in Nat
    /\ end \in Nat
    /\ ret \in {0, -ENOMEM}

\* Both indices stay inside the buffer, and its size is one RING_MASK can be
\* used with (comment of ring_resize(), src/shl_pty.c:51-54).
IndicesValid ==
    /\ size = 0 => start = 0 /\ end = 0
    /\ size > 0 => size \in Pow2 /\ start < size /\ end < size

\* The queue the ring stands for.
Contents == Around(buf, size, start, Used)

\* No byte that writev() sends to the terminal is uninitialised memory.
OnlyPushedBytes == \A i \in 1..Used : Contents[i] \in Byte

\* The memory of the ring is used as it should be, however often the content
\* has wrapped around and been moved to a larger buffer.
BufferValid == IndicesValid /\ OnlyPushedBytes

\* ring_peek() describes the content, all of it and in order, in pieces that
\* lie inside the buffer and are not empty: pty_write() can hand them to
\* writev() as they are.
PeekExact ==
    LET v     == ring_peek
        Piece(k) == [i \in 1..v[k][2] |-> buf[v[k][1] + i - 1]]
    IN  /\ \A k \in 1..Len(v) : v[k][2] > 0 /\ v[k][1] + v[k][2] <= size
        /\ Contents =
             IF v = << >> THEN << >>
             ELSE IF Len(v) = 1 THEN Piece(1) ELSE Piece(1) \o Piece(2)

\* Every operation does to the content what its caller asked for: a push puts
\* exactly the bytes it was given behind it, in their order, wherever the
\* end of the buffer cuts them and whether or not the buffer was grown, or
\* fails and changes nothing; a pop takes n bytes from the front, or all there
\* are.
OperationsExact ==
    [][/\ \A data \in Data : ring_push(data) =>
              Contents' = IF ret' = 0 THEN Contents \o data ELSE Contents
       /\ \A n \in 0..(MaxAlloc + 1) : ring_pop(n) =>
              Contents' = SubSeq(Contents, n + 1, Used)]_vars

Queue == INSTANCE ByteQueue WITH queue <- Contents

\* The ring implements a first-in first-out queue of bytes: a push is never
\* mistaken for emptying the ring ("end == start", src/shl_pty.c:111-115 and
\* 122), no operation loses, duplicates or reorders a byte, and a push that
\* returns -ENOMEM leaves the queue as it was.
RefinesQueue == Queue!Spec
=============================================================================
