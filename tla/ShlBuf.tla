------------------------------- MODULE ShlBuf -------------------------------
(***************************************************************************)
(* The dynamic buffer of src/shl_buf.h, and a zeroed array that its user   *)
(* grows with SHL_GREEDY_REALLOC0_T(), on the memory of RingMemory.        *)
(* DefaultSize is the 64 that shl_greedy_realloc() starts with, for bytes  *)
(* and for elements.                                                       *)
(***************************************************************************)
EXTENDS RingMemory

CONSTANTS
    MaxNeed,        \* elements the array is grown to (bound of the model)
    AlignOverflow   \* SHL_ALIGN_POWER2() when no power of two is left

VARIABLES
    buf, size, used,   \* struct shl_buf
    arr, cnt,          \* the array and its count
    content,           \* the bytes the user of the buffer expects in it
    elems              \* the elements the user of the array has set

bufVars == <<buf, size, used, content>>
arrVars == <<arr, cnt, elems>>
vars    == <<buf, size, used, content, arr, cnt, elems>>

\* The memory and its size after shl_greedy_realloc() or, counting elements,
\* shl_greedy_realloc_t(); realloc() fails when there is no room.
shl_greedy_realloc(mem, n, need, room) ==
    LET nsize == NextPow2(Max({DefaultSize, need}), AlignOverflow)
    IN  IF n >= need THEN [ok |-> n > 0, mem |-> mem, size |-> n]
        ELSE IF nsize = 0 \/ nsize > MaxAlloc \/ ~room THEN [ok |-> FALSE, mem |-> mem, size |-> n]
        ELSE [ok |-> TRUE, mem |-> Memcpy(Malloc(nsize), 0, mem, 0, n), size |-> nsize]

\* Mutant of Zeroed: the new memory is zeroed only as far as it was asked for.
ZeroedToNeed(res, prev, need) ==
    [res EXCEPT !.mem = [i \in DOMAIN @ |-> IF prev <= i /\ i < need THEN 0 ELSE @[i]]]

\* What shl_greedy_realloc0() and shl_greedy_realloc0_t() add: everything
\* behind the old memory is zero.
Zeroed(res, prev, need) ==
    [res EXCEPT !.mem = [i \in DOMAIN @ |-> IF prev <= i THEN 0 ELSE @[i]]]

(***************************************************************************)
(* The buffer                                                              *)
(***************************************************************************)

\* -ENOMEM changes nothing.
shl_buf_push(d, room) ==
    LET nlen == Word(used + Len(d))
        res  == shl_greedy_realloc(buf, size, nlen, room)
    IN  /\ IF Len(d) > 0 /\ nlen > used /\ res.ok
           THEN /\ buf' = Memcpy(res.mem, used, [i \in 0..(Len(d) - 1) |-> d[i + 1]], 0, Len(d))
                /\ size' = res.size
                /\ used' = used + Len(d)
                /\ content' = content \o d
           ELSE UNCHANGED bufVars
        /\ UNCHANGED arrVars

shl_buf_pop(l) ==
    /\ used' = used - Min({used, l})
    /\ content' = SubSeq(content, 1, Len(content) - Min({Len(content), l}))
    /\ UNCHANGED <<buf, size, arrVars>>

\* The rest moves to the front; source and destination may overlap.
shl_buf_pull(l) ==
    LET n == Min({used, l})
    IN  /\ buf' = Memcpy(buf, 0, buf, n, used - n)
        /\ used' = used - n
        /\ content' = SubSeq(content, n + 1, Len(content))
        /\ UNCHANGED <<size, arrVars>>

shl_buf_flush ==
    /\ used' = 0 /\ content' = << >>
    /\ UNCHANGED <<buf, size, arrVars>>

shl_buf_clear ==
    /\ buf' = Malloc(0) /\ size' = 0 /\ used' = 0 /\ content' = << >>
    /\ UNCHANGED arrVars

(***************************************************************************)
(* The array                                                               *)
(***************************************************************************)

shl_greedy_realloc0_t(need, room) ==
    LET res == Zeroed(shl_greedy_realloc(arr, cnt, need, room), cnt, need)
    IN  /\ arr' = res.mem /\ cnt' = res.size
        /\ UNCHANGED <<bufVars, elems>>

\* The user sets an element that the array has.
SetElement(i, v) ==
    /\ i < cnt
    /\ arr' = [arr EXCEPT ![i] = v]
    /\ elems' = [elems EXCEPT ![i] = v]
    /\ UNCHANGED <<bufVars, cnt>>

(***************************************************************************)
(* The specification                                                       *)
(***************************************************************************)

Init ==
    /\ buf = Malloc(0) /\ size = 0 /\ used = 0 /\ content = << >>
    /\ arr = Malloc(0) /\ cnt = 0
    /\ elems = [i \in 0..(MaxAlloc - 1) |-> 0]

Next ==
    \/ \E d \in Data, room \in BOOLEAN : shl_buf_push(d, room)
    \/ \E l \in 0..MaxPush : shl_buf_pop(l) \/ shl_buf_pull(l)
    \/ shl_buf_flush
    \/ shl_buf_clear
    \/ \E need \in 0..MaxNeed, room \in BOOLEAN : shl_greedy_realloc0_t(need, room)
    \/ \E i \in 0..(MaxNeed - 1), v \in Byte : SetElement(i, v)

\* The buffer holds exactly the bytes that were pushed and not popped or
\* pulled, through every growth and failure, and never memory that nobody has
\* written; the elements of the array are what its user has set them to, and
\* zero where it has set none.
BufExact ==
    /\ size \in {0} \cup Pow2 /\ used <= size /\ DOMAIN buf = 0..(size - 1)
    /\ content = [i \in 1..used |-> buf[i - 1]]
    /\ cnt \in {0} \cup Pow2
    /\ arr = [i \in 0..(cnt - 1) |-> elems[i]]
=============================================================================
