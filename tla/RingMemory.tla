----------------------------- MODULE RingMemory -----------------------------
(***************************************************************************)
(* What the two ring buffers of libshl (src/shl_ring.c and the private one *)
(* of src/shl_pty.c) are built from: size_t words, memory as malloc() and  *)
(* memcpy() treat it, and positions masked with a power of two.            *)
(***************************************************************************)
EXTENDS Integers, Sequences, FiniteSetsExt

CONSTANTS
    Byte,           \* the values of one byte
    Undef,          \* content of memory that was never written
    SizeMax,        \* SIZE_MAX
    DefaultSize,    \* the 4096 both rings fall back to
    MaxAlloc,       \* malloc() always fails beyond this size
    MaxPush         \* longest piece of data handed to one push

ENOMEM == 12

\* The powers of two of a size_t: the numbers with no odd divisor but 1.
Pow2 == {p \in 1..SizeMax : \A d \in 2..p : p % d = 0 => d % 2 = 0}

ASSUME ConstantsAssumption ==
    /\ SizeMax \in Nat
    /\ Undef \notin Byte
    /\ DefaultSize \in Pow2
    /\ MaxAlloc \in Nat
    /\ MaxPush \in Nat

\* The buffer of a ring and the data of one push together take up less than
\* half of the address space, so there is a power of two above the sum of
\* their sizes.
ASSUME AddressSpaceAssumption ==
    \E p \in Pow2 : DefaultSize <= p /\ MaxAlloc + MaxPush < p

\* A word wraps around at SIZE_MAX.
Word(n) == n % (SizeMax + 1)

\* The least power of two not below u, and what a computation of it that
\* shifts the bit out of the word leaves.
NextPow2(u, overflow) ==
    IF \E p \in Pow2 : u <= p THEN Min({p \in Pow2 : u <= p}) ELSE overflow

\* (v) & (size - 1), for a size that is a power of two.  For size 0 the mask
\* has every bit set.
RING_MASK(n, v) == IF n = 0 THEN v ELSE v % n

Cell == Byte \cup {Undef}

Malloc(n) == [i \in 0..(n - 1) |-> Undef]

\* dst after copying n bytes of src, from s on, to position d.
Memcpy(dst, d, src, s, n) ==
    [i \in DOMAIN dst |-> IF d <= i /\ i < d + n THEN src[s + (i - d)] ELSE dst[i]]

\* The u bytes from position s on, around the end of a buffer b of n bytes.
Around(b, n, s, u) == [i \in 1..u |-> b[RING_MASK(n, s + i - 1)]]

\* The data of one push: every sequence of at most MaxPush bytes.
Data == UNION {[1..n -> Byte] : n \in 0..MaxPush}
=============================================================================
