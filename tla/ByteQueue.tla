----------------------------- MODULE ByteQueue -----------------------------
(***************************************************************************)
(* What the ring buffers of libshl promise to their callers, with no word  *)
(* about how the bytes are stored: an unbounded first-in first-out queue   *)
(* of bytes.  A push either appends all of its bytes and returns 0, or     *)
(* leaves the queue alone and returns -ENOMEM; a pull removes bytes from   *)
(* the front and never fails.                                              *)
(*                                                                         *)
(* ShlRing (src/shl_ring.c) and PtyRing (the private ring of              *)
(* src/shl_pty.c) are both shown to implement this module.                 *)
(***************************************************************************)
EXTENDS Integers, Sequences

CONSTANTS
    Byte,      \* the values of one byte
    MaxPush    \* longest piece of data handed to one push

VARIABLES
    queue,     \* the bytes pushed and not yet pulled, oldest first
    ret        \* what the last push returned: 0 or -ENOMEM

qvars == <<queue, ret>>

ENOMEM == 12

\* The data of one push: every sequence of at most MaxPush bytes.
Data == UNION {[1..n -> Byte] : n \in 0..MaxPush}

Init == queue = <<>> /\ ret = 0

Push(data) == queue' = queue \o data /\ ret' = 0

PushFails == queue' = queue /\ ret' = -ENOMEM

Pull(n) == queue' = SubSeq(queue, n + 1, Len(queue)) /\ ret' = ret

Flush == queue' = <<>> /\ ret' = ret

Next ==
    \/ \E data \in Data : Push(data)
    \/ PushFails
    \/ \E n \in 0..Len(queue) : Pull(n)
    \/ Flush

Spec == Init /\ [][Next]_qvars
=============================================================================
