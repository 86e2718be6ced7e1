---------------------------- MODULE ShlPtyProofs ----------------------------
(***************************************************************************)
(* Proofs about ShlPty, for any number of ptys, any limits of the reads of *)
(* a dispatch and of the kernel's buffers, and any amount of traffic.      *)
(***************************************************************************)
EXTENDS ShlPty, SequenceTheorems, TLAPS

(***************************************************************************)
(* The inductive invariant                                                 *)
(***************************************************************************)

\* pty_read() has rounds left while it reads.
RoundsLeft == call # Idle /\ call.op \in {"read", "callback"} => call.num > 0

\* A dispatch that comes to pty_write() with rounds left has read everything,
\* and input that arrived since has left an edge.
InputRead ==
    call # Idle /\ call.op = "write" /\ call.num > 0 =>
        (member[call.pty] /\ unread[call.pty] > 0 => ready[call.pty])

\* A dispatch that is about to rearm returned -EAGAIN, and has filled the
\* terminal if any output is left.
OutputDone ==
    call # Idle /\ call.op = "rearm" =>
        /\ again[call.pty]
        /\ member[call.pty] /\ out[call.pty] # << >> /\ ~ready[call.pty] /\ ~hup[call.pty]
               => ~Writable(call.pty) \/ dirty[call.pty]

CallOK == RoundsLeft /\ InputRead /\ OutputDone

\* Only an open pty is in the epoll set, and only an existing one is open.
Alive(p) == (member[p] => open[p]) /\ (open[p] => ref[p] > 0)

\* The bytes that shl_pty_write() accepted, in order.
Upto(n) == [i \in 1..n |-> i]

InOrder(p) == ref[p] > 0 => got[p] \o ttyq[p] \o out[p] = Upto(accepted[p])

PtyOK(p) ==
    /\ WithinBounds(p) /\ Alive(p) /\ InOrder(p)
    /\ InputIsAnnounced(p) /\ OutputIsAnnounced(p)

Inv == Shape /\ CallOK /\ \A p \in Pty : PtyOK(p)

(***************************************************************************)
(* Operators                                                               *)
(***************************************************************************)

\* The smaller of two numbers.
LEMMA MinPair ==
    ASSUME NEW x \in Nat, NEW y \in Nat
    PROVE  Min({x, y}) = IF x <= y THEN x ELSE y
BY DEF Min

\* Concatenation of bytes is associative.
LEMMA Assoc ==
    ASSUME NEW a \in Seq(Nat), NEW b \in Seq(Nat), NEW c \in Seq(Nat)
    PROVE  (a \o b) \o c = a \o (b \o c)
<1> DEFINE l == (a \o b) \o c
           m == a \o (b \o c)
<1>1. l \in Seq(Nat) /\ m \in Seq(Nat) /\ Len(l) = Len(m)
  BY LenProperties, ConcatProperties
<1>2. ASSUME NEW i \in 1..Len(l) PROVE l[i] = m[i]
  OBVIOUS
<1> HIDE DEF l, m
<1>3. l = m
  BY <1>1, <1>2, SeqEqual
<1> QED BY <1>3 DEF l, m

\* A queue that moves from one buffer to the next keeps its order: b with the
\* first r bytes of c behind it, the rest of c, and everything under way.
Sent(b, c, r) == b \o SubSeq(c, 1, r)
Rest(c, r)    == SubSeq(c, r + 1, Len(c))
Joined(a, b, c) == a \o b \o c

\* A prefix that moves from one sequence to the end of another one.
LEMMA MovedBytes ==
    ASSUME NEW b \in Seq(Nat), NEW c \in Seq(Nat), NEW r \in 0..Len(c)
    PROVE  /\ Sent(b, c, r) \in Seq(Nat) /\ Len(Sent(b, c, r)) = Len(b) + r
           /\ Rest(c, r) \in Seq(Nat) /\ Len(Rest(c, r)) = Len(c) - r
<1>1. /\ SubSeq(c, 1, r) \in Seq(Nat) /\ Len(SubSeq(c, 1, r)) = r
      /\ Rest(c, r) \in Seq(Nat) /\ Len(Rest(c, r)) = Len(c) - r
  BY SubSeqProperties DEF Rest
<1>2. PICK x \in Seq(Nat) : x = SubSeq(c, 1, r) /\ Len(x) = r
  BY <1>1
<1>3. b \o x \in Seq(Nat) /\ Len(b \o x) = Len(b) + r
  BY <1>2, ConcatProperties
<1> QED BY <1>1, <1>2, <1>3 DEF Sent

\* Bytes that move from one queue to the next one stay in order.
LEMMA MoveAcross ==
    ASSUME NEW a \in Seq(Nat), NEW b \in Seq(Nat), NEW c \in Seq(Nat),
           NEW r \in 0..Len(c)
    PROVE  Joined(a, Sent(b, c, r), Rest(c, r)) = Joined(a, b, c)
<1> DEFINE x == SubSeq(c, 1, r)
           y == SubSeq(c, r + 1, Len(c))
<1>1. /\ x \in Seq(Nat) /\ Len(x) = r
      /\ y \in Seq(Nat) /\ Len(y) = Len(c) - r
  BY SubSeqProperties
<1>2. x \o y = c
  <2>1. 1 \in 1..Len(c) + 1 /\ r \in 1 - 1 .. Len(c) /\ Len(c) \in r..Len(c)
    BY LenProperties
  <2>2. SubSeq(c, 1, r) \o SubSeq(c, r + 1, Len(c)) = SubSeq(c, 1, Len(c))
    BY <2>1, ConcatAdjacentSubSeq, Zenon
  <2> QED BY <2>2, SubSeqFull
<1> HIDE DEF x, y
<1>3. a \o (b \o x) \o y = a \o b \o c
  <2>1. a \o (b \o x) = (a \o b) \o x
    BY <1>1, Assoc, ZenonT(30)
  <2>2. a \o b \in Seq(Nat)
    BY ConcatProperties
  <2>3. ((a \o b) \o x) \o y = (a \o b) \o (x \o y)
    BY <1>1, <2>2, Assoc
  <2> QED BY <1>2, <2>1, <2>3
<1> QED BY <1>3 DEF x, y, Sent, Rest, Joined

\* So does one that moves byte by byte.
LEMMA MoveOne ==
    ASSUME NEW a \in Seq(Nat), NEW b \in Seq(Nat), NEW c \in Seq(Nat), b # << >>
    PROVE  /\ Append(a, Head(b)) \in Seq(Nat) /\ Tail(b) \in Seq(Nat)
           /\ Len(Tail(b)) = Len(b) - 1
           /\ Append(a, Head(b)) \o Tail(b) \o c = a \o b \o c
<1>1. /\ Append(a, Head(b)) \in Seq(Nat) /\ Len(Append(a, Head(b))) = Len(a) + 1
      /\ Tail(b) \in Seq(Nat) /\ Len(Tail(b)) = Len(b) - 1
  BY HeadTailProperties, AppendProperties
<1>2. Append(a, Head(b)) \o Tail(b) = a \o b
  <2> DEFINE l == Append(a, Head(b)) \o Tail(b)
             m == a \o b
  <2>1. l \in Seq(Nat) /\ m \in Seq(Nat) /\ Len(l) = Len(m)
    BY <1>1, ConcatProperties, LenProperties
  <2>2. ASSUME NEW i \in 1..Len(l) PROVE l[i] = m[i]
    BY <1>1
  <2> HIDE DEF l, m
  <2>3. l = m
    BY <2>1, <2>2, SeqEqual
  <2> QED BY <2>3 DEF l, m
<1> QED BY <1>1, <1>2

\* The bytes that were accepted, and one more.
LEMMA AcceptOne ==
    ASSUME NEW a \in Seq(Nat), NEW c \in Seq(Nat), NEW n \in Nat, a \o c = Upto(n)
    PROVE  /\ Append(c, n + 1) \in Seq(Nat)
           /\ a \o Append(c, n + 1) = Upto(n + 1)
<1>1. Upto(n) \in Seq(Nat) /\ Len(Upto(n)) = n
  BY DEF Upto
<1>2. Append(Upto(n), n + 1) = Upto(n + 1)
  BY DEF Upto
<1>3. Append(c, n + 1) = c \o <<n + 1>> /\ Append(Upto(n), n + 1) = Upto(n) \o <<n + 1>>
  BY <1>1, AppendIsConcat, SMTT(30)
<1>4. a \o (c \o <<n + 1>>) = (a \o c) \o <<n + 1>>
  <2>1. <<n + 1>> \in Seq(Nat)
    OBVIOUS
  <2> QED BY <2>1, Assoc
<1>5. Append(c, n + 1) \in Seq(Nat)
  BY AppendProperties
<1> QED BY <1>2, <1>3, <1>4, <1>5

\* What the shape says of one pty.
LEMMA PtyShape ==
    ASSUME Shape, NEW p \in Pty
    PROVE  /\ ref[p] \in Nat /\ unread[p] \in Nat /\ written[p] \in Nat /\ accepted[p] \in Nat
           /\ out[p] \in Seq(Nat) /\ ttyq[p] \in Seq(Nat) /\ got[p] \in Seq(Nat)
           /\ Len(out[p]) \in Nat /\ Len(ttyq[p]) \in Nat
           /\ open[p] \in BOOLEAN /\ member[p] \in BOOLEAN /\ ready[p] \in BOOLEAN
           /\ hup[p] \in BOOLEAN /\ again[p] \in BOOLEAN /\ dirty[p] \in BOOLEAN
           /\ MaxRef[p] \in Nat /\ MaxIn[p] \in Nat /\ MaxOut[p] \in Nat /\ TtyRoom \in Nat
BY BoundsAssumption, LenProperties DEF Shape

\* The dispatch in progress.
LEMMA CallShape ==
    ASSUME Shape, call # Idle
    PROVE  /\ call \in [op : {"read", "callback", "write", "rearm"}, pty : Pty,
                        num : 0..ReadLimit, via : {"caller", "bridge"}]
           /\ call.pty \in Pty /\ call.num \in Nat /\ call.num <= ReadLimit
BY BoundsAssumption DEF Shape

\* A step that leaves everything of q alone preserves what is said of q.
Same(q) ==
    /\ ref'[q] = ref[q] /\ open'[q] = open[q] /\ out'[q] = out[q]
    /\ member'[q] = member[q] /\ ready'[q] = ready[q]
    /\ unread'[q] = unread[q] /\ written'[q] = written[q]
    /\ ttyq'[q] = ttyq[q] /\ got'[q] = got[q]
    /\ accepted'[q] = accepted[q] /\ hup'[q] = hup[q] /\ again'[q] = again[q]
    /\ dirty'[q] = dirty[q] /\ (Dispatching(q)' <=> Dispatching(q))

\* A step that leaves a pty alone keeps what holds for it.
LEMMA Frame ==
    ASSUME NEW q \in Pty, PtyOK(q), Same(q)
    PROVE  PtyOK(q)'
BY DEF PtyOK, Same, WithinBounds, Alive, InOrder, InputIsAnnounced, OutputIsAnnounced, Writable

\* ... and what is said of the dispatch, if that is one of q.
LEMMA CallFrame ==
    ASSUME CallOK, call' = call, call # Idle => Same(call.pty)
    PROVE  CallOK'
BY DEF CallOK, RoundsLeft, InputRead, OutputDone, Same, Writable

\* The caller's calls, between two dispatches or inside of a callback, do not
\* change what is said of the dispatch.
LEMMA CallerFrame ==
    ASSUME CallOK, CallersTurn, call' = call
    PROVE  CallOK'
BY DEF CallOK, CallersTurn, RoundsLeft, InputRead, OutputDone, Idle

(***************************************************************************)
(* The children                                                            *)
(***************************************************************************)

\* A child that writes input leaves an edge.
LEMMA ChildWritesStep ==
    ASSUME Inv, NEW p \in Pty, ChildWrites(p)
    PROVE  Inv'
<1> USE DEF ChildWrites, Edge, ptyVars, callerVars
<1>1. Shape'
  BY SMTT(30) DEF Inv, Shape
<1>2. ASSUME NEW q \in Pty, q # p PROVE Same(q)
  BY <1>2 DEF Inv, Shape, Same, Dispatching
<1>3. /\ unread'[p] = unread[p] + 1 /\ written'[p] = written[p] + 1
      /\ ready'[p] = member[p]
      /\ written[p] < MaxIn[p]
  BY DEF Inv, Shape
<1>4. PtyOK(p)'
  <2>1. WithinBounds(p)'
    BY <1>3, PtyShape DEF Inv, PtyOK, WithinBounds
  <2>2. Alive(p)' /\ InOrder(p)'
    BY DEF Inv, PtyOK, Alive, InOrder
  <2>3. InputIsAnnounced(p)' /\ OutputIsAnnounced(p)'
    BY <1>3 DEF InputIsAnnounced, OutputIsAnnounced
  <2> QED BY <2>1, <2>2, <2>3 DEF PtyOK
<1>5. CallOK'
  <2>1. CASE call # Idle /\ call.pty = p
    BY <1>3, <2>1, PtyShape DEF Inv, CallOK, RoundsLeft, InputRead, OutputDone
  <2>2. CASE call # Idle /\ call.pty # p
    BY <1>2, <2>2, CallShape, CallFrame DEF Inv
  <2>3. CASE call = Idle
    BY <2>3, CallFrame DEF Inv
  <2> QED BY <2>1, <2>2, <2>3
<1> QED BY <1>1, <1>2, <1>4, <1>5, Frame DEF Inv

\* A child that reads makes room, and an edge if there was none.
LEMMA ChildReadsStep ==
    ASSUME Inv, NEW p \in Pty, ChildReads(p)
    PROVE  Inv'
<1> USE DEF ChildReads, Edge, ptyVars, callerVars
<1>1. /\ Append(got[p], Head(ttyq[p])) \in Seq(Nat)
      /\ Tail(ttyq[p]) \in Seq(Nat) /\ Len(Tail(ttyq[p])) = Len(ttyq[p]) - 1
      /\ Append(got[p], Head(ttyq[p])) \o Tail(ttyq[p]) \o out[p] = got[p] \o ttyq[p] \o out[p]
  BY PtyShape, MoveOne, ZenonT(30) DEF Inv
<1>2. Shape'
  <2>1. got' \in [Pty -> Seq(Nat)]
    BY <1>1 DEF Inv, Shape
  <2>2. ttyq' \in [Pty -> Seq(Nat)]
    BY <1>1 DEF Inv, Shape
  <2>3. ready' = ready \/ ready' = [ready EXCEPT ![p] = member[p]]
    OBVIOUS
  <2>4. ready' \in [Pty -> BOOLEAN]
    BY <2>3, PtyShape DEF Inv, Shape
  <2> QED BY <2>1, <2>2, <2>4 DEF Inv, Shape
<1>3. ASSUME NEW q \in Pty, q # p PROVE Same(q)
  BY <1>3 DEF Inv, Shape, Same, Dispatching
<1>4. /\ got'[p] = Append(got[p], Head(ttyq[p]))
      /\ ttyq'[p] = Tail(ttyq[p])
      /\ ready'[p] = IF Writable(p) THEN ready[p] ELSE member[p]
  BY DEF Inv, Shape
<1>5. PtyOK(p)'
  <2>1. WithinBounds(p)'
    BY <1>1, <1>4, PtyShape DEF Inv, PtyOK, WithinBounds
  <2>2. Alive(p)' /\ InOrder(p)'
    BY <1>1, <1>4 DEF Inv, PtyOK, Alive, InOrder
  <2>3. InputIsAnnounced(p)' /\ OutputIsAnnounced(p)'
    BY <1>4, PtyShape DEF Inv, PtyOK, InputIsAnnounced, OutputIsAnnounced, Dispatching
  <2> QED BY <2>1, <2>2, <2>3 DEF PtyOK
<1>6. CallOK'
  <2>1. CASE call # Idle /\ call.pty = p
    BY <1>4, <2>1, PtyShape DEF Inv, CallOK, RoundsLeft, InputRead, OutputDone
  <2>2. CASE call # Idle /\ call.pty # p
    BY <1>3, <2>2, CallShape, CallFrame DEF Inv
  <2>3. CASE call = Idle
    BY <2>3, CallFrame DEF Inv
  <2> QED BY <2>1, <2>2, <2>3
<1> QED BY <1>2, <1>3, <1>5, <1>6, Frame DEF Inv

\* A hang-up leaves an edge.
LEMMA ChildHangsUpStep ==
    ASSUME Inv, NEW p \in Pty, ChildHangsUp(p)
    PROVE  Inv'
<1> USE DEF ChildHangsUp, Edge, ptyVars, callerVars
<1>1. Shape'
  BY DEF Inv, Shape
<1>2. ASSUME NEW q \in Pty, q # p PROVE Same(q)
  BY <1>2 DEF Inv, Shape, Same, Dispatching
<1>3. hup'[p] /\ ready'[p] = member[p]
  BY DEF Inv, Shape
<1>4. PtyOK(p)'
  BY <1>3 DEF Inv, PtyOK, WithinBounds, Alive, InOrder, InputIsAnnounced, OutputIsAnnounced
<1>5. CallOK'
  <2>1. CASE call # Idle /\ call.pty = p
    BY <1>3, <2>1, PtyShape DEF Inv, CallOK, RoundsLeft, InputRead, OutputDone
  <2>2. CASE call # Idle /\ call.pty # p
    BY <1>2, <2>2, CallShape, CallFrame DEF Inv
  <2>3. CASE call = Idle
    BY <2>3, CallFrame DEF Inv
  <2> QED BY <2>1, <2>2, <2>3
<1> QED BY <1>1, <1>2, <1>4, <1>5, Frame DEF Inv

(***************************************************************************)
(* Calls that do not dispatch                                              *)
(***************************************************************************)

\* shl_pty_ref() keeps the invariant.
LEMMA RefStep ==
    ASSUME Inv, NEW p \in Pty, shl_pty_ref(p)
    PROVE  Inv'
<1> USE DEF shl_pty_ref, epollVars, childVars, callerVars
<1>1. Shape'
  BY DEF Inv, Shape
<1>2. ASSUME NEW q \in Pty, q # p PROVE Same(q)
  BY <1>2 DEF Inv, Shape, Same, Dispatching
<1>3. ref'[p] = ref[p] + 1 /\ ref[p] > 0 /\ ref[p] < MaxRef[p]
  BY DEF Inv, Shape
<1>4. PtyOK(p)'
  <2>1. WithinBounds(p)' /\ Alive(p)'
    BY <1>3, PtyShape DEF Inv, PtyOK, WithinBounds, Alive
  <2>2. InOrder(p)'
    BY <1>3 DEF Inv, PtyOK, InOrder
  <2>3. InputIsAnnounced(p)' /\ OutputIsAnnounced(p)'
    BY DEF Inv, PtyOK, InputIsAnnounced, OutputIsAnnounced, Writable, Dispatching
  <2> QED BY <2>1, <2>2, <2>3 DEF PtyOK
<1>5. CallOK'
  BY CallerFrame DEF Inv
<1> QED BY <1>1, <1>2, <1>4, <1>5, Frame DEF Inv

\* CloseFd takes an open pty out of the epoll set.
LEMMA Closed ==
    ASSUME Inv, NEW p \in Pty, CloseFd(p)
    PROVE  /\ open' \in [Pty -> BOOLEAN] /\ member' \in [Pty -> BOOLEAN]
           /\ ready' \in [Pty -> BOOLEAN]
           /\ ~open'[p] /\ ~member'[p]
           /\ \A q \in Pty : q # p => /\ open'[q] = open[q] /\ member'[q] = member[q]
                                      /\ ready'[q] = ready[q]
BY ZenonT(30) DEF Inv, Shape, CloseFd, EpollForget, epollVars, PtyOK, Alive

\* shl_pty_close() keeps the invariant.
LEMMA CloseStep ==
    ASSUME Inv, NEW p \in Pty, shl_pty_close(p)
    PROVE  Inv'
<1> USE DEF shl_pty_close, childVars, callerVars
<1>1. Shape'
  BY Closed DEF Inv, Shape
<1>2. ASSUME NEW q \in Pty, q # p PROVE Same(q)
  BY <1>2, Closed DEF Same, Dispatching
<1>3. PtyOK(p)'
  BY Closed DEF Inv, PtyOK, WithinBounds, Alive, InOrder, InputIsAnnounced, OutputIsAnnounced
<1>4. CallOK'
  BY CallerFrame DEF Inv
<1> QED BY <1>1, <1>2, <1>3, <1>4, Frame DEF Inv

\* shl_pty_unref() keeps the invariant: the last one takes the pty out of the
\* epoll set.
LEMMA UnrefStep ==
    ASSUME Inv, NEW p \in Pty, shl_pty_unref(p)
    PROVE  Inv'
<1> USE DEF shl_pty_unref, epollVars, childVars, callerVars
<1>1. ref' \in [Pty -> Nat] /\ ref'[p] = ref[p] - 1 /\ ref[p] > 0
      /\ \A q \in Pty : q # p => ref'[q] = ref[q]
  BY DEF Inv, Shape
<1>2. CallOK'
  BY CallerFrame DEF Inv
<1>3. CASE ref[p] = 1
  <2>1. out' \in [Pty -> Seq(Nat)] /\ \A q \in Pty : q # p => out'[q] = out[q]
    <3>1. << >> \in Seq(Nat)
      OBVIOUS
    <3>2. out \in [Pty -> Seq(Nat)] /\ out' = [out EXCEPT ![p] = << >>]
      BY <1>3 DEF Inv, Shape
    <3> QED BY <3>1, <3>2
  <2>2. Shape'
    BY <1>1, <1>3, <2>1, Closed DEF Inv, Shape
  <2>3. ASSUME NEW q \in Pty, q # p PROVE Same(q)
    BY <1>1, <1>3, <2>1, <2>3, Closed DEF Same, Dispatching
  <2>4. ref'[p] = 0 /\ ~member'[p] /\ ~open'[p]
    BY <1>1, <1>3, Closed
  <2>5. WithinBounds(p)'
    BY <2>4, PtyShape DEF Inv, PtyOK, WithinBounds
  <2>6. Alive(p)' /\ InputIsAnnounced(p)' /\ OutputIsAnnounced(p)'
    BY <2>4 DEF Alive, InputIsAnnounced, OutputIsAnnounced
  <2>7. InOrder(p)'
    BY <2>4 DEF InOrder
  <2> QED BY <1>2, <2>2, <2>3, <2>5, <2>6, <2>7, Frame DEF Inv, PtyOK
<1>4. CASE ref[p] # 1
  <2>1. Shape'
    BY <1>1, <1>4 DEF Inv, Shape
  <2>2. ASSUME NEW q \in Pty, q # p PROVE Same(q)
    BY <1>1, <1>4, <2>2 DEF Same, Dispatching
  <2>3. WithinBounds(p)' /\ Alive(p)'
    BY <1>1, <1>4, PtyShape DEF Inv, PtyOK, WithinBounds, Alive
  <2>4. InOrder(p)'
    BY <1>1, <1>4 DEF Inv, PtyOK, InOrder
  <2>5. InputIsAnnounced(p)' /\ OutputIsAnnounced(p)'
    BY <1>4 DEF Inv, PtyOK, InputIsAnnounced, OutputIsAnnounced, Writable, Dispatching
  <2> QED BY <1>2, <2>1, <2>2, <2>3, <2>4, <2>5, Frame DEF Inv, PtyOK
<1> QED BY <1>3, <1>4

\* shl_pty_write() keeps the invariant.
LEMMA WriteStep ==
    ASSUME Inv, NEW p \in Pty, shl_pty_write(p)
    PROVE  Inv'
<1> USE DEF shl_pty_write, epollVars, childVars
<1>1. /\ accepted' \in [Pty -> Nat] /\ accepted'[p] = accepted[p] + 1
      /\ accepted[p] < MaxOut[p] /\ \A q \in Pty : q # p => accepted'[q] = accepted[q]
  BY DEF Inv, Shape
<1>2. /\ got[p] \o ttyq[p] \in Seq(Nat) /\ out[p] \in Seq(Nat) /\ accepted[p] \in Nat
      /\ ref[p] > 0
  BY PtyShape, ConcatProperties DEF Inv
<1>3. got[p] \o ttyq[p] \o out[p] = Upto(accepted[p])
  BY <1>2 DEF Inv, PtyOK, InOrder
<1>4. /\ Append(out[p], accepted[p] + 1) \in Seq(Nat)
      /\ got[p] \o ttyq[p] \o Append(out[p], accepted[p] + 1) = Upto(accepted[p] + 1)
  <2>1. PICK a \in Seq(Nat), c \in Seq(Nat), n \in Nat :
            a = got[p] \o ttyq[p] /\ c = out[p] /\ n = accepted[p]
    BY <1>2
  <2>2. a \o c = Upto(n)
    BY <1>3, <2>1
  <2>3. Append(c, n + 1) \in Seq(Nat) /\ a \o Append(c, n + 1) = Upto(n + 1)
    BY <2>2, AcceptOne
  <2> QED BY <2>1, <2>3
<1>5. /\ out' \in [Pty -> Seq(Nat)] /\ out'[p] = Append(out[p], accepted[p] + 1)
      /\ \A q \in Pty : q # p => out'[q] = out[q]
  <2>1. out' = [out EXCEPT ![p] = Append(out[p], accepted[p] + 1)]
    BY <1>1 DEF Inv, Shape
  <2> QED BY <1>4, <2>1 DEF Inv, Shape
<1>6. /\ dirty' \in [Pty -> BOOLEAN] /\ dirty'[p] = ~Dispatching(p)
      /\ \A q \in Pty : q # p => dirty'[q] = dirty[q]
  BY DEF Inv, Shape
<1>7. Shape'
  BY <1>1, <1>5, <1>6 DEF Inv, Shape
<1>8. ASSUME NEW q \in Pty, q # p PROVE Same(q)
  BY <1>1, <1>5, <1>6, <1>8 DEF Same, Dispatching
<1>9. PtyOK(p)'
  <2>1. WithinBounds(p)' /\ Alive(p)'
    BY <1>1, PtyShape DEF Inv, PtyOK, WithinBounds, Alive
  <2>2. InOrder(p)'
    BY <1>1, <1>4, <1>5 DEF InOrder
  <2>3. InputIsAnnounced(p)' /\ OutputIsAnnounced(p)'
    BY <1>6 DEF Inv, PtyOK, InputIsAnnounced, OutputIsAnnounced, Dispatching
  <2> QED BY <2>1, <2>2, <2>3 DEF PtyOK
<1>10. CallOK'
  BY CallerFrame DEF Inv
<1> QED BY <1>7, <1>8, <1>9, <1>10, Frame DEF Inv

\* EPOLL_CTL_ADD of a pty reports the events it has, and leaves a member of
\* the set alone.
LEMMA Added ==
    ASSUME Inv, NEW p \in Pty, EpollCtlAdd(p)
    PROVE  /\ member' \in [Pty -> BOOLEAN] /\ ready' \in [Pty -> BOOLEAN]
           /\ \A q \in Pty : q # p => member'[q] = member[q] /\ ready'[q] = ready[q]
           /\ \/ open[p] /\ member'[p] /\ ready'[p] = Poll(p)
              \/ member'[p] = member[p] /\ ready'[p] = ready[p]
BY DEF Inv, Shape, EpollCtlAdd, epollVars, Poll

\* shl_pty_bridge_add() keeps the invariant.
LEMMA AddStep ==
    ASSUME Inv, NEW p \in Pty, shl_pty_bridge_add(p)
    PROVE  Inv'
<1> USE DEF shl_pty_bridge_add, ptyVars, childVars
<1>1. Shape'
  BY Added DEF Inv, Shape
<1>2. ASSUME NEW q \in Pty, q # p PROVE Same(q)
  BY <1>2, Added DEF Same, Dispatching
<1>3. WithinBounds(p)' /\ Alive(p)' /\ InOrder(p)'
  BY Added DEF Inv, PtyOK, WithinBounds, Alive, InOrder
<1>4. InputIsAnnounced(p)' /\ OutputIsAnnounced(p)'
  BY Added DEF Inv, PtyOK, InputIsAnnounced, OutputIsAnnounced, Poll, Writable, Dispatching
<1>5. CallOK'
  BY CallerFrame DEF Inv
<1> QED BY <1>1, <1>2, <1>3, <1>4, <1>5, Frame DEF Inv, PtyOK

\* shl_pty_bridge_remove() keeps the invariant.
LEMMA RemoveStep ==
    ASSUME Inv, NEW p \in Pty, shl_pty_bridge_remove(p)
    PROVE  Inv'
<1> USE DEF shl_pty_bridge_remove, EpollForget, ptyVars, epollVars, childVars
<1>1. Shape'
  BY DEF Inv, Shape
<1>2. ASSUME NEW q \in Pty, q # p PROVE Same(q)
  BY <1>2 DEF Inv, Shape, Same, Dispatching
<1>3. ~member'[p]
  BY DEF Inv, Shape, PtyOK, Alive
<1>4. PtyOK(p)'
  BY <1>3 DEF Inv, PtyOK, WithinBounds, Alive, InOrder, InputIsAnnounced, OutputIsAnnounced
<1>5. CallOK'
  BY CallerFrame DEF Inv
<1> QED BY <1>1, <1>2, <1>4, <1>5, Frame DEF Inv

(***************************************************************************)
(* Dispatching                                                             *)
(***************************************************************************)

\* A dispatch starts with rounds to go.
LEMMA Started ==
    ASSUME Inv, NEW p \in Pty, NEW via \in {"caller", "bridge"}, call = Idle,
           StartDispatch(p, via)
    PROVE  /\ call' \in [op : {"read", "callback", "write", "rearm"}, pty : Pty,
                         num : 0..ReadLimit, via : {"caller", "bridge"}]
           /\ again' \in [Pty -> BOOLEAN]
           /\ Dispatching(p)'
           /\ \A q \in Pty : q # p => again'[q] = again[q] /\ ~Dispatching(q)'
           /\ CallOK'
<1>1. /\ call' = [op |-> "read", pty |-> p, num |-> ReadLimit, via |-> via]
      /\ ReadLimit \in Nat \ {0}
  BY BoundsAssumption DEF StartDispatch
<1>2. call'.op = "read" /\ call'.pty = p /\ call'.num = ReadLimit /\ call' # Idle
  BY <1>1 DEF Idle
<1>3. again' \in [Pty -> BOOLEAN] /\ \A q \in Pty : q # p => again'[q] = again[q]
  BY DEF Inv, Shape, StartDispatch
<1>4. call' \in [op : {"read", "callback", "write", "rearm"}, pty : Pty,
                 num : 0..ReadLimit, via : {"caller", "bridge"}]
  BY <1>1
<1>5. CallOK'
  BY <1>1, <1>2 DEF CallOK, RoundsLeft, InputRead, OutputDone, Idle
<1> QED BY <1>2, <1>3, <1>4, <1>5 DEF Dispatching, Idle

\* A call of shl_pty_dispatch() keeps the invariant.
LEMMA DispatchStart ==
    ASSUME Inv, NEW p \in Pty, shl_pty_dispatch(p)
    PROVE  Inv'
<1> USE DEF shl_pty_dispatch, ptyVars, epollVars, childVars
<1>1. Shape'
  BY Started DEF Inv, Shape
<1>2. ASSUME NEW q \in Pty, q # p PROVE Same(q)
  BY <1>2, Started DEF Same, Dispatching
<1>3. PtyOK(p)'
  BY Started DEF Inv, PtyOK, WithinBounds, Alive, InOrder, InputIsAnnounced, OutputIsAnnounced
<1> QED BY <1>1, <1>2, <1>3, Started, Frame DEF Inv

\* shl_pty_bridge_dispatch() takes an event, and keeps the invariant.
LEMMA BridgeDispatchStart ==
    ASSUME Inv, NEW p \in Pty, shl_pty_bridge_dispatch(p)
    PROVE  Inv'
<1> USE DEF shl_pty_bridge_dispatch, ptyVars, childVars
<1>1. /\ ready' \in [Pty -> BOOLEAN] /\ \A q \in Pty : q # p => ready'[q] = ready[q]
  BY DEF Inv, Shape, Poll
<1>2. WithinBounds(p)' /\ Alive(p)' /\ InOrder(p)'
  BY DEF Inv, PtyOK, WithinBounds, Alive, InOrder
<1>3. CASE Poll(p)
  <2>1. Shape'
    BY <1>1, <1>3, Started DEF Inv, Shape
  <2>2. ASSUME NEW q \in Pty, q # p PROVE Same(q)
    BY <1>1, <1>3, <2>2, Started DEF Same, Dispatching
  <2>3. InputIsAnnounced(p)' /\ OutputIsAnnounced(p)'
    BY <1>3, Started DEF InputIsAnnounced, OutputIsAnnounced
  <2> QED BY <1>2, <1>3, <2>1, <2>2, <2>3, Started, Frame DEF Inv, PtyOK
<1>4. CASE ~Poll(p)
  <2>1. Shape'
    BY <1>1, <1>4 DEF Inv, Shape
  <2>2. ASSUME NEW q \in Pty, q # p PROVE Same(q)
    BY <1>1, <1>4, <2>2 DEF Same, Dispatching
  <2>3. InputIsAnnounced(p)' /\ OutputIsAnnounced(p)'
    BY <1>4 DEF InputIsAnnounced, OutputIsAnnounced, Poll, Writable
  <2>4. CallOK'
    BY <1>4, CallerFrame DEF Inv, CallersTurn
  <2> QED BY <1>2, <2>1, <2>2, <2>3, <2>4, Frame DEF Inv, PtyOK
<1> QED BY <1>3, <1>4

\* One read() of pty_read() keeps the invariant.
LEMMA PtyReadStep ==
    ASSUME Inv, PtyRead
    PROVE  Inv'
<1> USE DEF ptyVars, epollVars, callerVars
<1>1. PICK p \in Pty : p = call.pty
  BY CallShape DEF Inv, PtyRead
<1>2. /\ call # Idle /\ call.op = "read" /\ call.num > 0
      /\ UNCHANGED <<ptyVars, epollVars, written, ttyq, got, hup, callerVars>>
  BY DEF Inv, CallOK, RoundsLeft, PtyRead
<1>3. PICK n \in Nat : n = Min({unread[p], InBufSize})
  BY MinPair, PtyShape, BoundsAssumption DEF Inv
<1>4. n <= unread[p] /\ (n = 0 => unread[p] = 0)
  <2>1. unread[p] \in Nat /\ InBufSize \in Nat /\ InBufSize # 0
    BY PtyShape, BoundsAssumption DEF Inv
  <2>2. Min({unread[p], InBufSize}) = IF unread[p] <= InBufSize THEN unread[p] ELSE InBufSize
    BY <2>1, MinPair
  <2> QED BY <1>3, <2>1, <2>2
<1>5. \/ /\ unread' = [unread EXCEPT ![p] = @ - n]
         /\ call' = [call EXCEPT !.op = "callback"]
      \/ /\ ~open[p] \/ n = 0
         /\ call' = [call EXCEPT !.op = "write"]
         /\ unread' = unread
  BY <1>1, <1>3 DEF PtyRead
<1>6. /\ call' \in [op : {"read", "callback", "write", "rearm"}, pty : Pty,
                    num : 0..ReadLimit, via : {"caller", "bridge"}]
      /\ call'.pty = p /\ call' # Idle /\ call'.num = call.num
      /\ call'.op = "callback" \/ (call'.op = "write" /\ (~open[p] \/ unread[p] = 0))
  BY <1>1, <1>2, <1>4, <1>5, CallShape DEF Inv, Idle
<1>7. /\ unread' \in [Pty -> Nat] /\ unread'[p] <= unread[p]
      /\ \A q \in Pty : q # p => unread'[q] = unread[q]
      /\ call'.op = "write" => unread'[p] = unread[p]
  <2>1. unread \in [Pty -> Nat] /\ unread[p] \in Nat /\ unread[p] - n \in Nat
    BY <1>4, PtyShape, SMTT(30) DEF Inv, Shape
  <2>2. call'.op = "write" => unread' = unread
    BY <1>2, <1>5, CallShape DEF Inv
  <2> QED BY <1>5, <2>1, <2>2
<1>8. Shape'
  BY <1>2, <1>6, <1>7 DEF Inv, Shape
<1>9. ASSUME NEW q \in Pty, q # p PROVE Same(q)
  BY <1>1, <1>2, <1>6, <1>7, <1>9 DEF Same, Dispatching, Idle
<1>10. PtyOK(p)'
  <2>1. unread'[p] \in Nat
    BY <1>7
  <2>2. WithinBounds(p)' /\ Alive(p)'
    BY <1>2, <1>7, <2>1, PtyShape DEF Inv, PtyOK, WithinBounds, Alive
  <2>3. InOrder(p)'
    BY <1>2 DEF Inv, PtyOK, InOrder
  <2>4. InputIsAnnounced(p)' /\ OutputIsAnnounced(p)'
    BY <1>6 DEF InputIsAnnounced, OutputIsAnnounced, Dispatching, Idle
  <2> QED BY <2>2, <2>3, <2>4 DEF PtyOK
<1>11. CallOK'
  <2>1. RoundsLeft' /\ OutputDone'
    BY <1>2, <1>6 DEF RoundsLeft, OutputDone
  <2>2. call'.op = "write" => ~member'[p] \/ unread'[p] = 0
    BY <1>2, <1>6, <1>7 DEF Inv, PtyOK, Alive
  <2>3. InputRead'
    BY <1>6, <2>2 DEF InputRead
  <2> QED BY <2>1, <2>3 DEF CallOK
<1> QED BY <1>8, <1>9, <1>10, <1>11, Frame DEF Inv

\* The input callback returns to pty_read().
LEMMA CallbackReturnsStep ==
    ASSUME Inv, CallbackReturns
    PROVE  Inv'
<1> USE DEF CallbackReturns, ptyVars, epollVars, childVars, callerVars
<1>1. call \in [op : {"read", "callback", "write", "rearm"}, pty : Pty,
                num : 0..ReadLimit, via : {"caller", "bridge"}]
      /\ call # Idle /\ call.num \in Nat /\ call.num > 0
  BY CallShape DEF Inv, CallOK, RoundsLeft
<1>2. /\ call'.pty = call.pty /\ call' # Idle /\ call'.num = call.num - 1
      /\ call'.op = IF call.num = 1 THEN "write" ELSE "read"
  BY <1>1 DEF Idle
<1>3. call' \in [op : {"read", "callback", "write", "rearm"}, pty : Pty,
                 num : 0..ReadLimit, via : {"caller", "bridge"}]
  <2>1. call.num - 1 \in 0..ReadLimit
    BY <1>1, BoundsAssumption
  <2> QED BY <1>1, <2>1
<1>4. Shape'
  BY <1>3 DEF Inv, Shape
<1>5. ASSUME NEW q \in Pty PROVE Same(q)
  BY <1>1, <1>2 DEF Same, Dispatching, Idle
<1>6. CallOK'
  BY <1>1, <1>2 DEF CallOK, RoundsLeft, InputRead, OutputDone
<1> QED BY <1>4, <1>5, <1>6, Frame DEF Inv

\* pty_write() moves as much of the buffer as the terminal takes.
LEMMA PtyWriteStep ==
    ASSUME Inv, PtyWrite
    PROVE  Inv'
<1> USE DEF epollVars
<1>1. PICK p \in Pty : p = call.pty
  BY CallShape DEF Inv, PtyWrite
<1>2. /\ call # Idle /\ call.op = "write" /\ call.num \in Nat
      /\ UNCHANGED <<ref, open, epollVars, unread, written, got, hup, accepted>>
  BY CallShape DEF Inv, PtyWrite
<1>3. /\ out[p] \in Seq(Nat) /\ ttyq[p] \in Seq(Nat) /\ got[p] \in Seq(Nat)
      /\ Len(out[p]) \in Nat /\ Len(ttyq[p]) \in Nat /\ TtyRoom \in Nat
      /\ Len(ttyq[p]) <= TtyRoom /\ TtyRoom - Len(ttyq[p]) \in Nat
  BY PtyShape DEF Inv, PtyOK, WithinBounds
<1>4. PICK r \in Nat :
          /\ r = IF open[p] /\ ~hup[p] THEN Min({Len(out[p]), TtyRoom - Len(ttyq[p])}) ELSE 0
          /\ r \in 0..Len(out[p]) /\ Len(ttyq[p]) + r <= TtyRoom
          /\ open[p] /\ ~hup[p] /\ r # Len(out[p]) => Len(ttyq[p]) + r = TtyRoom
  <2>1. PICK x \in Nat, y \in Nat, z \in Nat :
            x = Len(out[p]) /\ z = Len(ttyq[p]) /\ y = TtyRoom - z
    BY <1>3
  <2>2. Min({x, y}) = IF x <= y THEN x ELSE y
    BY MinPair
  <2>3. TtyRoom = z + y
    BY <1>3, <2>1
  <2>4. PICK r \in Nat : r = IF open[p] /\ ~hup[p] THEN (IF x <= y THEN x ELSE y) ELSE 0
    OBVIOUS
  <2>5. r \in 0..x /\ z + r <= TtyRoom /\ (open[p] /\ ~hup[p] /\ r # x => z + r = TtyRoom)
    BY <2>3, <2>4
  <2>6. r = IF open[p] /\ ~hup[p] THEN Min({Len(out[p]), TtyRoom - Len(ttyq[p])}) ELSE 0
    BY <2>1, <2>2, <2>4
  <2> QED BY <2>1, <2>5, <2>6
<1>5. /\ ttyq' = [ttyq EXCEPT ![p] = Sent(ttyq[p], out[p], r)]
      /\ out' = [out EXCEPT ![p] = Rest(out[p], r)]
      /\ again' = [again EXCEPT ![p] = call.num = 0]
      /\ dirty' = [dirty EXCEPT ![p] = FALSE]
      /\ call' = IF call.num = 0 /\ call.via = "bridge"
                 THEN [call EXCEPT !.op = "rearm"] ELSE Idle
  BY <1>1, <1>2, <1>4 DEF Inv, Shape, PtyWrite, Sent, Rest
<1>6. /\ Sent(ttyq[p], out[p], r) \in Seq(Nat)
      /\ Len(Sent(ttyq[p], out[p], r)) = Len(ttyq[p]) + r
      /\ Rest(out[p], r) \in Seq(Nat) /\ Len(Rest(out[p], r)) = Len(out[p]) - r
      /\ Joined(got[p], Sent(ttyq[p], out[p], r), Rest(out[p], r))
           = Joined(got[p], ttyq[p], out[p])
  <2>1. r \in 0..Len(out[p])
    BY <1>4
  <2>2. out[p] \in Seq(Nat) /\ ttyq[p] \in Seq(Nat) /\ got[p] \in Seq(Nat)
    BY <1>3
  <2>3. /\ Sent(ttyq[p], out[p], r) \in Seq(Nat)
        /\ Len(Sent(ttyq[p], out[p], r)) = Len(ttyq[p]) + r
        /\ Rest(out[p], r) \in Seq(Nat) /\ Len(Rest(out[p], r)) = Len(out[p]) - r
    BY <2>1, <2>2, MovedBytes
  <2>4. Joined(got[p], Sent(ttyq[p], out[p], r), Rest(out[p], r))
           = Joined(got[p], ttyq[p], out[p])
    BY <2>1, <2>2, MoveAcross
  <2> QED BY <2>3, <2>4
<1>7. /\ ttyq' \in [Pty -> Seq(Nat)] /\ out' \in [Pty -> Seq(Nat)]
      /\ ttyq'[p] = Sent(ttyq[p], out[p], r)
      /\ out'[p] = Rest(out[p], r)
      /\ \A q \in Pty : q # p => ttyq'[q] = ttyq[q] /\ out'[q] = out[q]
  BY <1>5, <1>6 DEF Inv, Shape
<1>8. /\ again' \in [Pty -> BOOLEAN] /\ again'[p] = (call.num = 0)
      /\ dirty' \in [Pty -> BOOLEAN]
      /\ \A q \in Pty : q # p => again'[q] = again[q] /\ dirty'[q] = dirty[q]
  BY <1>5 DEF Inv, Shape
<1>9. \/ call' = Idle
      \/ /\ call' \in [op : {"read", "callback", "write", "rearm"}, pty : Pty,
                       num : 0..ReadLimit, via : {"caller", "bridge"}]
         /\ call'.op = "rearm" /\ call'.pty = p /\ call.num = 0
  BY <1>1, <1>2, <1>5, CallShape DEF Inv
<1>10. Shape'
  BY <1>2, <1>7, <1>8, <1>9 DEF Inv, Shape
<1>11. ASSUME NEW q \in Pty, q # p PROVE Same(q)
  BY <1>1, <1>2, <1>7, <1>8, <1>9, <1>11 DEF Same, Dispatching, Idle
<1>12. WithinBounds(p)' /\ Alive(p)'
  BY <1>2, <1>4, <1>6, <1>7 DEF Inv, PtyOK, WithinBounds, Alive
<1>13. InOrder(p)'
  BY <1>2, <1>6, <1>7 DEF Inv, PtyOK, InOrder, Joined
<1>14. InputIsAnnounced(p)'
  BY <1>1, <1>2, <1>8 DEF Inv, CallOK, InputRead, InputIsAnnounced
<1>15. member'[p] /\ out'[p] # << >> /\ ~hup'[p] => ~Writable(p)'
  <2> SUFFICES ASSUME member'[p], out'[p] # << >>, ~hup'[p]
               PROVE  ~Writable(p)'
    OBVIOUS
  <2>1. open[p] /\ ~hup[p]
    BY <1>2 DEF Inv, PtyOK, Alive
  <2>2. Len(out'[p]) # 0
    BY <1>7, EmptySeq
  <2>3. r # Len(out[p])
    BY <1>3, <1>6, <1>7, <2>2
  <2>4. Len(ttyq'[p]) = TtyRoom
    BY <1>4, <1>6, <1>7, <2>1, <2>3
  <2> QED BY <1>3, <2>4 DEF Writable
<1>16. OutputIsAnnounced(p)'
  BY <1>15 DEF OutputIsAnnounced
<1>17. CallOK'
  BY <1>8, <1>9, <1>15 DEF CallOK, RoundsLeft, InputRead, OutputDone, Idle
<1> QED BY <1>10, <1>11, <1>12, <1>13, <1>14, <1>16, <1>17, Frame DEF Inv, PtyOK

\* The epoll_ctl() after -EAGAIN keeps the invariant, although it fails for a
\* member.
LEMMA RearmStep ==
    ASSUME Inv, Rearm
    PROVE  Inv'
<1> USE DEF Rearm, ptyVars, childVars, callerVars
<1>1. PICK p \in Pty : p = call.pty
  BY CallShape DEF Inv
<1>2. /\ member' \in [Pty -> BOOLEAN] /\ ready' \in [Pty -> BOOLEAN]
      /\ \A q \in Pty : q # p => member'[q] = member[q] /\ ready'[q] = ready[q]
      /\ \/ open[p] /\ member'[p] /\ ready'[p] = Poll(p)
         \/ member'[p] = member[p] /\ ready'[p] = ready[p]
  BY <1>1, Added
<1>3. Shape'
  BY <1>2 DEF Inv, Shape
<1>4. ASSUME NEW q \in Pty, q # p PROVE Same(q)
  BY <1>1, <1>2, <1>4 DEF Same, Dispatching
<1>5. WithinBounds(p)' /\ Alive(p)' /\ InOrder(p)'
  BY <1>2 DEF Inv, PtyOK, WithinBounds, Alive, InOrder
<1>6. InputIsAnnounced(p)' /\ OutputIsAnnounced(p)'
  BY <1>1, <1>2 DEF Inv, CallOK, OutputDone, InputIsAnnounced, OutputIsAnnounced, Poll, Writable
<1>7. CallOK'
  BY DEF CallOK, RoundsLeft, InputRead, OutputDone
<1> QED BY <1>3, <1>4, <1>5, <1>6, <1>7, Frame DEF Inv, PtyOK

(***************************************************************************)
(* The theorems                                                            *)
(***************************************************************************)

\* A new bridge and new ptys satisfy the invariant.
LEMMA InitInv == Init => Inv
<1> SUFFICES ASSUME Init PROVE Inv
  OBVIOUS
<1> USE DEF Init
<1>1. << >> \in Seq(Nat) /\ Len(<< >>) = 0
  OBVIOUS
<1>2. Shape
  BY <1>1 DEF Shape
<1>3. CallOK
  BY DEF CallOK, RoundsLeft, InputRead, OutputDone
<1>4. ASSUME NEW p \in Pty PROVE PtyOK(p)
  <2>1. WithinBounds(p) /\ Alive(p)
    BY <1>1, BoundsAssumption DEF WithinBounds, Alive
  <2>2. InOrder(p)
    BY DEF InOrder, Upto
  <2>3. InputIsAnnounced(p) /\ OutputIsAnnounced(p)
    BY DEF InputIsAnnounced, OutputIsAnnounced
  <2> QED BY <2>1, <2>2, <2>3 DEF PtyOK
<1> QED BY <1>2, <1>3, <1>4 DEF Inv

\* Every step keeps the invariant.
LEMMA NextInv == Inv /\ [Next]_vars => Inv'
<1> SUFFICES ASSUME Inv, [Next]_vars PROVE Inv'
  OBVIOUS
<1>1. CASE Children
  BY <1>1, ChildWritesStep, ChildReadsStep, ChildHangsUpStep DEF Children
<1>2. CASE Caller
  BY <1>2, RefStep, UnrefStep, CloseStep, WriteStep, AddStep, RemoveStep, DispatchStart
     DEF Caller
<1>3. CASE BridgeDispatches
  BY <1>3, BridgeDispatchStart DEF BridgeDispatches
<1>4. CASE DispatchStep
  BY <1>4, PtyReadStep, CallbackReturnsStep, PtyWriteStep, RearmStep DEF DispatchStep
<1>5. CASE UNCHANGED vars
  <2>1. Shape' /\ \A q \in Pty : Same(q)
    BY <1>5 DEF vars, Inv, Shape, Same, Dispatching
  <2>2. CallOK'
    BY <1>5, <2>1, CallShape, CallFrame DEF Inv, vars
  <2> QED BY <2>1, <2>2, Frame DEF Inv
<1> QED BY <1>1, <1>2, <1>3, <1>4, <1>5 DEF Next

\* The invariant holds in every state of every behaviour.
LEMMA AlwaysInv == Spec => []Inv
BY InitInv, NextInv, PTL DEF Spec

\* The bridge never gets an event of a pty that was freed or closed: every
\* member of the epoll set belongs to an existing, open pty, whatever the
\* callbacks close, unreference, remove and add while shl_pty_dispatch() is
\* in its loop.
THEOREM EventsStayAlive == Spec => []EventsAlive
<1>1. Inv => EventsAlive
  <2> SUFFICES ASSUME Inv PROVE EventsAlive
    OBVIOUS
  <2>1. TypeOK
    BY DEF Inv, TypeOK, PtyOK
  <2>2. \A p \in Pty : member[p] => ref[p] > 0 /\ open[p]
    BY DEF Inv, PtyOK, Alive
  <2> QED BY <2>1, <2>2 DEF EventsAlive
<1> QED BY <1>1, AlwaysInv, PTL

\* The child receives what shl_pty_write() accepted, in order and each byte
\* once, for every way writev() of pty_write() splits it up.
THEOREM OutputStaysInOrder == Spec => []OutputInOrder
<1>1. Inv => OutputInOrder
  BY DEF Inv, PtyOK, InOrder, OutputInOrder, Upto
<1> QED BY <1>1, AlwaysInv, PTL

\* The edge-triggered bridge loses no edge: a pty it sleeps on has no unread
\* input, unless the last dispatch returned -EAGAIN, and no output that its
\* terminal would take, unless the caller still has to dispatch it.
THEOREM EdgesAreKept == Spec => []NoEdgeIsLost
<1>1. Inv => NoEdgeIsLost
  BY DEF Inv, PtyOK, NoEdgeIsLost
<1> QED BY <1>1, AlwaysInv, PTL
=============================================================================
