------------------------------- MODULE ShlPty -------------------------------
(***************************************************************************)
(* The pty objects and the pty bridge of src/shl_pty.c, from the moment    *)
(* shl_pty_open() has returned them: dispatching, buffered writes, input   *)
(* callbacks that call back into the library, references, and the          *)
(* edge-triggered epoll set that the bridge puts the ptys into.            *)
(*                                                                         *)
(* The caller is one thread.  The children on the other side of the        *)
(* terminals and the kernel run concurrently with it, also between the     *)
(* system calls of one dispatch.  The output buffer is the queue that      *)
(* PtyRing is shown to implement.                                          *)
(***************************************************************************)
EXTENDS Integers, Sequences, FiniteSetsExt

CONSTANTS
    Pty,         \* the ptys
    ReadLimit,   \* reads of one dispatch: the 50 of pty_read()
    InBufSize,   \* bytes of one read: SHL_PTY_BUFSIZE
    TtyRoom,     \* bytes the kernel buffers towards a child
    MaxIn,       \* bytes each child writes (bound of the model)
    MaxOut,      \* bytes the caller writes to each pty (bound of the model)
    MaxRef       \* references the caller holds of each pty (bound of the model)

ASSUME BoundsAssumption ==
    /\ ReadLimit \in Nat \ {0}
    /\ InBufSize \in Nat \ {0}
    /\ TtyRoom \in Nat \ {0}
    /\ MaxIn \in [Pty -> Nat]
    /\ MaxOut \in [Pty -> Nat]
    /\ MaxRef \in [Pty -> Nat \ {0}]

VARIABLES
    ref,       \* pty->ref, 0 when the object is freed
    open,      \* pty->fd >= 0
    out,       \* pty->out_buf, as a queue
    member,    \* the fd is in the epoll set of the bridge
    ready,     \* epoll has an edge to report for it
    call,      \* the dispatch in progress
    unread,    \* bytes the child wrote and nobody has read
    written,   \* bytes the child wrote in total
    ttyq,      \* bytes on their way to the child
    got,       \* bytes the child has read
    accepted,  \* bytes shl_pty_write() has accepted
    hup,       \* the child has closed the terminal
    again,     \* the last dispatch of the pty returned -EAGAIN
    dirty      \* written to since the last dispatch, and outside of one

ptyVars    == <<ref, open, out>>
epollVars  == <<member, ready>>
childVars  == <<unread, written, ttyq, got, hup>>
callerVars == <<accepted, again, dirty>>
vars == <<ref, open, out, member, ready, call, unread, written, ttyq, got,
          accepted, hup, again, dirty>>

Idle == [op |-> "none"]

Dispatching(p) == call # Idle /\ call.pty = p

\* What the caller may do now: anything between two calls and inside of an
\* input callback.
CallersTurn == call = Idle \/ call.op = "callback"

(***************************************************************************)
(* epoll and the terminal (external: the kernel)                           *)
(***************************************************************************)

Writable(p) == Len(ttyq[p]) < TtyRoom

\* The events poll() reports for a terminal.
Poll(p) == unread[p] > 0 \/ Writable(p) \/ hup[p]

\* An event of a terminal makes its member of the epoll set ready.
Edge(p) == ready' = [ready EXCEPT ![p] = member[p]]

\* EPOLL_CTL_ADD fails for a closed descriptor and for one that is in the
\* set already.
EpollCtlAdd(p) ==
    IF open[p] /\ ~member[p]
    THEN member' = [member EXCEPT ![p] = TRUE] /\ ready' = [ready EXCEPT ![p] = Poll(p)]
    ELSE UNCHANGED epollVars

EpollForget(p) ==
    member' = [member EXCEPT ![p] = FALSE] /\ ready' = [ready EXCEPT ![p] = FALSE]

(***************************************************************************)
(* The children                                                            *)
(***************************************************************************)

ChildWrites(p) ==
    /\ ~hup[p] /\ written[p] < MaxIn[p]
    /\ written' = [written EXCEPT ![p] = @ + 1]
    /\ unread' = [unread EXCEPT ![p] = @ + 1]
    /\ Edge(p)
    /\ UNCHANGED <<ptyVars, member, call, ttyq, got, hup, callerVars>>

\* The terminal becomes writable again when the child reads from a full one.
ChildReads(p) ==
    /\ ~hup[p] /\ ttyq[p] # << >>
    /\ got' = [got EXCEPT ![p] = Append(@, Head(ttyq[p]))]
    /\ ttyq' = [ttyq EXCEPT ![p] = Tail(@)]
    /\ IF Writable(p) THEN UNCHANGED ready ELSE Edge(p)
    /\ UNCHANGED <<ptyVars, member, call, unread, written, hup, callerVars>>

ChildHangsUp(p) ==
    /\ ~hup[p]
    /\ hup' = [hup EXCEPT ![p] = TRUE]
    /\ Edge(p)
    /\ UNCHANGED <<ptyVars, member, call, unread, written, ttyq, got, callerVars>>

(***************************************************************************)
(* Calls of the caller that do not dispatch                                *)
(***************************************************************************)

shl_pty_ref(p) ==
    /\ CallersTurn /\ ref[p] > 0 /\ ref[p] < MaxRef[p]
    /\ ref' = [ref EXCEPT ![p] = @ + 1]
    /\ UNCHANGED <<open, out, epollVars, call, childVars, callerVars>>

\* close() of the only descriptor of a file takes it out of the epoll set.
CloseFd(p) ==
    IF open[p]
    THEN open' = [open EXCEPT ![p] = FALSE] /\ EpollForget(p)
    ELSE UNCHANGED <<open, epollVars>>

shl_pty_close(p) ==
    /\ CallersTurn /\ ref[p] > 0
    /\ CloseFd(p)
    /\ UNCHANGED <<ref, out, call, childVars, callerVars>>

\* Mutant of shl_pty_unref: the last reference frees without closing.
UnrefWithoutClose(p) ==
    /\ CallersTurn /\ ref[p] > 0
    /\ Dispatching(p) => ref[p] > 1
    /\ ref' = [ref EXCEPT ![p] = @ - 1]
    /\ out' = IF ref[p] = 1 THEN [out EXCEPT ![p] = << >>] ELSE out
    /\ UNCHANGED <<open, epollVars, call, childVars, callerVars>>

\* The last reference closes and frees the pty.  A callback does not drop
\* the last reference of the pty it is called for: pty_read() goes on to use
\* the object.
shl_pty_unref(p) ==
    /\ CallersTurn /\ ref[p] > 0
    /\ Dispatching(p) => ref[p] > 1
    /\ ref' = [ref EXCEPT ![p] = @ - 1]
    /\ IF ref[p] = 1
       THEN CloseFd(p) /\ out' = [out EXCEPT ![p] = << >>]
       ELSE UNCHANGED <<open, out, epollVars>>
    /\ UNCHANGED <<call, childVars, callerVars>>

\* Only buffers the data; -ENODEV for a closed pty leaves everything alone.
shl_pty_write(p) ==
    /\ CallersTurn /\ ref[p] > 0 /\ open[p]
    /\ accepted[p] < MaxOut[p]
    /\ accepted' = [accepted EXCEPT ![p] = @ + 1]
    /\ out' = [out EXCEPT ![p] = Append(@, accepted'[p])]
    /\ dirty' = [dirty EXCEPT ![p] = ~Dispatching(p)]
    /\ UNCHANGED <<ref, open, epollVars, call, childVars, again>>

shl_pty_bridge_add(p) ==
    /\ CallersTurn /\ ref[p] > 0
    /\ EpollCtlAdd(p)
    /\ UNCHANGED <<ptyVars, call, childVars, accepted, again, dirty>>

shl_pty_bridge_remove(p) ==
    /\ CallersTurn /\ ref[p] > 0
    /\ IF open[p] THEN EpollForget(p) ELSE UNCHANGED epollVars
    /\ UNCHANGED <<ptyVars, call, childVars, accepted, again, dirty>>

(***************************************************************************)
(* Dispatching                                                             *)
(***************************************************************************)

StartDispatch(p, via) ==
    /\ call' = [op |-> "read", pty |-> p, num |-> ReadLimit, via |-> via]
    /\ again' = [again EXCEPT ![p] = FALSE]

\* The caller dispatches a pty itself, as it must after writing to it.
shl_pty_dispatch(p) ==
    /\ call = Idle /\ ref[p] > 0
    /\ StartDispatch(p, "caller")
    /\ UNCHANGED <<ptyVars, epollVars, childVars, accepted, dirty>>

\* Mutant of EdgeTriggered: the EPOLLET flag is missing.
LevelTriggered == FALSE

\* The descriptors are added with EPOLLET.
EdgeTriggered == TRUE

\* epoll_wait() reports one ready member, if it still has events.
shl_pty_bridge_dispatch(p) ==
    /\ call = Idle /\ ready[p]
    /\ ready' = [ready EXCEPT ![p] = Poll(p) /\ ~EdgeTriggered]
    /\ IF Poll(p) THEN StartDispatch(p, "bridge") ELSE UNCHANGED <<call, again>>
    /\ UNCHANGED <<ptyVars, member, childVars, accepted, dirty>>

\* Mutant of PtyRead: the loop goes on when there is nothing to read.
ReadUntilInput ==
    /\ call # Idle /\ call.op = "read"
    /\ open[call.pty] /\ unread[call.pty] > 0
    /\ unread' = [unread EXCEPT ![call.pty] = @ - Min({@, InBufSize})]
    /\ call' = [call EXCEPT !.op = "callback"]
    /\ UNCHANGED <<ptyVars, epollVars, written, ttyq, got, hup, callerVars>>

\* One round of the loop of pty_read(): the read() ...
PtyRead ==
    /\ call # Idle /\ call.op = "read"
    /\ LET p == call.pty
           n == Min({unread[p], InBufSize})
       IN  IF open[p] /\ n > 0
           THEN /\ unread' = [unread EXCEPT ![p] = @ - n]
                /\ call' = [call EXCEPT !.op = "callback"]
           ELSE /\ call' = [call EXCEPT !.op = "write"]
                /\ UNCHANGED unread
    /\ UNCHANGED <<ptyVars, epollVars, written, ttyq, got, hup, callerVars>>

\* Mutant of CallbackReturns: one read per dispatch, as for a level-triggered
\* descriptor.
ReadOnce ==
    /\ call # Idle /\ call.op = "callback"
    /\ call' = [call EXCEPT !.num = 1, !.op = "write"]
    /\ UNCHANGED <<ptyVars, epollVars, childVars, callerVars>>

\* ... and the end of the callback.
CallbackReturns ==
    /\ call # Idle /\ call.op = "callback"
    /\ call' = [call EXCEPT !.num = @ - 1, !.op = IF call.num = 1 THEN "write" ELSE "read"]
    /\ UNCHANGED <<ptyVars, epollVars, childVars, callerVars>>

\* Mutant of PtyWrite: the whole buffer is popped after a partial writev().
PopEverything ==
    /\ call # Idle /\ call.op = "write"
    /\ LET p == call.pty
           r == IF open[p] /\ ~hup[p] THEN Min({Len(out[p]), TtyRoom - Len(ttyq[p])}) ELSE 0
       IN  /\ ttyq' = [ttyq EXCEPT ![p] = @ \o SubSeq(out[p], 1, r)]
           /\ out' = IF r > 0 THEN [out EXCEPT ![p] = << >>] ELSE out
           /\ again' = [again EXCEPT ![p] = call.num = 0]
           /\ dirty' = [dirty EXCEPT ![p] = FALSE]
           /\ call' = IF call.num = 0 /\ call.via = "bridge"
                      THEN [call EXCEPT !.op = "rearm"] ELSE Idle
    /\ UNCHANGED <<ref, open, epollVars, unread, written, got, hup, accepted>>

\* pty_write() and the return of shl_pty_dispatch(), with -EAGAIN if the
\* loop of pty_read() has run out of rounds.
PtyWrite ==
    /\ call # Idle /\ call.op = "write"
    /\ LET p == call.pty
           r == IF open[p] /\ ~hup[p] THEN Min({Len(out[p]), TtyRoom - Len(ttyq[p])}) ELSE 0
       IN  /\ ttyq' = [ttyq EXCEPT ![p] = @ \o SubSeq(out[p], 1, r)]
           /\ out' = [out EXCEPT ![p] = SubSeq(@, r + 1, Len(@))]
           /\ again' = [again EXCEPT ![p] = call.num = 0]
           /\ dirty' = [dirty EXCEPT ![p] = FALSE]
           /\ call' = IF call.num = 0 /\ call.via = "bridge"
                      THEN [call EXCEPT !.op = "rearm"] ELSE Idle
    /\ UNCHANGED <<ref, open, epollVars, unread, written, got, hup, accepted>>

\* shl_pty_bridge_dispatch() after -EAGAIN.
Rearm ==
    /\ call # Idle /\ call.op = "rearm"
    /\ EpollCtlAdd(call.pty)
    /\ call' = Idle
    /\ UNCHANGED <<ptyVars, childVars, callerVars>>

(***************************************************************************)
(* The specification                                                       *)
(***************************************************************************)

Init ==
    /\ ref = [p \in Pty |-> 1]
    /\ open = [p \in Pty |-> TRUE]
    /\ out = [p \in Pty |-> << >>]
    /\ member = [p \in Pty |-> FALSE]
    /\ ready = [p \in Pty |-> FALSE]
    /\ call = Idle
    /\ unread = [p \in Pty |-> 0]
    /\ written = [p \in Pty |-> 0]
    /\ ttyq = [p \in Pty |-> << >>]
    /\ got = [p \in Pty |-> << >>]
    /\ accepted = [p \in Pty |-> 0]
    /\ hup = [p \in Pty |-> FALSE]
    /\ again = [p \in Pty |-> FALSE]
    /\ dirty = [p \in Pty |-> FALSE]

Children == \E p \in Pty : ChildWrites(p) \/ ChildReads(p) \/ ChildHangsUp(p)

Caller == \E p \in Pty :
    \/ shl_pty_ref(p) \/ shl_pty_unref(p) \/ shl_pty_close(p) \/ shl_pty_write(p)
    \/ shl_pty_bridge_add(p) \/ shl_pty_bridge_remove(p) \/ shl_pty_dispatch(p)

BridgeDispatches == \E p \in Pty : shl_pty_bridge_dispatch(p)

DispatchStep == PtyRead \/ CallbackReturns \/ PtyWrite \/ Rearm

Next == Children \/ Caller \/ BridgeDispatches \/ DispatchStep

Spec == Init /\ [][Next]_vars

\* The caller sleeps on the bridge and dispatches it whenever it is ready
\* (epoll serves its ready members in turn), callbacks return, and a caller
\* that has written to a pty outside of its callbacks dispatches it before
\* it sleeps (test/test_pty.c:42-45).  Children read what they are sent.
FairSpec ==
    /\ Spec
    /\ WF_vars(DispatchStep)
    /\ \A p \in Pty :
         /\ SF_vars(shl_pty_bridge_dispatch(p))
         /\ SF_vars(dirty[p] /\ shl_pty_dispatch(p))
         /\ WF_vars(ChildReads(p))

(***************************************************************************)
(* Properties                                                              *)
(***************************************************************************)

Shape ==
    /\ ref \in [Pty -> Nat]
    /\ open \in [Pty -> BOOLEAN]
    /\ out \in [Pty -> Seq(Nat)]
    /\ member \in [Pty -> BOOLEAN]
    /\ ready \in [Pty -> BOOLEAN]
    /\ call \in {Idle} \cup [op : {"read", "callback", "write", "rearm"}, pty : Pty,
                             num : 0..ReadLimit, via : {"caller", "bridge"}]
    /\ unread \in [Pty -> Nat]
    /\ written \in [Pty -> Nat]
    /\ ttyq \in [Pty -> Seq(Nat)]
    /\ got \in [Pty -> Seq(Nat)]
    /\ accepted \in [Pty -> Nat]
    /\ hup \in [Pty -> BOOLEAN]
    /\ again \in [Pty -> BOOLEAN]
    /\ dirty \in [Pty -> BOOLEAN]

WithinBounds(p) ==
    /\ ref[p] <= MaxRef[p]
    /\ unread[p] <= written[p] /\ written[p] <= MaxIn[p]
    /\ Len(ttyq[p]) <= TtyRoom
    /\ accepted[p] <= MaxOut[p]

TypeOK == Shape /\ \A p \in Pty : WithinBounds(p)

\* epoll never reports a pty that was freed: as long as a descriptor is in
\* the set of the bridge, the object its event points to exists.
EventsAlive == TypeOK /\ \A p \in Pty : member[p] => ref[p] > 0 /\ open[p]

\* What the caller wrote reaches the child in order, each byte once, however
\* writev() splits it up and whatever the callbacks add in between.
OutputInOrder ==
    \A p \in Pty : ref[p] > 0 =>
        got[p] \o ttyq[p] \o out[p] = [i \in 1..accepted[p] |-> i]

\* When the bridge sleeps on a pty, either all of its input was read, or the
\* last dispatch gave up on purpose.
InputIsAnnounced(p) ==
    member[p] /\ unread[p] > 0 /\ ~ready[p] /\ ~Dispatching(p) => again[p]

\* When it sleeps on a pty with buffered output, the terminal is full (and
\* will report when it is not), or the caller has not dispatched since it
\* wrote.
OutputIsAnnounced(p) ==
    member[p] /\ out[p] # << >> /\ ~ready[p] /\ ~Dispatching(p) /\ ~hup[p]
        => ~Writable(p) \/ dirty[p]

\* The edge-triggered bridge loses no event, neither of input nor of a
\* terminal that can take output again, although edges come at any point of a
\* dispatch.
NoEdgeIsLost == \A p \in Pty : InputIsAnnounced(p) /\ OutputIsAnnounced(p)

\* All buffered output of a pty in the bridge is eventually sent.
OutputFlushed ==
    \A p \in Pty : (member[p] /\ out[p] # << >>) ~>
                   (out[p] = << >> \/ ~member[p] \/ hup[p])

\* All input of a pty in the bridge is eventually passed to its callback:
\* when pty_read() gives up at its limit, shl_pty_bridge_dispatch() arranges
\* for "edge-triggered events next round" (src/shl_pty.c:638-640).
InputDelivered ==
    \A p \in Pty : (member[p] /\ unread[p] > 0) ~> (unread[p] = 0 \/ ~member[p])

\* The bridge sleeps when nothing happens, also while the terminal of a pty
\* is hung up or writable all the time (comment of struct shl_pty,
\* src/shl_pty.c:242-248).
BridgeSleeps ==
    <>[][BridgeDispatches \/ DispatchStep]_vars => <>[](\A p \in Pty : ~ready[p])
=============================================================================
