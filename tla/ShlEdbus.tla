------------------------------ MODULE ShlEdbus ------------------------------
(***************************************************************************)
(* src/shl_edbus.c: the glue that puts the watches and timeouts of a       *)
(* libdbus connection into one epoll set.  libdbus adds, removes and       *)
(* toggles its objects whenever it runs, also from inside of               *)
(* shl_edbus_dispatch(): while the events of a batch are handled, and in   *)
(* the callbacks dbus_connection_dispatch() makes.  A source that is       *)
(* removed while a batch may still point to it is only marked dead, and    *)
(* freed once the batch is done.                                           *)
(*                                                                         *)
(* The watches are on one socket, so all but the first need a dup() of it: *)
(* epoll refuses the same descriptor twice.  Everything runs in one        *)
(* thread; only the peer and the clock run concurrently.                   *)
(***************************************************************************)
EXTENDS Integers, Sequences, FiniteSets

CONSTANTS
    Watch,       \* the watches of the connection, all on the socket Socket
    Timeout,     \* the timeouts of the connection
    Source,      \* addresses of struct shl_edbus_source (bound of the model)
    None,        \* no source
    MaxFd,       \* largest descriptor (bound of the model)
    MaxEvents,   \* events[64]: size of a batch
    MaxMsg       \* messages that arrive (bound of the model)

Object == Watch \cup Timeout

ASSUME ConstantsAssumption ==
    /\ Watch \cap Timeout = {}
    /\ None \notin Source \cup Object
    /\ MaxFd \in Nat
    /\ MaxEvents \in Nat \ {0}
    /\ MaxMsg \in Nat

Socket == 0
Fd     == 0..MaxFd

VARIABLES
    present,    \* objects libdbus has: added and not yet removed
    enabled,    \* dbus_watch_get_enabled() and dbus_timeout_get_enabled()
    data,       \* dbus_watch_get_data() and dbus_timeout_get_data()
    active,     \* objects whose descriptor has events: data, or expired
    arrived,    \* messages that have arrived on the socket
    queued,     \* messages read by libdbus and not dispatched
    alloc,      \* the sources that are allocated
    src,        \* the fields of the sources
    free_list,  \* ctx->free_list
    fds,        \* open descriptors: the socket, its copies and the timers
    epoll,      \* the source epoll reports for a descriptor in its set
    armed,      \* the descriptors epoll watches for more than errors, and
                \* the timers that run
    pc,         \* where the thread is
    batch       \* the events of a batch from the one the loop is at

dbusVars == <<present, enabled, data>>
ctxVars  == <<alloc, src, free_list>>
kernVars == <<fds, epoll, armed>>
vars == <<present, enabled, data, active, arrived, queued, alloc, src, free_list,
          fds, epoll, armed, pc, batch>>

Live(s) == s \in alloc /\ ~src[s].dead

Unset == [object |-> None, fd |-> -1, timeout |-> FALSE, dupped |-> FALSE, dead |-> FALSE]

\* The kernel hands out the lowest descriptor that is free.
LowestFree(f) == f \in Fd \ fds /\ \A g \in Fd \ fds : f <= g

\* libdbus runs when its caller calls it, inside of the handlers, and in
\* dbus_connection_dispatch().
DbusRuns == pc \in {"idle", "handle", "dispatch"}

(***************************************************************************)
(* Adding                                                                  *)
(***************************************************************************)

\* What is left when adding an object fails: nothing.  While a context is
\* set up, libdbus then takes back what it has added.
AddFails ==
    /\ pc' = IF pc = "new" THEN "failed" ELSE pc
    /\ UNCHANGED <<dbusVars, active, arrived, queued, ctxVars, kernVars, batch>>

\* The source s for the object o is ready, and epoll watches descriptor f.
AddSource(s, o, f, timeout, dupped) ==
    /\ alloc' = alloc \cup {s}
    /\ src' = [src EXCEPT ![s] = [object |-> o, fd |-> f, timeout |-> timeout,
                                  dupped |-> dupped, dead |-> FALSE]]
    /\ epoll' = [epoll EXCEPT ![f] = s]
    /\ data' = [data EXCEPT ![o] = s]
    /\ present' = present \cup {o}
    /\ UNCHANGED free_list

\* dup() after EEXIST if the socket itself is in the set already.
shl_edbus_add_watch(o) ==
    /\ DbusRuns \/ pc = "new"
    /\ o \in Watch \ present
    /\ \/ \E s \in Source \ alloc, f \in Fd, on \in BOOLEAN :
            /\ IF epoll[Socket] = None THEN f = Socket ELSE LowestFree(f)
            /\ fds' = fds \cup {f}
            /\ armed' = IF on THEN armed \cup {f} ELSE armed \ {f}
            /\ enabled' = [enabled EXCEPT ![o] = on]
            /\ AddSource(s, o, f, FALSE, f # Socket)
            /\ UNCHANGED <<active, arrived, queued, pc, batch>>
       \/ AddFails

\* A timeout that is not enabled has its timer set to 0, which stops it.
shl_edbus_add_timeout(o) ==
    /\ DbusRuns \/ pc = "new"
    /\ o \in Timeout \ present
    /\ \/ \E s \in Source \ alloc, f \in Fd, on \in BOOLEAN :
            /\ LowestFree(f)
            /\ fds' = fds \cup {f}
            /\ armed' = IF on THEN armed \cup {f} ELSE armed \ {f}
            /\ enabled' = [enabled EXCEPT ![o] = on]
            /\ AddSource(s, o, f, TRUE, TRUE)
            /\ UNCHANGED <<active, arrived, queued, pc, batch>>
       \/ AddFails

(***************************************************************************)
(* Removing and toggling                                                   *)
(***************************************************************************)

\* A source dies once, and goes to the front of the list.
shl_edbus_kill_source(s) ==
    IF src[s].dead THEN UNCHANGED <<src, free_list>>
    ELSE /\ src' = [src EXCEPT ![s].dead = TRUE]
         /\ free_list' = <<s>> \o free_list

\* Mutants of Remove: the descriptor stays in the epoll set (its file is still
\* open through the socket), the copy of the descriptor stays open, and the
\* source is freed at once.
RemoveWithoutUnwatch(o) ==
    LET s == data[o]
        f == src[s].fd
    IN  /\ fds' = IF src[s].dupped THEN fds \ {f} ELSE fds
        /\ shl_edbus_kill_source(s)
        /\ present' = present \ {o}
        /\ active' = active \ {o}
        /\ enabled' = [enabled EXCEPT ![o] = FALSE]
        /\ data' = [data EXCEPT ![o] = None]
        /\ UNCHANGED <<arrived, queued, alloc, epoll, armed, pc, batch>>

RemoveWithoutClose(o) ==
    LET s == data[o]
        f == src[s].fd
    IN  /\ epoll' = [epoll EXCEPT ![f] = None]
        /\ armed' = armed \ {f}
        /\ shl_edbus_kill_source(s)
        /\ present' = present \ {o}
        /\ active' = active \ {o}
        /\ enabled' = [enabled EXCEPT ![o] = FALSE]
        /\ data' = [data EXCEPT ![o] = None]
        /\ UNCHANGED <<arrived, queued, alloc, fds, pc, batch>>

RemoveFrees(o) ==
    LET s == data[o]
        f == src[s].fd
    IN  /\ epoll' = [epoll EXCEPT ![f] = None]
        /\ armed' = armed \ {f}
        /\ fds' = IF src[s].dupped THEN fds \ {f} ELSE fds
        /\ alloc' = alloc \ {s}
        /\ src' = [src EXCEPT ![s] = Unset]
        /\ present' = present \ {o}
        /\ active' = active \ {o}
        /\ enabled' = [enabled EXCEPT ![o] = FALSE]
        /\ data' = [data EXCEPT ![o] = None]
        /\ UNCHANGED <<free_list, arrived, queued, pc, batch>>

Remove(o) ==
    LET s == data[o]
        f == src[s].fd
    IN  /\ epoll' = [epoll EXCEPT ![f] = None]
        /\ armed' = armed \ {f}
        /\ fds' = IF src[s].dupped THEN fds \ {f} ELSE fds
        /\ shl_edbus_kill_source(s)
        /\ present' = present \ {o}
        /\ active' = active \ {o}
        /\ enabled' = [enabled EXCEPT ![o] = FALSE]
        /\ data' = [data EXCEPT ![o] = None]
        /\ UNCHANGED <<arrived, queued, alloc, pc, batch>>

shl_edbus_remove_watch(o) ==
    /\ DbusRuns \/ pc \in {"free", "failed"}
    /\ o \in Watch \cap present
    /\ Remove(o)

shl_edbus_remove_timeout(o) ==
    /\ DbusRuns \/ pc \in {"free", "failed"}
    /\ o \in Timeout \cap present
    /\ Remove(o)

\* Mutant of Toggle: epoll is not told.
ToggleSilently(o) ==
    /\ enabled' = [enabled EXCEPT ![o] = ~@]
    /\ UNCHANGED <<present, data, active, arrived, queued, ctxVars, kernVars, pc, batch>>

\* shl_edbus_rewatch() and shl_edbus_arm_timerfd().  Setting a timer makes
\* it unexpired.
Toggle(o) ==
    LET f == src[data[o]].fd
    IN  /\ enabled' = [enabled EXCEPT ![o] = ~@]
        /\ armed' = IF enabled'[o] THEN armed \cup {f} ELSE armed \ {f}
        /\ active' = active \ (Timeout \cap {o})
        /\ UNCHANGED <<present, data, arrived, queued, ctxVars, fds, epoll, pc, batch>>

shl_edbus_toggle_watch(o) == DbusRuns /\ o \in Watch \cap present /\ Toggle(o)

shl_edbus_toggle_timeout(o) == DbusRuns /\ o \in Timeout \cap present /\ Toggle(o)

(***************************************************************************)
(* The context                                                             *)
(***************************************************************************)

\* shl_edbus_new() is done with the objects the connection has.
NewReturns ==
    /\ pc = "new"
    /\ pc' = "idle"
    /\ UNCHANGED <<dbusVars, active, arrived, queued, ctxVars, kernVars, batch>>

\* shl_edbus_free() first makes libdbus remove all objects ...
shl_edbus_free ==
    /\ pc = "idle"
    /\ pc' = "free"
    /\ UNCHANGED <<dbusVars, active, arrived, queued, ctxVars, kernVars, batch>>

Listed == {free_list[i] : i \in 1..Len(free_list)}

DrainFreeList ==
    /\ alloc' = alloc \ Listed
    /\ src' = [s \in Source |-> IF s \in Listed THEN Unset ELSE src[s]]
    /\ free_list' = << >>

\* ... and then frees the dead sources.
FreeReturns ==
    /\ pc = "free" /\ present = {}
    /\ DrainFreeList
    /\ pc' = "freed"
    /\ UNCHANGED <<dbusVars, active, arrived, queued, kernVars, batch>>

(***************************************************************************)
(* Dispatching                                                             *)
(***************************************************************************)

\* The descriptors epoll reports (external: the kernel).
ReadyFds == {f \in Fd : epoll[f] # None /\ f \in armed /\ src[epoll[f]].object \in active}

\* epoll_wait() returns all events, or as many as fit, in any order.
Batches ==
    {b \in UNION {[1..n -> {epoll[f] : f \in ReadyFds}] : n \in 0..MaxEvents} :
        /\ \A i, j \in DOMAIN b : b[i] = b[j] => i = j
        /\ Len(b) = MaxEvents \/ Len(b) = Cardinality(ReadyFds)}

\* The call may also time out without an event.
shl_edbus_dispatch ==
    /\ pc = "idle"
    /\ batch' \in Batches
    /\ pc' = "batch"
    /\ UNCHANGED <<dbusVars, active, arrived, queued, ctxVars, kernVars>>

\* The next event of the batch.  Handling a watch reads a message; the loop
\* moves on to the event behind it when the handler returns.
NextEvent ==
    /\ pc = "batch" /\ batch # << >>
    /\ LET s == Head(batch)
           o == src[s].object
       IN  IF src[s].dead \/ ~enabled[o]
           THEN batch' = Tail(batch) /\ UNCHANGED <<pc, active, queued>>
           ELSE /\ pc' = "handle"
                /\ active' = active \ (Watch \cap {o})
                /\ queued' = IF o \in active \cap Watch THEN queued + 1 ELSE queued
                /\ UNCHANGED batch
    /\ UNCHANGED <<dbusVars, arrived, ctxVars, kernVars>>

\* Mutant of HandleReturns: the loop ends with the first event that was handled.
LoopEnds ==
    /\ pc = "handle"
    /\ pc' = "batch"
    /\ batch' = << >>
    /\ UNCHANGED <<dbusVars, active, arrived, queued, ctxVars, kernVars>>

HandleReturns ==
    /\ pc = "handle"
    /\ pc' = "batch"
    /\ batch' = Tail(batch)
    /\ UNCHANGED <<dbusVars, active, arrived, queued, ctxVars, kernVars>>

\* No event is left that could point to a dead source.
EndBatch ==
    /\ pc = "batch" /\ batch = << >>
    /\ DrainFreeList
    /\ pc' = "dispatch"
    /\ UNCHANGED <<dbusVars, active, arrived, queued, kernVars, batch>>

\* The loop at the end: DBUS_DISPATCH_DATA_REMAINS, or the last message ...
DispatchMessage ==
    /\ pc = "dispatch" /\ queued > 0
    /\ queued' = queued - 1
    /\ UNCHANGED <<dbusVars, active, arrived, ctxVars, kernVars, pc, batch>>

\* ... then DBUS_DISPATCH_COMPLETE, or -ENOMEM after DBUS_DISPATCH_NEED_MEMORY,
\* which leaves the other messages in the queue.
DispatchReturns ==
    /\ pc = "dispatch"
    /\ pc' = "idle"
    /\ UNCHANGED <<dbusVars, active, arrived, queued, ctxVars, kernVars, batch>>

\* A call that blocks for its reply reads the socket itself, and queues the
\* other messages it finds.
BlockingCall ==
    /\ pc \in {"idle", "dispatch"}
    /\ \E o \in Watch \cap active :
         /\ active' = active \ {o}
         /\ queued' = queued + 1
    /\ UNCHANGED <<dbusVars, arrived, ctxVars, kernVars, pc, batch>>

(***************************************************************************)
(* The peer and the clock                                                  *)
(***************************************************************************)

MessageArrives(o) ==
    /\ o \in (Watch \cap present) \ active
    /\ arrived < MaxMsg
    /\ arrived' = arrived + 1
    /\ active' = active \cup {o}
    /\ UNCHANGED <<dbusVars, queued, ctxVars, kernVars, pc, batch>>

TimerExpires(o) ==
    /\ o \in (Timeout \cap present) \ active
    /\ src[data[o]].fd \in armed
    /\ active' = active \cup {o}
    /\ UNCHANGED <<dbusVars, arrived, queued, ctxVars, kernVars, pc, batch>>

(***************************************************************************)
(* The specification                                                       *)
(***************************************************************************)

Init ==
    /\ present = {}
    /\ enabled = [o \in Object |-> FALSE]
    /\ data = [o \in Object |-> None]
    /\ active = {}
    /\ arrived = 0
    /\ queued = 0
    /\ alloc = {}
    /\ src = [s \in Source |-> Unset]
    /\ free_list = << >>
    /\ fds = {Socket}
    /\ epoll = [f \in Fd |-> None]
    /\ armed = {}
    /\ pc = "new"
    /\ batch = << >>

Dbus == \E o \in Object :
    \/ shl_edbus_add_watch(o) \/ shl_edbus_remove_watch(o) \/ shl_edbus_toggle_watch(o)
    \/ shl_edbus_add_timeout(o) \/ shl_edbus_remove_timeout(o) \/ shl_edbus_toggle_timeout(o)

Dispatching == NextEvent \/ HandleReturns \/ EndBatch \/ DispatchMessage \/ DispatchReturns

Next ==
    \/ Dbus \/ NewReturns \/ shl_edbus_free \/ FreeReturns \/ BlockingCall
    \/ shl_edbus_dispatch \/ Dispatching
    \/ \E o \in Object : MessageArrives(o) \/ TimerExpires(o)

Spec == Init /\ [][Next]_vars

\* epoll_wait() reports the event of o (external: the kernel).
Reports(o) == shl_edbus_dispatch /\ \E i \in DOMAIN batch' : src[batch'[i]].object = o

\* The caller dispatches whenever the descriptor of the context is readable,
\* and epoll serves the descriptors that stay ready in turn when they do not
\* fit into one batch.  Every call returns.
FairSpec ==
    /\ Spec
    /\ WF_vars(NewReturns \/ Dispatching)
    /\ \A o \in Object : SF_vars(Reports(o))

(***************************************************************************)
(* Properties                                                              *)
(***************************************************************************)

TypeOK ==
    /\ present \subseteq Object
    /\ enabled \in [Object -> BOOLEAN]
    /\ data \in [Object -> Source \cup {None}]
    /\ active \subseteq Object
    /\ arrived \in 0..MaxMsg
    /\ queued \in 0..MaxMsg
    /\ alloc \subseteq Source
    /\ src \in [Source -> [object : Object \cup {None}, fd : Fd \cup {-1}, timeout : BOOLEAN,
                           dupped : BOOLEAN, dead : BOOLEAN]]
    /\ free_list \in Seq(Source)
    /\ fds \subseteq Fd
    /\ epoll \in [Fd -> Source \cup {None}]
    /\ armed \subseteq Fd
    /\ pc \in {"new", "failed", "idle", "batch", "handle", "dispatch", "free", "freed"}
    /\ batch \in Seq(Source)

\* No event of a batch points to a source that was freed, whatever the
\* handlers of the events before it removed; and the free list holds the dead
\* sources, each once, so that none is freed twice and none is forgotten.
DeferredFreeExact ==
    /\ TypeOK
    /\ \A i \in 1..Len(batch) : batch[i] \in alloc
    /\ \A i, j \in 1..Len(free_list) : free_list[i] = free_list[j] => i = j
    /\ Listed = {s \in alloc : src[s].dead}

\* A source that is not dead belongs to an object that libdbus still has, so
\* a handler is never called for one that was removed; every object has its
\* source, and epoll reports that source and no other for its descriptor.
SourcesMatchObjects ==
    /\ \A s \in alloc : Live(s) => src[s].object \in present /\ data[src[s].object] = s
    /\ \A o \in present : Live(data[o]) /\ epoll[src[data[o]].fd] = data[o]
    /\ \A f \in Fd : epoll[f] # None => Live(epoll[f]) /\ src[epoll[f]].fd = f /\ f \in fds

\* epoll watches exactly the descriptors of the objects that are enabled.
EnabledIsWatched ==
    \A o \in present : enabled[o] <=> src[data[o]].fd \in armed

\* shl_edbus_free() leaves no source, no copy of the socket and no timer
\* behind.
FreeLeaksNothing == pc = "freed" => alloc = {} /\ fds = {Socket}

\* The handler of o runs: dbus_watch_handle() or dbus_timeout_handle().
Handled(o) == pc = "handle" /\ src[Head(batch)].object = o

\* An event of an enabled object is eventually handled by the handler of that
\* very object, unless the object loses its event, is disabled or removed
\* first: no object is starved by others that are ready all the time, and no
\* event is dropped because of what the handlers before it did.
EventsHandled ==
    \A o \in Object :
        (o \in active /\ o \in present /\ enabled[o]) ~>
        (o \notin active \/ ~enabled[o] \/ Handled(o) \/ pc \in {"failed", "free", "freed"})
=============================================================================
