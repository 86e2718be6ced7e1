--------------------------- MODULE ShlEdbusProofs ---------------------------
(***************************************************************************)
(* Proofs about ShlEdbus, for any number of watches, timeouts, sources and *)
(* descriptors, and for batches of any size.                               *)
(***************************************************************************)
EXTENDS ShlEdbus, SequenceTheorems, FiniteSetTheorems, TLAPS

(***************************************************************************)
(* The inductive invariant, in three parts: the objects, sources and       *)
(* descriptors and how they point to each other; the messages; and where   *)
(* the thread is.                                                          *)
(***************************************************************************)

SourceFields == [object : Object \cup {None}, fd : Fd \cup {-1}, timeout : BOOLEAN,
                 dupped : BOOLEAN, dead : BOOLEAN]

GraphType ==
    /\ present \subseteq Object
    /\ enabled \in [Object -> BOOLEAN]
    /\ data \in [Object -> Source \cup {None}]
    /\ alloc \subseteq Source
    /\ src \in [Source -> SourceFields]
    /\ free_list \in Seq(Source)
    /\ fds \subseteq Fd
    /\ epoll \in [Fd -> Source \cup {None}]
    /\ armed \subseteq Fd

\* The free list holds the dead sources, each once.
ListOK ==
    /\ \A i, j \in 1..Len(free_list) : free_list[i] = free_list[j] => i = j
    /\ Listed = {s \in alloc : src[s].dead}

\* A live source belongs to its object.
SourceOK(s) == Live(s) => src[s].object \in present /\ data[src[s].object] = s

\* An object that libdbus has owns a live source and its descriptor, which
\* is a copy or a timer unless it is the socket itself.
ObjectOK(o) ==
    o \in present =>
        /\ Live(data[o]) /\ src[data[o]].object = o
        /\ src[data[o]].fd \in Fd /\ epoll[src[data[o]].fd] = data[o]
        /\ src[data[o]].dupped <=> src[data[o]].fd # Socket
        /\ enabled[o] <=> src[data[o]].fd \in armed

\* epoll points to live sources, and every descriptor but the socket is in
\* its set.
FdOK(f) ==
    /\ epoll[f] # None => Live(epoll[f]) /\ src[epoll[f]].fd = f /\ f \in fds
    /\ f \in fds => f = Socket \/ epoll[f] # None

Graph ==
    /\ GraphType /\ ListOK /\ Socket \in fds
    /\ \A s \in Source : SourceOK(s)
    /\ \A o \in Object : ObjectOK(o)
    /\ \A f \in Fd : FdOK(f)

\* Every message that libdbus has read had arrived: an active watch has one
\* to read.
Flow ==
    /\ active \subseteq Object /\ arrived \in 0..MaxMsg /\ queued \in Nat
    /\ IsFiniteSet(active \cap Watch)
    /\ queued + Cardinality(active \cap Watch) <= arrived

\* There are events only while a batch is handled, one of them is handled in a
\* handler, and they point to sources that are allocated.  A context that was freed has no objects and no sources.
Control ==
    /\ pc \in {"new", "failed", "idle", "batch", "handle", "dispatch", "free", "freed"}
    /\ batch \in Seq(Source)
    /\ \A i \in 1..Len(batch) : batch[i] \in alloc
    /\ pc \notin {"batch", "handle"} => batch = << >>
    /\ pc = "handle" => batch # << >>
    /\ pc = "freed" => present = {} /\ alloc = {}

Inv == Graph /\ Flow /\ Control

graphVars == <<dbusVars, ctxVars, kernVars>>

(***************************************************************************)
(* Objects, sources and descriptors                                        *)
(***************************************************************************)

\* What the invariant says of two objects: they share neither a source nor a
\* descriptor.
LEMMA Disjoint ==
    ASSUME Graph, NEW o \in present, NEW p \in present, o # p
    PROVE  data[o] # data[p] /\ src[data[o]].fd # src[data[p]].fd
BY DEF Graph, GraphType, ObjectOK

\* A step that leaves the sources, the descriptors and the epoll set alone
\* keeps how they point to each other.
LEMMA GraphFrame ==
    ASSUME Graph, UNCHANGED graphVars
    PROVE  Graph'
BY DEF Graph, GraphType, ListOK, SourceOK, ObjectOK, FdOK, Live, Listed,
       graphVars, dbusVars, ctxVars, kernVars

\* A new source on a descriptor that is not in the set.
LEMMA AddGraph ==
    ASSUME Graph, NEW s \in Source \ alloc, NEW o \in Object \ present, NEW f \in Fd,
           NEW on \in BOOLEAN, NEW timeout \in BOOLEAN, NEW dupped \in BOOLEAN,
           epoll[f] = None, dupped <=> f # Socket,
           fds' = fds \cup {f},
           armed' = IF on THEN armed \cup {f} ELSE armed \ {f},
           enabled' = [enabled EXCEPT ![o] = on],
           AddSource(s, o, f, timeout, dupped)
    PROVE  Graph'
<1>1. /\ GraphType /\ ListOK /\ Socket \in fds
      /\ \A t \in Source : SourceOK(t)
      /\ \A p \in Object : ObjectOK(p)
      /\ \A g \in Fd : FdOK(g)
  BY DEF Graph
<1>2. /\ alloc' = alloc \cup {s} /\ present' = present \cup {o} /\ free_list' = free_list
      /\ src'[s].object = o /\ src'[s].fd = f /\ src'[s].dupped = dupped /\ ~src'[s].dead
      /\ \A t \in Source : t # s => src'[t] = src[t]
      /\ \A g \in Fd : epoll'[g] = IF g = f THEN s ELSE epoll[g]
      /\ \A p \in Object : data'[p] = IF p = o THEN s ELSE data[p]
      /\ \A p \in Object : enabled'[p] = IF p = o THEN on ELSE enabled[p]
  BY <1>1 DEF GraphType, AddSource
<1>3. GraphType'
  <2>1. [object |-> o, fd |-> f, timeout |-> timeout, dupped |-> dupped, dead |-> FALSE]
           \in SourceFields
    BY DEF SourceFields
  <2>2. src' \in [Source -> SourceFields]
    BY <1>1, <2>1 DEF GraphType, AddSource
  <2>3. epoll' \in [Fd -> Source \cup {None}] /\ data' \in [Object -> Source \cup {None}]
        /\ enabled' \in [Object -> BOOLEAN]
    BY <1>1 DEF GraphType, AddSource
  <2> QED BY <1>1, <1>2, <2>2, <2>3 DEF GraphType
<1>4. /\ Live(s)' /\ ~Live(s)
      /\ \A t \in Source : t # s => (Live(t)' <=> Live(t))
      /\ None \notin Source
  BY <1>2, ConstantsAssumption DEF Live
<1>5. ListOK'
  <2>1. Listed' = Listed
    BY <1>2 DEF Listed
  <2>2. {t \in alloc' : src'[t].dead} = {t \in alloc : src[t].dead}
    BY <1>1, <1>2 DEF GraphType
  <2> QED BY <1>1, <1>2, <2>1, <2>2 DEF ListOK
<1>6. ASSUME NEW t \in Source PROVE SourceOK(t)'
  <2>1. CASE t = s
    BY <1>2, <2>1 DEF SourceOK
  <2>2. CASE t # s
    <3> SUFFICES ASSUME Live(t)' PROVE src'[t].object \in present' /\ data'[src'[t].object] = t
      BY DEF SourceOK
    <3>1. src[t].object \in present /\ data[src[t].object] = t
      BY <1>1, <1>4, <2>2 DEF SourceOK
    <3> QED BY <1>1, <1>2, <2>2, <3>1 DEF GraphType
  <2> QED BY <2>1, <2>2
<1>7. ASSUME NEW p \in Object PROVE ObjectOK(p)'
  <2>1. CASE p = o
    BY <1>2, <1>4, <2>1 DEF ObjectOK
  <2>2. CASE p # o
    <3> SUFFICES ASSUME p \in present' PROVE ObjectOK(p)'
      BY DEF ObjectOK
    <3>1. /\ p \in present /\ data'[p] = data[p] /\ data[p] \in Source /\ data[p] # s
          /\ src'[data[p]] = src[data[p]]
      BY <1>1, <1>2, <1>4, <2>2 DEF ObjectOK, Live, GraphType
    <3>2. src[data[p]].fd \in Fd /\ src[data[p]].fd # f
      BY <1>1, <1>4, <3>1 DEF ObjectOK
    <3> QED BY <1>1, <1>2, <1>4, <2>2, <3>1, <3>2 DEF ObjectOK
  <2> QED BY <2>1, <2>2
<1>8. ASSUME NEW g \in Fd PROVE FdOK(g)'
  <2>1. CASE g = f
    BY <1>2, <1>4, <2>1 DEF FdOK
  <2>2. CASE g # f
    <3>1. epoll[g] # None => epoll[g] \in Source /\ epoll[g] # s
      BY <1>1, <1>4 DEF FdOK, GraphType
    <3> QED BY <1>1, <1>2, <1>4, <2>2, <3>1 DEF FdOK
  <2> QED BY <2>1, <2>2
<1>9. (Socket \in fds)'
  BY <1>1
<1> QED BY <1>3, <1>5, <1>6, <1>7, <1>8, <1>9 DEF Graph

\* A list with a new element in front.
LEMMA Prepend ==
    ASSUME NEW l \in Seq(Source), NEW s \in Source
    PROVE  /\ <<s>> \o l \in Seq(Source) /\ Len(<<s>> \o l) = Len(l) + 1 /\ Len(l) \in Nat
           /\ (<<s>> \o l)[1] = s
           /\ \A i \in 2..(Len(l) + 1) : (<<s>> \o l)[i] = l[i - 1]
<1>1. <<s>> \in Seq(Source) /\ Len(<<s>>) = 1
  OBVIOUS
<1> QED BY <1>1, ConcatProperties, LenProperties

\* The source of an object that is removed dies, and its descriptor leaves
\* the set.
LEMMA RemoveGraph ==
    ASSUME Graph, NEW o \in present, Remove(o)
    PROVE  Graph'
<1>1. /\ GraphType /\ ListOK /\ Socket \in fds
      /\ \A t \in Source : SourceOK(t)
      /\ \A p \in Object : ObjectOK(p)
      /\ \A g \in Fd : FdOK(g)
  BY DEF Graph
<1>2. PICK s \in Source, f \in Fd : s = data[o] /\ f = src[s].fd
  BY <1>1 DEF GraphType, ObjectOK, Live
<1>3. /\ o \in Object /\ Live(s) /\ s \in alloc /\ ~src[s].dead /\ epoll[f] = s
      /\ src[s].dupped <=> f # Socket
      /\ None \notin Source
  BY <1>1, <1>2, ConstantsAssumption DEF GraphType, ObjectOK, Live
<1>4. /\ alloc' = alloc /\ present' = present \ {o} /\ free_list' = <<s>> \o free_list
      /\ src' = [src EXCEPT ![s].dead = TRUE]
      /\ epoll' = [epoll EXCEPT ![f] = None]
      /\ data' = [data EXCEPT ![o] = None]
      /\ enabled' = [enabled EXCEPT ![o] = FALSE]
      /\ armed' = armed \ {f} /\ fds' = IF src[s].dupped THEN fds \ {f} ELSE fds
  BY <1>2, <1>3 DEF Remove, shl_edbus_kill_source
<1>5. /\ src'[s].dead /\ src'[s].fd = src[s].fd /\ src'[s].object = src[s].object
      /\ \A t \in Source : t # s => src'[t] = src[t]
      /\ \A g \in Fd : epoll'[g] = IF g = f THEN None ELSE epoll[g]
      /\ \A p \in Object : data'[p] = IF p = o THEN None ELSE data[p]
      /\ \A p \in Object : enabled'[p] = IF p = o THEN FALSE ELSE enabled[p]
  BY <1>1, <1>3, <1>4 DEF GraphType, SourceFields
<1>6. GraphType'
  <2>1. src' \in [Source -> SourceFields]
    BY <1>1, <1>4, ZenonT(30) DEF GraphType, SourceFields
  <2>2. epoll' \in [Fd -> Source \cup {None}] /\ data' \in [Object -> Source \cup {None}]
        /\ enabled' \in [Object -> BOOLEAN]
    BY <1>1, <1>4 DEF GraphType
  <2>3. free_list' \in Seq(Source)
    BY <1>1, <1>4, Prepend DEF GraphType
  <2> QED BY <1>1, <1>4, <2>1, <2>2, <2>3 DEF GraphType
<1>7. /\ ~Live(s)'
      /\ \A t \in Source : t # s => (Live(t)' <=> Live(t))
  BY <1>4, <1>5 DEF Live
<1>8. ListOK'
  <2>1. s \notin Listed
    BY <1>1, <1>3 DEF ListOK
  <2>2. PICK l \in Seq(Source), n \in Nat : l = free_list /\ n = Len(l)
    BY <1>1, LenProperties DEF GraphType
  <2>3. /\ Len(free_list') = n + 1 /\ free_list'[1] = s
        /\ \A i \in 2..(n + 1) : free_list'[i] = l[i - 1]
    BY <1>4, <2>2, Prepend
  <2>4. Listed' = Listed \cup {s}
    <3>1. Listed = {l[i] : i \in 1..n}
      BY <2>2 DEF Listed
    <3>2. Listed' = {free_list'[i] : i \in 1..(n + 1)}
      BY <2>3 DEF Listed
    <3>3. ASSUME NEW i \in 1..(n + 1) PROVE free_list'[i] \in {l[k] : k \in 1..n} \cup {s}
      <4>1. CASE i = 1
        BY <2>3, <4>1
      <4>2. CASE i # 1
        <5>1. i - 1 \in 1..n /\ free_list'[i] = l[i - 1]
          BY <2>3, <4>2
        <5> QED BY <5>1
      <4> QED BY <4>1, <4>2
    <3>4. ASSUME NEW k \in 1..n PROVE l[k] \in {free_list'[i] : i \in 1..(n + 1)}
      <4>1. k + 1 \in 2..(n + 1) /\ (k + 1) - 1 = k /\ k + 1 \in 1..(n + 1)
        OBVIOUS
      <4>2. free_list'[k + 1] = l[k]
        BY <2>3, <4>1
      <4> QED BY <4>1, <4>2
    <3>5. s \in {free_list'[i] : i \in 1..(n + 1)}
      BY <2>3
    <3> QED BY <3>1, <3>2, <3>3, <3>4, <3>5
  <2>5. {t \in alloc' : src'[t].dead} = {t \in alloc : src[t].dead} \cup {s}
    BY <1>1, <1>3, <1>4, <1>5 DEF GraphType
  <2>6. ASSUME NEW i \in 1..(n + 1), NEW j \in 1..(n + 1), free_list'[i] = free_list'[j]
        PROVE  i = j
    <3>1. \A k \in 1..n : l[k] # s
      BY <2>1, <2>2 DEF Listed
    <3>2. \A a, b \in 1..n : l[a] = l[b] => a = b
      BY <1>1, <2>2 DEF ListOK
    <3>3. \A k \in 1..(n + 1) : k # 1 => k - 1 \in 1..n /\ free_list'[k] = l[k - 1]
      BY <2>3
    <3>4. CASE i = 1
      BY <2>3, <2>6, <3>1, <3>3, <3>4
    <3>5. CASE j = 1
      BY <2>3, <2>6, <3>1, <3>3, <3>5
    <3>6. CASE i # 1 /\ j # 1
      <4>1. i - 1 = j - 1
        BY <2>6, <3>2, <3>3, <3>6
      <4> QED BY <4>1
    <3> QED BY <3>4, <3>5, <3>6
  <2> QED BY <1>1, <2>3, <2>4, <2>5, <2>6 DEF ListOK
<1>9. ASSUME NEW t \in Source PROVE SourceOK(t)'
  <2> SUFFICES ASSUME Live(t)' PROVE src'[t].object \in present' /\ data'[src'[t].object] = t
    BY DEF SourceOK
  <2>1. t # s /\ Live(t)
    BY <1>7
  <2>2. src[t].object \in present /\ data[src[t].object] = t
    BY <1>1, <2>1 DEF SourceOK
  <2>3. src[t].object # o
    BY <1>2, <2>1, <2>2
  <2> QED BY <1>1, <1>4, <1>5, <2>1, <2>2, <2>3 DEF GraphType
<1>10. ASSUME NEW p \in Object PROVE ObjectOK(p)'
  <2> SUFFICES ASSUME p \in present' PROVE ObjectOK(p)'
    BY DEF ObjectOK
  <2>1. p \in present /\ p # o
    BY <1>4
  <2>2. data[p] \in Source /\ data[p] # s /\ src[data[p]].fd \in Fd /\ src[data[p]].fd # f
    BY <1>1, <1>2, <1>3, <2>1, Disjoint DEF ObjectOK, Live, GraphType
  <2>3. data'[p] = data[p] /\ src'[data[p]] = src[data[p]] /\ enabled'[p] = enabled[p]
    BY <1>5, <2>1, <2>2
  <2> QED BY <1>1, <1>4, <1>5, <1>7, <2>1, <2>2, <2>3 DEF ObjectOK
<1>11. ASSUME NEW g \in Fd PROVE FdOK(g)'
  <2>1. CASE g = f
    BY <1>3, <1>4, <1>5, <2>1 DEF FdOK
  <2>2. CASE g # f
    <3>1. epoll[g] # None => epoll[g] \in Source /\ epoll[g] # s
      BY <1>1, <1>2, <2>2 DEF FdOK, GraphType
    <3> QED BY <1>1, <1>4, <1>5, <1>7, <2>2, <3>1 DEF FdOK
  <2> QED BY <2>1, <2>2
<1>12. (Socket \in fds)'
  BY <1>1, <1>3, <1>4
<1> QED BY <1>6, <1>8, <1>9, <1>10, <1>11, <1>12 DEF Graph

\* shl_edbus_rewatch() and shl_edbus_arm_timerfd() only change what is armed.
LEMMA ToggleGraph ==
    ASSUME Graph, NEW o \in present, Toggle(o)
    PROVE  Graph'
<1>1. /\ GraphType /\ ListOK /\ Socket \in fds
      /\ \A t \in Source : SourceOK(t)
      /\ \A p \in Object : ObjectOK(p)
      /\ \A g \in Fd : FdOK(g)
  BY DEF Graph
<1>2. PICK f \in Fd : f = src[data[o]].fd
  BY <1>1 DEF GraphType, ObjectOK
<1>3. /\ UNCHANGED <<present, data, ctxVars, fds, epoll>>
      /\ enabled' = [enabled EXCEPT ![o] = ~enabled[o]]
      /\ armed' = IF enabled'[o] THEN armed \cup {f} ELSE armed \ {f}
  BY <1>1, <1>2 DEF Toggle, GraphType
<1>4. /\ o \in Object /\ enabled' \in [Object -> BOOLEAN]
      /\ \A p \in Object : p # o => enabled'[p] = enabled[p]
  BY <1>1, <1>3 DEF GraphType
<1>5. GraphType'
  BY <1>1, <1>3, <1>4 DEF GraphType, ctxVars
<1>6. ListOK' /\ (Socket \in fds)'
  BY <1>1, <1>3 DEF ListOK, Listed, ctxVars
<1>7. ASSUME NEW t \in Source PROVE SourceOK(t)'
  BY <1>1, <1>3 DEF SourceOK, Live, ctxVars
<1>8. ASSUME NEW p \in Object PROVE ObjectOK(p)'
  <2>1. CASE p = o
    BY <1>1, <1>2, <1>3, <2>1 DEF ObjectOK, Live, ctxVars
  <2>2. CASE p # o
    <3> SUFFICES ASSUME p \in present PROVE ObjectOK(p)'
      BY <1>3 DEF ObjectOK
    <3>1. src[data[p]].fd # f
      BY <1>2, <2>2, Disjoint
    <3> QED BY <1>1, <1>3, <1>4, <2>2, <3>1 DEF ObjectOK, Live, ctxVars
  <2> QED BY <2>1, <2>2
<1>9. ASSUME NEW g \in Fd PROVE FdOK(g)'
  BY <1>1, <1>3 DEF FdOK, Live, ctxVars
<1> QED BY <1>5, <1>6, <1>7, <1>8, <1>9 DEF Graph

\* Draining the free list frees the dead sources and no other.
LEMMA DrainGraph ==
    ASSUME Graph, DrainFreeList, UNCHANGED <<dbusVars, kernVars>>
    PROVE  Graph' /\ alloc' = {s \in alloc : Live(s)}
<1>1. /\ GraphType /\ ListOK /\ Socket \in fds
      /\ \A t \in Source : SourceOK(t)
      /\ \A p \in Object : ObjectOK(p)
      /\ \A g \in Fd : FdOK(g)
  BY DEF Graph
<1>2. /\ alloc' = alloc \ Listed /\ free_list' = << >>
      /\ src' = [s \in Source |-> IF s \in Listed THEN Unset ELSE src[s]]
      /\ UNCHANGED <<present, enabled, data, fds, epoll, armed>>
  BY DEF DrainFreeList, dbusVars, kernVars
<1>3. alloc' = {s \in alloc : Live(s)}
  BY <1>1, <1>2 DEF ListOK, Live
<1>4. \A s \in Source : Live(s) => src'[s] = src[s]
  BY <1>1, <1>2 DEF ListOK, Live
<1>5. \A s \in Source : Live(s)' <=> Live(s)
  BY <1>3, <1>4 DEF Live
<1>6. GraphType'
  <2>1. Unset \in SourceFields
    BY DEF Unset, SourceFields
  <2>2. src' \in [Source -> SourceFields]
    BY <1>1, <1>2, <2>1 DEF GraphType
  <2>3. free_list' \in Seq(Source)
    BY <1>2
  <2> QED BY <1>1, <1>2, <2>2, <2>3 DEF GraphType
<1>7. ListOK'
  <2>1. Len(free_list') = 0 /\ Listed' = {}
    BY <1>2 DEF Listed
  <2>2. {s \in alloc' : src'[s].dead} = {}
    BY <1>1, <1>3, <1>4 DEF GraphType, Live
  <2> QED BY <2>1, <2>2 DEF ListOK
<1>8. ASSUME NEW t \in Source PROVE SourceOK(t)'
  BY <1>1, <1>2, <1>4, <1>5 DEF SourceOK
<1>9. ASSUME NEW p \in Object PROVE ObjectOK(p)'
  <2>1. p \in present => data[p] \in Source
    BY <1>1 DEF ObjectOK, Live, GraphType
  <2> QED BY <1>1, <1>2, <1>4, <1>5, <2>1 DEF ObjectOK
<1>10. ASSUME NEW g \in Fd PROVE FdOK(g)'
  <2>1. epoll[g] # None => epoll[g] \in Source
    BY <1>1 DEF GraphType
  <2> QED BY <1>1, <1>2, <1>4, <1>5, <2>1 DEF FdOK
<1>11. (Socket \in fds)'
  BY <1>1, <1>2
<1> QED BY <1>3, <1>6, <1>7, <1>8, <1>9, <1>10, <1>11 DEF Graph

(***************************************************************************)
(* Messages                                                                *)
(***************************************************************************)

\* Objects may stop to be active at any time.
LEMMA FlowFewer ==
    ASSUME Flow, active' \subseteq active, UNCHANGED <<arrived, queued>>
    PROVE  Flow'
<1>1. active' \cap Watch \in SUBSET (active \cap Watch)
  OBVIOUS
<1>2. /\ IsFiniteSet(active' \cap Watch)
      /\ Cardinality(active' \cap Watch) <= Cardinality(active \cap Watch)
  BY <1>1, FS_Subset DEF Flow
<1>3. Cardinality(active' \cap Watch) \in Nat /\ Cardinality(active \cap Watch) \in Nat
  BY <1>2, FS_CardinalityType DEF Flow
<1>4. queued' + Cardinality(active' \cap Watch) <= arrived'
  BY <1>2, <1>3, ConstantsAssumption DEF Flow
<1> QED BY <1>2, <1>4 DEF Flow

\* Reading the message of a watch queues it.
LEMMA FlowRead ==
    ASSUME Flow, NEW o \in Watch \cap active, active' = active \ {o},
           queued' = queued + 1, arrived' = arrived
    PROVE  Flow'
<1>1. active' \cap Watch = (active \cap Watch) \ {o} /\ o \in active \cap Watch
  OBVIOUS
<1>2. /\ IsFiniteSet(active' \cap Watch)
      /\ Cardinality(active' \cap Watch) = Cardinality(active \cap Watch) - 1
  BY <1>1, FS_RemoveElement, SMTT(30) DEF Flow
<1>3. Cardinality(active \cap Watch) \in Nat
  BY FS_CardinalityType DEF Flow
<1>4. queued' + Cardinality(active' \cap Watch) <= arrived'
  BY <1>2, <1>3, ConstantsAssumption DEF Flow
<1> QED BY <1>2, <1>4 DEF Flow

\* A message arrives for a watch that had none, or a timer expires.
LEMMA FlowArrives ==
    ASSUME Flow, NEW o \in Object \ active, active' = active \cup {o}, queued' = queued,
           \/ o \in Watch /\ arrived < MaxMsg /\ arrived' = arrived + 1
           \/ o \notin Watch /\ arrived' = arrived
    PROVE  Flow'
<1>1. CASE o \in Watch
  <2>1. active' \cap Watch = (active \cap Watch) \cup {o} /\ o \notin active \cap Watch
    BY <1>1
  <2>2. /\ IsFiniteSet(active' \cap Watch)
        /\ Cardinality(active' \cap Watch) = Cardinality(active \cap Watch) + 1
    BY <2>1, FS_AddElement DEF Flow
  <2>3. Cardinality(active \cap Watch) \in Nat
    BY FS_CardinalityType DEF Flow
  <2>4. arrived' \in 0..MaxMsg /\ arrived' = arrived + 1
    BY <1>1, ConstantsAssumption DEF Flow
  <2>5. queued' + Cardinality(active' \cap Watch) <= arrived'
    BY <2>2, <2>3, <2>4, ConstantsAssumption DEF Flow
  <2> QED BY <2>2, <2>4, <2>5 DEF Flow
<1>2. CASE o \notin Watch
  <2>1. active' \cap Watch = active \cap Watch /\ arrived' = arrived
    BY <1>2
  <2> QED BY <2>1 DEF Flow
<1> QED BY <1>1, <1>2

(***************************************************************************)
(* Steps                                                                   *)
(***************************************************************************)

\* libdbus changes its objects without moving on in the batch.
LEMMA ControlFrame ==
    ASSUME Control, UNCHANGED <<pc, batch>>, alloc \subseteq alloc', pc # "freed"
    PROVE  Control'
BY DEF Control

\* A failing shl_edbus_add_watch() or shl_edbus_add_timeout() releases what it took.
LEMMA AddFailsStep ==
    ASSUME Inv, AddFails, pc # "freed"
    PROVE  Inv'
<1>1. Graph'
  BY GraphFrame DEF Inv, AddFails, graphVars
<1>2. Flow'
  BY FlowFewer DEF Inv, AddFails
<1>3. Control'
  BY DEF Inv, Control, AddFails, ctxVars
<1> QED BY <1>1, <1>2, <1>3 DEF Inv

\* The descriptor of a new source is not in the set.
LEMMA FreshFd ==
    ASSUME Graph, NEW f \in Fd, LowestFree(f)
    PROVE  epoll[f] = None /\ f # Socket
BY DEF Graph, FdOK, LowestFree

\* shl_edbus_add_watch() keeps the invariant.
LEMMA AddWatchStep ==
    ASSUME Inv, NEW o \in Object, shl_edbus_add_watch(o)
    PROVE  Inv'
<1>1. pc # "freed" /\ o \in Object \ present
  BY DEF shl_edbus_add_watch, DbusRuns
<1>2. CASE AddFails
  BY <1>1, <1>2, AddFailsStep
<1>3. ASSUME NEW s \in Source \ alloc, NEW f \in Fd, NEW on \in BOOLEAN,
             IF epoll[Socket] = None THEN f = Socket ELSE LowestFree(f),
             fds' = fds \cup {f},
             armed' = IF on THEN armed \cup {f} ELSE armed \ {f},
             enabled' = [enabled EXCEPT ![o] = on],
             AddSource(s, o, f, FALSE, f # Socket),
             UNCHANGED <<active, arrived, queued, pc, batch>>
      PROVE  Inv'
  <2>1. epoll[f] = None
    BY <1>3, FreshFd DEF Inv
  <2>2. PICK dupped \in BOOLEAN : dupped <=> f # Socket
    OBVIOUS
  <2>3. AddSource(s, o, f, FALSE, dupped)
    BY <1>3, <2>2
  <2>4. Graph'
    BY <1>1, <1>3, <2>1, <2>2, <2>3, AddGraph DEF Inv
  <2>5. Flow'
    BY <1>3, FlowFewer DEF Inv
  <2>6. Control'
    BY <1>1, <1>3, ControlFrame DEF Inv, AddSource
  <2> QED BY <2>4, <2>5, <2>6 DEF Inv
<1> QED BY <1>2, <1>3 DEF shl_edbus_add_watch

\* shl_edbus_add_timeout() keeps the invariant.
LEMMA AddTimeoutStep ==
    ASSUME Inv, NEW o \in Object, shl_edbus_add_timeout(o)
    PROVE  Inv'
<1>1. pc # "freed" /\ o \in Object \ present
  BY DEF shl_edbus_add_timeout, DbusRuns
<1>2. CASE AddFails
  BY <1>1, <1>2, AddFailsStep
<1>3. ASSUME NEW s \in Source \ alloc, NEW f \in Fd, NEW on \in BOOLEAN,
             LowestFree(f),
             fds' = fds \cup {f},
             armed' = IF on THEN armed \cup {f} ELSE armed \ {f},
             enabled' = [enabled EXCEPT ![o] = on],
             AddSource(s, o, f, TRUE, TRUE),
             UNCHANGED <<active, arrived, queued, pc, batch>>
      PROVE  Inv'
  <2>1. epoll[f] = None /\ f # Socket
    BY <1>3, FreshFd DEF Inv
  <2>2. Graph'
    BY <1>1, <1>3, <2>1, AddGraph DEF Inv
  <2>3. Flow'
    BY <1>3, FlowFewer DEF Inv
  <2>4. Control'
    BY <1>1, <1>3, ControlFrame DEF Inv, AddSource
  <2> QED BY <2>2, <2>3, <2>4 DEF Inv
<1> QED BY <1>2, <1>3 DEF shl_edbus_add_timeout

\* shl_edbus_remove_watch() and shl_edbus_remove_timeout() keep the invariant.
LEMMA RemoveStep ==
    ASSUME Inv, NEW o \in present, Remove(o), pc # "freed"
    PROVE  Inv'
<1>1. Graph'
  BY RemoveGraph DEF Inv
<1>2. Flow'
  BY FlowFewer DEF Inv, Remove
<1>3. Control'
  BY ControlFrame DEF Inv, Remove
<1> QED BY <1>1, <1>2, <1>3 DEF Inv

\* shl_edbus_toggle_watch() and shl_edbus_toggle_timeout() keep the invariant.
LEMMA ToggleStep ==
    ASSUME Inv, NEW o \in present, Toggle(o), pc # "freed"
    PROVE  Inv'
<1>1. Graph'
  BY ToggleGraph DEF Inv
<1>2. Flow'
  BY FlowFewer DEF Inv, Toggle
<1>3. Control'
  BY ControlFrame DEF Inv, Toggle, ctxVars
<1> QED BY <1>1, <1>2, <1>3 DEF Inv

\* Whatever libdbus may do keeps the invariant.
LEMMA DbusStep ==
    ASSUME Inv, Dbus
    PROVE  Inv'
<1> USE DEF DbusRuns
<1>1. PICK o \in Object :
          \/ shl_edbus_add_watch(o) \/ shl_edbus_remove_watch(o) \/ shl_edbus_toggle_watch(o)
          \/ shl_edbus_add_timeout(o) \/ shl_edbus_remove_timeout(o)
          \/ shl_edbus_toggle_timeout(o)
  BY DEF Dbus
<1>2. CASE shl_edbus_remove_watch(o) \/ shl_edbus_remove_timeout(o)
  BY <1>2, RemoveStep DEF shl_edbus_remove_watch, shl_edbus_remove_timeout
<1>3. CASE shl_edbus_toggle_watch(o) \/ shl_edbus_toggle_timeout(o)
  BY <1>3, ToggleStep DEF shl_edbus_toggle_watch, shl_edbus_toggle_timeout
<1> QED BY <1>1, <1>2, <1>3, AddWatchStep, AddTimeoutStep

\* Steps that only move the thread on: none of them enters or leaves a batch.
LEMMA ReturnStep ==
    ASSUME Inv, NewReturns \/ shl_edbus_free \/ DispatchReturns
    PROVE  Inv'
<1>1. UNCHANGED <<dbusVars, active, arrived, queued, ctxVars, kernVars, batch>>
  BY DEF NewReturns, shl_edbus_free, DispatchReturns
<1>2. Graph'
  BY <1>1, GraphFrame DEF Inv, graphVars
<1>3. Flow'
  BY <1>1, FlowFewer DEF Inv
<1>4. Control'
  BY <1>1 DEF Inv, Control, NewReturns, shl_edbus_free, DispatchReturns, ctxVars, dbusVars
<1> QED BY <1>2, <1>3, <1>4 DEF Inv

\* shl_edbus_free() returns when libdbus has no object left, and so no source
\* is live.
LEMMA FreeReturnsStep ==
    ASSUME Inv, FreeReturns
    PROVE  Inv'
<1>1. Graph' /\ alloc' = {s \in alloc : Live(s)}
  BY DrainGraph DEF Inv, FreeReturns
<1>2. Flow'
  BY FlowFewer DEF Inv, FreeReturns
<1>3. alloc' = {}
  BY <1>1 DEF Inv, Graph, GraphType, SourceOK, FreeReturns
<1>4. Control'
  BY <1>3 DEF Inv, Control, FreeReturns, dbusVars
<1> QED BY <1>1, <1>2, <1>4 DEF Inv

\* The end of a batch, where the dead sources are freed, keeps the invariant.
LEMMA EndBatchStep ==
    ASSUME Inv, EndBatch
    PROVE  Inv'
<1>1. Graph'
  BY DrainGraph DEF Inv, EndBatch
<1>2. Flow'
  BY FlowFewer DEF Inv, EndBatch
<1>3. Control'
  BY DEF Inv, Control, EndBatch
<1> QED BY <1>1, <1>2, <1>3 DEF Inv

\* The events of a new batch point to sources that are in the set, and so
\* are live.
LEMMA DispatchStep ==
    ASSUME Inv, shl_edbus_dispatch
    PROVE  Inv'
<1>1. Graph'
  BY GraphFrame DEF Inv, shl_edbus_dispatch, graphVars
<1>2. Flow'
  BY FlowFewer DEF Inv, shl_edbus_dispatch
<1>3. \A f \in ReadyFds : epoll[f] \in alloc
  BY DEF Inv, Graph, FdOK, ReadyFds, Live
<1>4. PICK n \in 0..MaxEvents : batch' \in [1..n -> {epoll[f] : f \in ReadyFds}]
  BY DEF shl_edbus_dispatch, Batches
<1>5. batch' \in [1..n -> alloc]
  BY <1>3, <1>4
<1>6. batch' \in Seq(alloc) /\ Len(batch') = n
  BY <1>5, ConstantsAssumption
<1>7. batch' \in Seq(Source) /\ \A i \in 1..Len(batch') : batch'[i] \in alloc
  BY <1>5, <1>6 DEF Inv, Graph, GraphType
<1>8. Control'
  BY <1>7 DEF Inv, Control, shl_edbus_dispatch, ctxVars
<1> QED BY <1>1, <1>2, <1>8 DEF Inv

\* The events behind the first one of a batch.
LEMMA TailControl ==
    ASSUME Control, pc \in {"batch", "handle"}, batch # << >>,
           batch' = Tail(batch), pc' = "batch", UNCHANGED alloc
    PROVE  Control'
<1>1. /\ Tail(batch) \in Seq(Source) /\ Len(Tail(batch)) = Len(batch) - 1
      /\ \A i \in 1..Len(Tail(batch)) : Tail(batch)[i] = batch[i + 1]
      /\ Len(batch) \in Nat
  BY HeadTailProperties, LenProperties DEF Control
<1>2. \A i \in 1..Len(Tail(batch)) : Tail(batch)[i] \in alloc
  BY <1>1 DEF Control
<1> QED BY <1>1, <1>2 DEF Control

\* A handler returns, and the loop moves on to the next event.
LEMMA HandleReturnsStep ==
    ASSUME Inv, HandleReturns
    PROVE  Inv'
<1>1. Graph'
  BY GraphFrame DEF Inv, HandleReturns, graphVars
<1>2. Flow'
  BY FlowFewer DEF Inv, HandleReturns
<1>3. batch # << >>
  BY DEF Inv, Control, HandleReturns
<1>4. Control'
  BY <1>3, TailControl DEF Inv, HandleReturns, ctxVars
<1> QED BY <1>1, <1>2, <1>4 DEF Inv

\* The next event of a batch, for a live or a dead source, keeps the
\* invariant.
LEMMA NextEventStep ==
    ASSUME Inv, NextEvent
    PROVE  Inv'
<1>1. /\ pc = "batch" /\ batch # << >>
      /\ \/ pc' = "batch" /\ batch' = Tail(batch)
         \/ pc' = "handle" /\ batch' = batch
      /\ UNCHANGED <<dbusVars, arrived, ctxVars, kernVars>>
  BY DEF NextEvent
<1>2. Graph'
  BY <1>1, GraphFrame DEF Inv, graphVars
<1>3. Flow'
  <2> DEFINE o == src[Head(batch)].object
  <2>1. \/ UNCHANGED <<active, queued>>
        \/ /\ active' = active \ (Watch \cap {o})
           /\ queued' = IF o \in active \cap Watch THEN queued + 1 ELSE queued
    BY DEF NextEvent
  <2> HIDE DEF o
  <2>2. CASE UNCHANGED <<active, queued>>
    BY <1>1, <2>2, FlowFewer DEF Inv
  <2>3. CASE active' = active \ (Watch \cap {o}) /\ queued' = queued + 1 /\ o \in active \cap Watch
    <3>1. active' = active \ {o}
      BY <2>3
    <3> QED BY <1>1, <2>3, <3>1, FlowRead DEF Inv
  <2>4. CASE active' = active \ (Watch \cap {o}) /\ queued' = queued
    BY <1>1, <2>4, FlowFewer DEF Inv
  <2> QED BY <2>1, <2>2, <2>3, <2>4
<1>4. Control'
  <2>1. CASE pc' = "batch" /\ batch' = Tail(batch)
    BY <1>1, <2>1, TailControl DEF Inv, ctxVars
  <2>2. CASE pc' = "handle" /\ batch' = batch
    BY <1>1, <2>2 DEF Inv, Control, ctxVars
  <2> QED BY <1>1, <2>1, <2>2
<1> QED BY <1>2, <1>3, <1>4 DEF Inv

\* Steps that only concern messages.
LEMMA MessageStep ==
    ASSUME Inv,
           \/ DispatchMessage \/ BlockingCall
           \/ \E o \in Object : MessageArrives(o) \/ TimerExpires(o)
    PROVE  Inv'
<1>1. UNCHANGED <<dbusVars, ctxVars, kernVars, pc, batch>>
  BY DEF DispatchMessage, BlockingCall, MessageArrives, TimerExpires
<1>2. Graph'
  BY <1>1, GraphFrame DEF Inv, graphVars
<1>3. Control'
  BY <1>1 DEF Inv, Control, ctxVars, dbusVars
<1>4. Flow'
  <2>1. CASE DispatchMessage
    <3>1. queued' \in Nat /\ queued' <= queued
      BY <2>1 DEF Inv, Flow, DispatchMessage
    <3>2. Cardinality(active \cap Watch) \in Nat
      BY FS_CardinalityType DEF Inv, Flow
    <3>3. queued' + Cardinality(active \cap Watch) <= arrived
      BY <3>1, <3>2, ConstantsAssumption DEF Inv, Flow
    <3> QED BY <2>1, <3>1, <3>3 DEF Inv, Flow, DispatchMessage
  <2>2. CASE BlockingCall
    BY <2>2, FlowRead DEF Inv, BlockingCall
  <2>3. ASSUME NEW o \in Object, MessageArrives(o) PROVE Flow'
    BY <2>3, FlowArrives DEF Inv, MessageArrives
  <2>4. ASSUME NEW o \in Object, TimerExpires(o) PROVE Flow'
    BY <2>4, FlowArrives, ConstantsAssumption DEF Inv, TimerExpires
  <2> QED BY <2>1, <2>2, <2>3, <2>4
<1> QED BY <1>2, <1>3, <1>4 DEF Inv

(***************************************************************************)
(* The theorems                                                            *)
(***************************************************************************)

\* A context that was just created satisfies the invariant.
LEMMA InitInv == Init => Inv
<1> SUFFICES ASSUME Init PROVE Inv
  OBVIOUS
<1> USE DEF Init
<1>1. << >> \in Seq(Source) /\ Len(<< >>) = 0
  OBVIOUS
<1>2. Socket \in Fd
  BY ConstantsAssumption DEF Socket, Fd
<1>3. GraphType
  BY <1>1, <1>2 DEF GraphType, SourceFields, Unset
<1>4. ListOK
  BY DEF ListOK, Listed
<1>5. Graph
  BY <1>2, <1>3, <1>4 DEF Graph, SourceOK, ObjectOK, FdOK, Live
<1>6. active \cap Watch = {}
  OBVIOUS
<1>7. Flow
  BY <1>6, FS_EmptySet, ConstantsAssumption DEF Flow
<1>8. Control
  BY <1>1 DEF Control
<1> QED BY <1>5, <1>7, <1>8 DEF Inv

\* Every step keeps the invariant.
LEMMA NextInv == Inv /\ [Next]_vars => Inv'
<1> SUFFICES ASSUME Inv, [Next]_vars PROVE Inv'
  OBVIOUS
<1>1. CASE UNCHANGED vars
  <2>1. Graph'
    BY <1>1, GraphFrame DEF Inv, vars, graphVars, dbusVars, ctxVars, kernVars
  <2>2. Flow' /\ Control'
    BY <1>1, FlowFewer DEF Inv, Control, vars
  <2> QED BY <2>1, <2>2 DEF Inv
<1> QED BY <1>1, DbusStep, ReturnStep, FreeReturnsStep, EndBatchStep, DispatchStep,
           NextEventStep, HandleReturnsStep, MessageStep DEF Next, Dispatching

\* The invariant holds in every state of every behaviour.
LEMMA AlwaysInv == Spec => []Inv
BY InitInv, NextInv, PTL DEF Spec

\* No event of a batch points to a source that shl_edbus_dispatch() has
\* freed, whatever the handlers before it removed, and the free list holds
\* every dead source once: none is freed twice and none is forgotten.
THEOREM DeferredFreeIsExact == Spec => []DeferredFreeExact
<1>1. Inv => DeferredFreeExact
  <2> SUFFICES ASSUME Inv PROVE DeferredFreeExact
    OBVIOUS
  <2>1. queued \in 0..MaxMsg
    <3>1. Cardinality(active \cap Watch) \in Nat
      BY FS_CardinalityType DEF Inv, Flow
    <3> QED BY <3>1, ConstantsAssumption DEF Inv, Flow
  <2>2. TypeOK
    BY <2>1 DEF Inv, Graph, GraphType, SourceFields, Flow, Control, TypeOK
  <2> QED BY <2>2 DEF Inv, Graph, ListOK, Control, DeferredFreeExact
<1> QED BY <1>1, AlwaysInv, PTL

\* The sources that are alive, the objects that libdbus has and the
\* descriptors in the epoll set correspond to each other one to one, so that
\* no handler is called for an object that was removed.
THEOREM SourcesAlwaysMatch == Spec => []SourcesMatchObjects
<1>1. Inv => SourcesMatchObjects
  BY DEF Inv, Graph, GraphType, SourceOK, ObjectOK, FdOK, SourcesMatchObjects
<1> QED BY <1>1, AlwaysInv, PTL

\* epoll watches the descriptor of an object exactly while libdbus has it
\* enabled, through every add, remove and toggle.
THEOREM EnabledIsAlwaysWatched == Spec => []EnabledIsWatched
<1>1. Inv => EnabledIsWatched
  BY DEF Inv, Graph, GraphType, ObjectOK, EnabledIsWatched
<1> QED BY <1>1, AlwaysInv, PTL

\* When shl_edbus_free() returns, every source is freed and every copy of the
\* socket and every timer is closed.
THEOREM FreeNeverLeaks == Spec => []FreeLeaksNothing
<1>1. Inv => FreeLeaksNothing
  <2> SUFFICES ASSUME Inv, pc = "freed" PROVE alloc = {} /\ fds = {Socket}
    BY DEF FreeLeaksNothing
  <2>1. alloc = {}
    BY DEF Inv, Control
  <2>2. \A f \in Fd : epoll[f] = None
    BY <2>1 DEF Inv, Graph, FdOK, Live
  <2>3. fds = {Socket}
    BY <2>2 DEF Inv, Graph, GraphType, FdOK
  <2> QED BY <2>1, <2>3
<1> QED BY <1>1, AlwaysInv, PTL
=============================================================================
