-------------------------- MODULE ShlPtyOpenProofs --------------------------
(***************************************************************************)
(* Proofs about ShlPtyOpen, for descriptor tables of any size and callers  *)
(* with any files open.                                                    *)
(***************************************************************************)
EXTENDS ShlPtyOpen, NaturalsInduction, WellFoundedInduction, SequenceTheorems, TLAPS

(***************************************************************************)
(* The inductive invariant                                                 *)
(***************************************************************************)

\* The master and the ends of the pipe are three descriptors that the caller
\* did not use.
Opened ==
    /\ fd \in Fd /\ comm[1] \in Fd /\ comm[2] \in Fd
    /\ fd # comm[1] /\ fd # comm[2] /\ comm[1] # comm[2]
    /\ before[fd] = Closed /\ before[comm[1]] = Closed /\ before[comm[2]] = Closed

\* What the parent has in its table: the caller's descriptors, and those it
\* has opened and not yet closed.
ParentEntry(n) ==
    IF n = fd /\ (ppc \in {"pipe2", "fork", "close_w", "recv"} \/ ret = "pid")
        THEN File("master", TRUE)
    ELSE IF n = comm[1] /\ ppc \in {"fork", "close_w", "recv"} THEN File("pipe_r", TRUE)
    ELSE IF n = comm[2] /\ ppc \in {"fork", "close_w"} THEN File("pipe_w", TRUE)
    ELSE before[n]

ParentOK ==
    /\ \A n \in Fd : pfds[n] = ParentEntry(n)
    /\ ppc = "pipe2" => fd \in Fd /\ before[fd] = Closed
    /\ ppc \in {"fork", "close_w", "recv"} \/ cpc # "none" => Opened
    /\ heap <=> (ppc \notin {"calloc", "done"} \/ ret = "pid")
    /\ ppc # "done" => ret = "none"
    /\ ppc \in {"calloc", "openpt", "pipe2", "fork"} => cpc = "none"
    /\ ppc \in {"close_w", "recv"} => cpc # "none"

\* The child has not touched its standard files.
Fresh == {"close_r", "init", "setsid", "close_master", "dup0"}

\* The child has not sent anything.
Early == Fresh \cup {"dup1", "dup2", "close_slave", "send"}

\* The standard files that the child has replaced by the slave.
Replaced ==
    {n \in Std : \/ n < 1 /\ cpc = "dup1"
                 \/ n < 2 /\ cpc = "dup2"
                 \/ cpc \in {"close_slave", "send", "close_w", "returned"}}

\* What the child has in its table, in the same way.
ChildEntry(n) ==
    IF n \in Replaced THEN File("slave", FALSE)
    ELSE IF n = comm[2] /\ cpc # "returned" THEN File("pipe_w", TRUE)
    ELSE IF n = fd /\ cpc \in Fresh \ {"dup0"} THEN File("master", TRUE)
    ELSE IF n = comm[1] /\ cpc = "close_r" THEN File("pipe_r", TRUE)
    ELSE IF n = slave /\ cpc \in Early \ {"close_r", "init", "send"} THEN File("slave", TRUE)
    ELSE before[n]

\* That is so unless a descriptor of the child is also a standard file.
TableOK ==
    cpc \in Fresh \/ (StdOpen /\ cpc \notin {"none", "dead"}) =>
        \A n \in Fd : cfds[n] = ChildEntry(n)

\* The slave is a descriptor the child did not use.
SlaveOK ==
    /\ cpc \in {"setsid", "dup0", "dup1", "dup2", "close_slave"} => slave \in Fd
    /\ cpc \in {"setsid", "close_master", "dup0", "dup1", "dup2", "close_slave"} /\ slave \in Fd =>
          /\ slave # fd /\ slave # comm[2] /\ before[slave] = Closed
          /\ cfds[slave].obj = "slave"

\* Whether or not the caller has its standard files open: the byte in the
\* pipe stands for a child whose standard files are the slave.
SetupOK ==
    /\ cpc = "none" \/ cpc \in Early => pipe = << >> /\ ret # "pid"
    /\ cpc # "returned" => \A n \in Replaced : cfds[n].obj = "slave"
    /\ cpc = "close_w" /\ (pipe # << >> \/ ret = "pid") => comm[2] \notin Std
    /\ cpc = "returned" /\ (pipe # << >> \/ ret = "pid") =>
          \A n \in Std : cfds[n].obj = "slave"

\* The parent cannot miss the byte: it waits while the child holds the pipe.
WakeOK ==
    StdOpen =>
        /\ cpc \in Early => ppc # "done"
        /\ cpc \in {"close_w", "returned"} => ret = "pid" \/ (pipe # << >> /\ ppc # "done")

Inv == TypeOK /\ ParentOK /\ TableOK /\ SlaveOK /\ SetupOK /\ WakeOK

(***************************************************************************)
(* Descriptors                                                             *)
(***************************************************************************)

\* The descriptors are numbers, and the standard files are among them.
LEMMA FdFacts == Fd \subseteq Nat /\ Std \subseteq Fd /\ -1 \notin Fd
BY FdAssumption DEF Fd, Std

\* A non-empty set of naturals has a least element, which Min returns.
LEMMA MinNat ==
    ASSUME NEW S, S \subseteq Nat, S # {}
    PROVE  Min(S) \in S
<1> DEFINE R == OpToRel(<, Nat)
<1>1. \A x, y \in Nat : x < y => <<x, y>> \in R
  BY Zenon DEF OpToRel
<1>2. \E x \in S : \A y \in S : ~(<<y, x>> \in R)
  BY NatLessThanWellFounded, WFMin
<1> HIDE DEF R
<1>3. PICK x \in S : \A y \in S : ~(<<y, x>> \in R)
  BY <1>2
<1>4. \A y \in S : ~(y < x)
  BY <1>1, <1>3, Zenon
<1>5. \A y \in S : x <= y
  BY <1>4
<1> QED BY <1>5 DEF Min

\* A new descriptor was not in use.
LEMMA LowestUnused ==
    ASSUME NEW t, Unused(t) # {}
    PROVE  Lowest(t) \in Fd /\ t[Lowest(t)] = Closed
<1>1. Unused(t) \subseteq Nat
  BY FdFacts DEF Unused
<1>2. Lowest(t) \in Unused(t)
  BY <1>1, MinNat DEF Lowest
<1> QED BY <1>2 DEF Unused

\* Entries of the table, and that those of open files are not the closed one.
LEMMA Entries ==
    /\ Closed \in Entry /\ Closed.obj = "none"
    /\ \A obj \in Object, c \in BOOLEAN : File(obj, c) \in Entry
    /\ \A obj, c : File(obj, c).obj = obj
    /\ \A obj, c : obj # "none" => File(obj, c) # Closed
BY DEF Closed, Entry, Object, File

\* Closing a descriptor.
LEMMA CloseEntry ==
    ASSUME NEW t \in [Fd -> Entry], NEW n \in Fd
    PROVE  /\ Close(t, n) \in [Fd -> Entry]
           /\ \A m \in Fd : Close(t, n)[m] = IF m = n THEN Closed ELSE t[m]
BY Entries DEF Close

\* Opening a descriptor.
LEMMA OpenEntry ==
    ASSUME NEW t \in [Fd -> Entry], NEW n \in Fd, NEW obj \in Object
    PROVE  /\ [t EXCEPT ![n] = File(obj, TRUE)] \in [Fd -> Entry]
           /\ \A m \in Fd : [t EXCEPT ![n] = File(obj, TRUE)][m]
                              = IF m = n THEN File(obj, TRUE) ELSE t[m]
BY Entries

(***************************************************************************)
(* The parent                                                              *)
(***************************************************************************)

\* While there is no child, nothing is said of it.
LEMMA NoChild ==
    ASSUME cpc' = "none", pipe' = << >>, ret' # "pid"
    PROVE  TableOK' /\ SlaveOK' /\ SetupOK' /\ WakeOK'
BY DEF TableOK, SlaveOK, SetupOK, WakeOK, Fresh, Early, Replaced

\* A step of the parent before the fork: pipe and ret of a parent that runs.
LEMMA Alone ==
    ASSUME Inv, ppc \in {"calloc", "openpt", "pipe2", "fork"}
    PROVE  cpc = "none" /\ pipe = << >> /\ ret = "none"
BY DEF Inv, ParentOK, SetupOK

\* calloc() keeps the invariant.
LEMMA CallocStep ==
    ASSUME Inv, Calloc
    PROVE  Inv'
<1> USE DEF Calloc, ParentFails, cvars
<1>1. cpc' = "none" /\ pipe' = << >> /\ ret' # "pid"
  BY Alone
<1>2. TypeOK'
  BY DEF Inv, TypeOK
<1>3. ParentOK'
  BY Alone DEF Inv, ParentOK, ParentEntry
<1> QED BY <1>1, <1>2, <1>3, NoChild DEF Inv

\* posix_openpt() keeps the invariant.
LEMMA OpenPtStep ==
    ASSUME Inv, OpenPt
    PROVE  Inv'
<1> USE DEF OpenPt, ParentFails, cvars
<1>1. cpc' = "none" /\ pipe' = << >> /\ ret' # "pid"
  BY Alone
<1>2. CASE ppc' = "done"
  <2>1. TypeOK'
    BY <1>2 DEF Inv, TypeOK
  <2>2. ParentOK'
    BY <1>2, Alone DEF Inv, ParentOK, ParentEntry
  <2> QED BY <1>1, <2>1, <2>2, NoChild DEF Inv
<1>3. CASE ppc' = "pipe2"
  <2>1. fd' \in Fd /\ pfds[fd'] = Closed /\ UNCHANGED <<heap, ret>>
    BY <1>3, LowestUnused
  <2>2. /\ pfds' \in [Fd -> Entry]
        /\ \A m \in Fd : pfds'[m] = IF m = fd' THEN File("master", TRUE) ELSE pfds[m]
    <3>1. pfds \in [Fd -> Entry] /\ "master" \in Object
      BY DEF Inv, TypeOK, Object
    <3>2. pfds' = [pfds EXCEPT ![fd'] = File("master", TRUE)]
      BY <1>3
    <3>3. PICK n \in Fd : n = fd'
      BY <2>1
    <3>4. /\ [pfds EXCEPT ![n] = File("master", TRUE)] \in [Fd -> Entry]
          /\ \A m \in Fd : [pfds EXCEPT ![n] = File("master", TRUE)][m]
                             = IF m = n THEN File("master", TRUE) ELSE pfds[m]
      BY <3>1, OpenEntry
    <3> QED BY ONLY <3>2, <3>3, <3>4
  <2>3. \A n \in Fd : pfds[n] = before[n]
    BY Alone DEF Inv, ParentOK, ParentEntry
  <2>4. TypeOK'
    BY <1>3, <2>1, <2>2 DEF Inv, TypeOK
  <2>5. ParentOK'
    BY <1>3, <2>1, <2>2, <2>3, Alone DEF Inv, ParentOK, ParentEntry
  <2> QED BY <1>1, <2>4, <2>5, NoChild DEF Inv
<1> QED BY <1>2, <1>3

\* pipe2() keeps the invariant.
LEMMA Pipe2Step ==
    ASSUME Inv, Pipe2
    PROVE  Inv'
<1> USE DEF Pipe2, ParentFails, cvars
<1>1. cpc' = "none" /\ pipe' = << >> /\ ret' # "pid"
  BY Alone
<1>2. /\ fd \in Fd /\ before[fd] = Closed
      /\ \A n \in Fd : pfds[n] = IF n = fd THEN File("master", TRUE) ELSE before[n]
  BY Alone DEF Inv, ParentOK, ParentEntry
<1>3. CASE ppc' = "done"
  <2>1. /\ pfds' \in [Fd -> Entry]
        /\ \A m \in Fd : pfds'[m] = IF m = fd THEN Closed ELSE pfds[m]
    <3>1. pfds \in [Fd -> Entry]
      BY DEF Inv, TypeOK
    <3>2. pfds' = Close(pfds, fd)
      BY <1>3
    <3> QED BY ONLY <1>2, <3>1, <3>2, CloseEntry
  <2>2. TypeOK'
    BY <1>3, <2>1 DEF Inv, TypeOK
  <2>3. ParentOK'
    BY <1>2, <1>3, <2>1, Alone DEF Inv, ParentOK, ParentEntry
  <2> QED BY <1>1, <2>2, <2>3, NoChild DEF Inv
<1>4. CASE ppc' = "fork"
  <2>1. PICK r, w \in Unused(pfds) :
            /\ r < w /\ comm' = <<r, w>>
            /\ pfds' = [pfds EXCEPT ![r] = File("pipe_r", TRUE), ![w] = File("pipe_w", TRUE)]
    BY <1>4
  <2>2. /\ r \in Fd /\ w \in Fd /\ r # w /\ pfds[r] = Closed /\ pfds[w] = Closed
        /\ comm'[1] = r /\ comm'[2] = w
    BY <2>1, FdFacts DEF Unused
  <2>3. /\ r # fd /\ w # fd /\ before[r] = Closed /\ before[w] = Closed
    <3>1. File("master", TRUE) # Closed
      BY Entries
    <3> QED BY ONLY <1>2, <2>2, <3>1
  <2>4. /\ pfds' \in [Fd -> Entry]
        /\ \A m \in Fd : pfds'[m] = IF m = w THEN File("pipe_w", TRUE)
                                    ELSE IF m = r THEN File("pipe_r", TRUE) ELSE pfds[m]
    BY <2>1, <2>2, Entries DEF Inv, TypeOK, Object
  <2>5. TypeOK'
    BY <1>4, <2>1, <2>2, <2>4 DEF Inv, TypeOK
  <2>6. Opened'
    BY <1>2, <2>2, <2>3 DEF Opened
  <2>7. ParentOK'
    BY <1>2, <1>4, <2>2, <2>3, <2>4, <2>6, Alone DEF Inv, ParentOK, ParentEntry
  <2> QED BY <1>1, <2>5, <2>7, NoChild DEF Inv
<1> QED BY <1>3, <1>4

\* fork() gives the child the descriptors of the parent, and keeps the
\* invariant.
LEMMA ForkStep ==
    ASSUME Inv, Fork
    PROVE  Inv'
<1> USE DEF Fork, ParentFails
<1>1. /\ Opened /\ pfds \in [Fd -> Entry]
      /\ \A n \in Fd : pfds[n] = IF n = fd THEN File("master", TRUE)
                                 ELSE IF n = comm[1] THEN File("pipe_r", TRUE)
                                 ELSE IF n = comm[2] THEN File("pipe_w", TRUE)
                                 ELSE before[n]
  BY Alone DEF Inv, TypeOK, ParentOK, ParentEntry
<1>2. CASE ppc' = "done"
  <2>1. cpc' = "none" /\ pipe' = << >> /\ ret' # "pid"
    BY <1>2, Alone
  <2>2. /\ pfds' \in [Fd -> Entry]
        /\ \A m \in Fd : pfds'[m] = IF m \in {fd, comm[1], comm[2]} THEN Closed ELSE pfds[m]
    <3>1. fd \in Fd /\ comm[1] \in Fd /\ comm[2] \in Fd
      BY <1>1 DEF Opened
    <3>2. PICK t : t = Close(pfds, comm[1])
      OBVIOUS
    <3>3. PICK u : u = Close(t, comm[2])
      OBVIOUS
    <3>4. pfds' = Close(u, fd)
      BY <1>2, <3>2, <3>3
    <3>5. /\ t \in [Fd -> Entry]
          /\ \A m \in Fd : t[m] = IF m = comm[1] THEN Closed ELSE pfds[m]
      BY ONLY <1>1, <3>1, <3>2, CloseEntry
    <3>6. /\ u \in [Fd -> Entry]
          /\ \A m \in Fd : u[m] = IF m = comm[2] THEN Closed ELSE t[m]
      BY ONLY <3>5, <3>1, <3>3, CloseEntry
    <3>7. /\ pfds' \in [Fd -> Entry]
          /\ \A m \in Fd : pfds'[m] = IF m = fd THEN Closed ELSE u[m]
      BY ONLY <3>6, <3>1, <3>4, CloseEntry
    <3> QED BY ONLY <3>5, <3>6, <3>7
  <2>3. TypeOK'
    BY <1>2, <2>2 DEF Inv, TypeOK
  <2>4. ParentOK'
    BY <1>1, <1>2, <2>1, <2>2, Alone DEF Inv, ParentOK, ParentEntry, Opened
  <2> QED BY <2>1, <2>3, <2>4, NoChild DEF Inv
<1>3. CASE ppc' = "close_w"
  <2>1. cpc' = "close_r" /\ cfds' = pfds /\ UNCHANGED <<pfds, heap, ret>>
    BY <1>3
  <2>2. TypeOK'
    BY <1>3, <2>1 DEF Inv, TypeOK
  <2>3. ParentOK'
    BY <1>1, <1>3, <2>1, Alone DEF Inv, ParentOK, ParentEntry, Opened
  <2>4. Replaced' = {}
    BY <2>1 DEF Replaced
  <2>5. TableOK'
    <3> SUFFICES ASSUME NEW n \in Fd PROVE cfds'[n] = ChildEntry(n)'
      BY DEF TableOK
    <3> QED BY <1>1, <2>1, <2>4 DEF ChildEntry, Opened, Fresh, Early
  <2>6. SlaveOK'
    BY <2>1 DEF SlaveOK
  <2>7. SetupOK'
    BY <2>1, <2>4, Alone DEF SetupOK
  <2>8. WakeOK'
    BY <1>3, <2>1 DEF WakeOK
  <2> QED BY <2>2, <2>3, <2>5, <2>6, <2>7, <2>8 DEF Inv
<1> QED BY <1>2, <1>3

\* Steps of the parent that leave the descriptors of the child alone.
LEMMA ChildTableFrame ==
    ASSUME TableOK, SlaveOK, UNCHANGED <<fd, comm, before, cpc, cfds, slave>>
    PROVE  TableOK' /\ SlaveOK' /\ Replaced' = Replaced /\ (StdOpen' <=> StdOpen)
BY ZenonT(30) DEF TableOK, SlaveOK, ChildEntry, Replaced, StdOpen, Fresh, Early

\* The parent closes the write end of the pipe.
LEMMA ParentCloseWStep ==
    ASSUME Inv, ParentCloseW
    PROVE  Inv'
<1> USE DEF ParentCloseW, cvars
<1>1. /\ Opened /\ pfds \in [Fd -> Entry] /\ cpc # "none" /\ ret = "none"
      /\ \A n \in Fd : pfds[n] = IF n = fd THEN File("master", TRUE)
                                 ELSE IF n = comm[1] THEN File("pipe_r", TRUE)
                                 ELSE IF n = comm[2] THEN File("pipe_w", TRUE)
                                 ELSE before[n]
  BY DEF Inv, TypeOK, ParentOK, ParentEntry
<1>2. /\ pfds' \in [Fd -> Entry]
      /\ \A m \in Fd : pfds'[m] = IF m = comm[2] THEN Closed ELSE pfds[m]
  BY <1>1, CloseEntry DEF Opened
<1>3. TypeOK'
  BY <1>2 DEF Inv, TypeOK
<1>4. ParentOK'
  BY <1>1, <1>2 DEF Inv, ParentOK, ParentEntry, Opened
<1>5. TableOK' /\ SlaveOK' /\ Replaced' = Replaced /\ (StdOpen' <=> StdOpen)
  BY ChildTableFrame DEF Inv
<1>6. SetupOK'
  BY <1>5 DEF Inv, SetupOK
<1>7. WakeOK'
  BY <1>5 DEF Inv, WakeOK
<1> QED BY <1>3, <1>4, <1>5, <1>6, <1>7 DEF Inv

\* The parent learns of a failure only when no process can send any more.
LEMMA RecvStep ==
    ASSUME Inv, Recv
    PROVE  Inv'
<1> USE DEF Recv, cvars
<1>1. /\ Opened /\ pfds \in [Fd -> Entry] /\ cpc # "none" /\ ret = "none" /\ heap
      /\ \A n \in Fd : pfds[n] = IF n = fd THEN File("master", TRUE)
                                 ELSE IF n = comm[1] THEN File("pipe_r", TRUE)
                                 ELSE before[n]
  BY DEF Inv, TypeOK, ParentOK, ParentEntry
<1>2. TableOK' /\ SlaveOK' /\ Replaced' = Replaced /\ (StdOpen' <=> StdOpen)
  BY ChildTableFrame DEF Inv
<1>3. CASE pipe # << >>
  <2>1. Head(pipe) = SHL_PTY_SETUP /\ pipe' = Tail(pipe) /\ Tail(pipe) \in Seq({SHL_PTY_SETUP})
    BY <1>3, HeadTailProperties DEF Inv, TypeOK, pty_recv
  <2>2. ret' = "pid" /\ pfds' = Close(pfds, comm[1]) /\ heap' = heap
    BY <1>3, <2>1 DEF pty_recv, SHL_PTY_SETUP, SHL_PTY_FAILED
  <2>3. /\ pfds' \in [Fd -> Entry]
        /\ \A m \in Fd : pfds'[m] = IF m = comm[1] THEN Closed ELSE pfds[m]
    BY <1>1, <2>2, CloseEntry DEF Opened
  <2>4. TypeOK'
    BY <2>1, <2>2, <2>3 DEF Inv, TypeOK
  <2>5. ParentOK'
    BY <1>1, <2>2, <2>3 DEF Inv, ParentOK, ParentEntry, Opened
  <2>6. SetupOK'
    BY <1>1, <1>2, <1>3 DEF Inv, SetupOK, Early
  <2>7. WakeOK'
    BY <1>1, <1>3, <2>2 DEF Inv, WakeOK, SetupOK
  <2> QED BY <1>2, <2>4, <2>5, <2>6, <2>7 DEF Inv
<1>4. CASE pipe = << >>
  <2>1. ret' = "error" /\ pfds' = Close(Close(pfds, comm[1]), fd) /\ ~heap' /\ pipe' = pipe
        /\ ~HasWriter
    BY <1>4 DEF pty_recv, SHL_PTY_SETUP, SHL_PTY_FAILED, Inv, TypeOK
  <2>2. /\ pfds' \in [Fd -> Entry]
        /\ \A m \in Fd : pfds'[m] = IF m \in {fd, comm[1]} THEN Closed ELSE pfds[m]
    BY <1>1, <2>1, CloseEntry DEF Opened
  <2>3. TypeOK'
    BY <2>1, <2>2 DEF Inv, TypeOK
  <2>4. ParentOK'
    BY <1>1, <2>1, <2>2 DEF Inv, ParentOK, ParentEntry, Opened
  <2>5. SetupOK'
    BY <1>1, <1>2, <1>4, <2>1 DEF Inv, SetupOK
  <2>6. WakeOK'
    <3> SUFFICES ASSUME StdOpen PROVE cpc \notin Early /\ cpc \notin {"close_w", "returned"}
      BY <1>2 DEF WakeOK
    <3>1. cpc \notin {"close_w", "returned"}
      BY <1>1, <1>4 DEF Inv, WakeOK
    <3>2. ASSUME cpc \in Early PROVE FALSE
      <4>1. cfds[comm[2]] = File("pipe_w", TRUE)
        BY <1>1, <3>2 DEF Inv, TableOK, ChildEntry, Replaced, StdOpen, Opened, Early, Fresh
      <4>2. HasWriter
        BY <1>1, <4>1, Entries, ZenonT(30) DEF HasWriter, Opened
      <4> QED BY <2>1, <4>2
    <3> QED BY <3>1, <3>2
  <2> QED BY <1>2, <2>3, <2>4, <2>5, <2>6 DEF Inv
<1> QED BY <1>3, <1>4

(***************************************************************************)
(* The child                                                               *)
(***************************************************************************)

\* A step of the child changes nothing of the parent.
LEMMA ParentFrame ==
    ASSUME Inv, UNCHANGED pvars, cpc # "none", cpc' # "none"
    PROVE  ParentOK' /\ Opened /\ Opened' /\ (StdOpen' <=> StdOpen)
BY DEF Inv, ParentOK, ParentEntry, Opened, StdOpen, pvars

\* A standard file of the caller is none of the new descriptors.
LEMMA NotStd ==
    ASSUME Opened, StdOpen
    PROVE  fd \notin Std /\ comm[2] \notin Std
BY DEF Opened, StdOpen

\* A child that exits or is killed loses all its descriptors.
LEMMA ExitStep ==
    ASSUME Inv, cpc # "none", Exit, UNCHANGED <<pvars, slave, tty, pipe>>
    PROVE  Inv'
<1> USE DEF Exit
<1>1. ParentOK'
  BY ParentFrame
<1>2. cfds' \in [Fd -> Entry]
  BY Entries DEF Empty
<1>3. TypeOK'
  BY <1>2 DEF Inv, TypeOK, pvars
<1>4. TableOK' /\ SlaveOK' /\ SetupOK' /\ WakeOK'
  BY DEF TableOK, SlaveOK, SetupOK, WakeOK, Replaced, Fresh, Early
<1> QED BY <1>1, <1>3, <1>4 DEF Inv

\* A step of a child that has not sent anything keeps the invariant if it
\* leaves the right table.
LEMMA EarlyStep ==
    ASSUME Inv, cpc \in Early, cpc' \in Early, UNCHANGED <<pvars, tty, pipe>>,
           cfds' \in [Fd -> Entry], slave' \in Fd \cup {-1}, TableOK', SlaveOK',
           \A n \in Replaced' : cfds'[n].obj = "slave"
    PROVE  Inv'
<1>1. cpc # "none" /\ cpc' # "none" /\ cpc' # "returned" /\ cpc' # "close_w"
  BY DEF Early, Fresh
<1>2. ParentOK' /\ (StdOpen' <=> StdOpen)
  BY <1>1, ParentFrame
<1>3. TypeOK'
  BY DEF Inv, TypeOK, pvars, Early, Fresh
<1>4. SetupOK'
  BY <1>1 DEF Inv, SetupOK, pvars
<1>5. WakeOK'
  BY <1>1, <1>2 DEF Inv, WakeOK, pvars
<1> QED BY <1>2, <1>3, <1>4, <1>5 DEF Inv

\* The child closes the read end of the pipe.
LEMMA CloseRStep ==
    ASSUME Inv, CloseR
    PROVE  Inv'
<1> USE DEF CloseR
<1>1. cpc \in Early /\ cpc' \in Early /\ Replaced = {} /\ Replaced' = {}
  BY DEF Early, Fresh, Replaced
<1>2. Opened /\ cfds \in [Fd -> Entry] /\ slave \in Fd \cup {-1}
  BY ParentFrame DEF Inv, TypeOK
<1>3. /\ cfds' \in [Fd -> Entry]
      /\ \A m \in Fd : cfds'[m] = IF m = comm[1] THEN Closed ELSE cfds[m]
  BY <1>2, CloseEntry DEF Opened
<1>4. \A n \in Fd : cfds[n] = ChildEntry(n)
  BY DEF Inv, TableOK, Fresh
<1>5. TableOK'
  <2> SUFFICES ASSUME NEW n \in Fd PROVE cfds'[n] = ChildEntry(n)'
    BY DEF TableOK
  <2> QED BY <1>1, <1>2, <1>3, <1>4 DEF ChildEntry, Opened, Fresh, Early, pvars
<1>6. SlaveOK'
  BY DEF SlaveOK
<1> QED BY <1>1, <1>2, <1>3, <1>5, <1>6, EarlyStep

\* pty_init_child() opens the slave, or fails.
LEMMA InitChildStep ==
    ASSUME Inv, InitChild
    PROVE  Inv'
<1> USE DEF InitChild
<1>1. cpc \in Early /\ cpc' \in Early /\ Replaced = {} /\ Replaced' = {}
  BY DEF Early, Fresh, Replaced
<1>2. Opened /\ cfds \in [Fd -> Entry]
  BY ParentFrame DEF Inv, TypeOK
<1>3. \A n \in Fd : cfds[n] = IF n = comm[2] THEN File("pipe_w", TRUE)
                              ELSE IF n = fd THEN File("master", TRUE) ELSE before[n]
  BY <1>1 DEF Inv, TableOK, Fresh, Early, ChildEntry
<1>4. CASE cpc' = "setsid"
  <2>1. slave' \in Fd /\ cfds[slave'] = Closed
    BY <1>4, LowestUnused
  <2>2. PICK s \in Fd : s = slave'
    BY <2>1
  <2>3. /\ [cfds EXCEPT ![s] = File("slave", TRUE)] \in [Fd -> Entry]
        /\ \A m \in Fd : [cfds EXCEPT ![s] = File("slave", TRUE)][m]
                           = IF m = s THEN File("slave", TRUE) ELSE cfds[m]
    BY <1>2, OpenEntry DEF Object
  <2>4. cfds' = [cfds EXCEPT ![s] = File("slave", TRUE)]
    BY <1>4, <2>2
  <2>5. /\ cfds' \in [Fd -> Entry]
        /\ \A m \in Fd : cfds'[m] = IF m = s THEN File("slave", TRUE) ELSE cfds[m]
    BY ONLY <2>3, <2>4
  <2>6. File("pipe_w", TRUE) # Closed /\ File("master", TRUE) # Closed
    BY Entries
  <2>7. s # fd /\ s # comm[2] /\ before[s] = Closed
    BY ONLY <1>3, <2>1, <2>2, <2>6
  <2>8. TableOK'
    <3> SUFFICES ASSUME NEW n \in Fd PROVE cfds'[n] = ChildEntry(n)'
      BY DEF TableOK
    <3> QED BY <1>1, <1>2, <1>3, <1>4, <2>2, <2>5, <2>7 DEF ChildEntry, Opened, Fresh, Early, pvars
  <2>9. SlaveOK'
    <3>1. cfds'[s].obj = "slave"
      BY <2>5, Entries
    <3> QED BY <1>4, <2>2, <2>7, <3>1 DEF SlaveOK, pvars
  <2> QED BY <1>1, <2>1, <2>5, <2>8, <2>9, EarlyStep
<1>5. CASE cpc' = "close_master"
  <2>1. slave' = -1 /\ cfds' = cfds /\ slave' \notin Fd
    BY <1>5, FdFacts
  <2>2. TableOK'
    <3> SUFFICES ASSUME NEW n \in Fd PROVE cfds'[n] = ChildEntry(n)'
      BY DEF TableOK
    <3> QED BY <1>1, <1>3, <1>5, <2>1 DEF ChildEntry, Fresh, Early, pvars
  <2>3. SlaveOK'
    BY <1>5, <2>1 DEF SlaveOK
  <2> QED BY <1>1, <1>2, <2>1, <2>2, <2>3, EarlyStep
<1> QED BY <1>4, <1>5

\* setsid() keeps the invariant.
LEMMA SetsidStep ==
    ASSUME Inv, Setsid
    PROVE  Inv'
<1> USE DEF Setsid
<1>1. cpc \in Early /\ cpc' \in Early /\ Replaced = {} /\ Replaced' = {}
  BY DEF Early, Fresh, Replaced
<1>2. Opened /\ cfds \in [Fd -> Entry]
  BY ParentFrame DEF Inv, TypeOK
<1>3. /\ slave \in Fd /\ slave # fd /\ slave # comm[2] /\ before[slave] = Closed
      /\ cfds[slave].obj = "slave"
  BY DEF Inv, SlaveOK
<1>4. \A n \in Fd : cfds[n] = IF n = comm[2] THEN File("pipe_w", TRUE)
                              ELSE IF n = fd THEN File("master", TRUE)
                              ELSE IF n = slave THEN File("slave", TRUE) ELSE before[n]
  BY <1>1 DEF Inv, TableOK, Fresh, Early, ChildEntry
<1>5. CASE UNCHANGED <<slave, cfds>>
  <2>1. TableOK'
    <3> SUFFICES ASSUME NEW n \in Fd PROVE cfds'[n] = ChildEntry(n)'
      BY DEF TableOK
    <3> QED BY <1>1, <1>4, <1>5 DEF ChildEntry, Fresh, Early, pvars
  <2>2. SlaveOK'
    BY <1>3, <1>5 DEF SlaveOK, pvars
  <2> QED BY <1>1, <1>2, <1>3, <1>5, <2>1, <2>2, EarlyStep
<1>6. CASE slave' = -1 /\ cfds' = Close(cfds, slave)
  <2>1. /\ cfds' \in [Fd -> Entry]
        /\ \A m \in Fd : cfds'[m] = IF m = slave THEN Closed ELSE cfds[m]
    BY <1>2, <1>3, <1>6, CloseEntry
  <2>2. slave' \notin Fd
    BY <1>6, FdFacts
  <2>3. TableOK'
    <3> SUFFICES ASSUME NEW n \in Fd PROVE cfds'[n] = ChildEntry(n)'
      BY DEF TableOK
    <3> QED BY <1>1, <1>3, <1>4, <2>1, <2>2 DEF ChildEntry, Fresh, Early, pvars
  <2>4. SlaveOK'
    BY <2>2 DEF SlaveOK
  <2> QED BY <1>1, <1>6, <2>1, <2>3, <2>4, EarlyStep
<1> QED BY <1>5, <1>6

\* The child closes the master.
LEMMA CloseMasterStep ==
    ASSUME Inv, CloseMaster
    PROVE  Inv'
<1> USE DEF CloseMaster
<1>1. CASE slave < 0
  BY <1>1, ExitStep
<1>2. CASE ~(slave < 0)
  <2>1. cpc \in Early /\ cpc' = "dup0" /\ cpc' \in Early /\ Replaced = {} /\ Replaced' = {}
    BY <1>2 DEF Early, Fresh, Replaced
  <2>2. Opened /\ cfds \in [Fd -> Entry]
    BY <2>1, ParentFrame DEF Inv, TypeOK
  <2>3. slave \in Fd
    BY <1>2 DEF Inv, TypeOK
  <2>4. /\ slave # fd /\ slave # comm[2] /\ before[slave] = Closed
        /\ cfds[slave].obj = "slave"
    BY <2>3 DEF Inv, SlaveOK
  <2>5. \A n \in Fd : cfds[n] = IF n = comm[2] THEN File("pipe_w", TRUE)
                                ELSE IF n = fd THEN File("master", TRUE)
                                ELSE IF n = slave THEN File("slave", TRUE) ELSE before[n]
    BY <2>1 DEF Inv, TableOK, Fresh, Early, ChildEntry
  <2>6. /\ cfds' \in [Fd -> Entry]
        /\ \A m \in Fd : cfds'[m] = IF m = fd THEN Closed ELSE cfds[m]
    BY <1>2, <2>2, CloseEntry DEF Opened
  <2>7. TableOK'
    <3> SUFFICES ASSUME NEW n \in Fd PROVE cfds'[n] = ChildEntry(n)'
      BY DEF TableOK
    <3> QED BY <2>1, <2>2, <2>4, <2>5, <2>6 DEF ChildEntry, Opened, Fresh, Early, pvars
  <2>8. SlaveOK'
    BY <2>1, <2>3, <2>4, <2>6 DEF SlaveOK, pvars
  <2> QED BY <2>1, <2>3, <2>6, <2>7, <2>8, EarlyStep
<1> QED BY <1>1, <1>2

\* One dup2() of pty_setup_child() replaces one standard file, whatever it
\* was, and leaves the slave open.
LEMMA DupStep ==
    ASSUME Inv, NEW to \in Std, cpc \in {"dup0", "dup1", "dup2"},
           cpc' \in {"dup1", "dup2", "close_slave"}, Replaced' = Replaced \cup {to},
           cfds' = Dup2(cfds, slave, to), UNCHANGED <<pvars, slave, tty, pipe>>
    PROVE  Inv'
<1>1. cpc \in Early /\ cpc' \in Early /\ cpc # "none" /\ cpc' # "none" /\ cpc' \notin Fresh
  BY DEF Early, Fresh
<1>2. Opened /\ cfds \in [Fd -> Entry] /\ (StdOpen' <=> StdOpen)
  BY <1>1, ParentFrame DEF Inv, TypeOK
<1>3. /\ slave \in Fd /\ slave # fd /\ slave # comm[2] /\ before[slave] = Closed
      /\ cfds[slave].obj = "slave"
  BY DEF Inv, SlaveOK
<1>4. to \in Fd
  BY FdFacts
<1>5. /\ cfds' \in [Fd -> Entry]
      /\ \A m \in Fd : cfds'[m] = IF m = to /\ slave # to THEN File("slave", FALSE) ELSE cfds[m]
  <2>1. CASE slave = to
    <3>1. cfds' = cfds
      BY <2>1 DEF Dup2
    <3> QED BY ONLY <1>2, <2>1, <3>1
  <2>2. CASE slave # to
    <3>1. cfds' = [cfds EXCEPT ![to] = File("slave", FALSE)]
      BY <1>3, <2>2 DEF Dup2
    <3>2. File("slave", FALSE) \in Entry
      BY Entries DEF Object
    <3> QED BY ONLY <1>2, <1>4, <2>2, <3>1, <3>2
  <2> QED BY <2>1, <2>2
<1>6. \A m \in Fd : cfds[m].obj = "slave" \/ m = to => cfds'[m].obj = "slave"
  BY <1>3, <1>5, Entries
<1>7. \A n \in Replaced' : cfds'[n].obj = "slave"
  <2>1. \A n \in Replaced : cfds[n].obj = "slave"
    BY DEF Inv, SetupOK
  <2>2. Replaced \subseteq Fd
    BY FdFacts DEF Replaced
  <2> QED BY <1>4, <1>6, <2>1, <2>2
<1>8. SlaveOK'
  BY <1>3, <1>6 DEF SlaveOK, pvars
<1>9. TableOK'
  <2> SUFFICES ASSUME StdOpen, NEW n \in Fd PROVE cfds'[n] = ChildEntry(n)'
    BY <1>1, <1>2 DEF TableOK
  <2>1. fd \notin Std /\ comm[2] \notin Std /\ slave \notin Std
    BY <1>2, <1>3, NotStd DEF StdOpen
  <2>2. cfds[n] = ChildEntry(n)
    BY <1>1 DEF Inv, TableOK
  <2>3. cfds'[n] = IF n = to THEN File("slave", FALSE) ELSE cfds[n]
    BY <1>5, <2>1
  <2> QED BY <2>2, <2>3 DEF ChildEntry, Fresh, Early, pvars
<1> QED BY <1>1, <1>3, <1>5, <1>7, <1>8, <1>9, EarlyStep

\* pty_setup_child() installs the standard descriptors, one dup2() at a time.
LEMMA SetupChildStep ==
    ASSUME Inv, SetupChild
    PROVE  Inv'
<1> USE DEF SetupStep
<1>1. CASE Exit
  BY <1>1, ExitStep DEF SetupChild
<1>2. CASE ~Exit
  <2>1. CASE SetupStep("dup0", 0, "dup1")
    <3>1. Replaced' = Replaced \cup {0}
      BY <1>2, <2>1 DEF Replaced, Std
    <3> QED BY <1>2, <2>1, <3>1, DupStep DEF Std
  <2>2. CASE SetupStep("dup1", 1, "dup2")
    <3>1. Replaced' = Replaced \cup {1}
      BY <1>2, <2>2 DEF Replaced, Std
    <3> QED BY <1>2, <2>2, <3>1, DupStep DEF Std
  <2>3. CASE SetupStep("dup2", 2, "close_slave")
    <3>1. Replaced' = Replaced \cup {2}
      BY <1>2, <2>3 DEF Replaced, Std
    <3> QED BY <1>2, <2>3, <3>1, DupStep DEF Std
  <2> QED BY <2>1, <2>2, <2>3 DEF SetupChild
<1> QED BY <1>1, <1>2

\* The child closes the slave unless it is a standard descriptor.
LEMMA CloseSlaveStep ==
    ASSUME Inv, CloseSlave
    PROVE  Inv'
<1> USE DEF CloseSlave
<1>1. /\ cpc \in Early /\ cpc' \in Early /\ cpc # "none" /\ cpc' # "none" /\ cpc' \notin Fresh
      /\ Replaced = Std /\ Replaced' = Std
  BY DEF Early, Fresh, Replaced
<1>2. Opened /\ cfds \in [Fd -> Entry] /\ (StdOpen' <=> StdOpen)
  BY <1>1, ParentFrame DEF Inv, TypeOK
<1>3. slave \in Fd /\ slave # fd /\ slave # comm[2] /\ before[slave] = Closed
  BY DEF Inv, SlaveOK
<1>4. slave > 2 <=> slave \notin Std
  BY <1>3, FdFacts DEF Std
<1>5. /\ cfds' \in [Fd -> Entry]
      /\ \A m \in Fd : cfds'[m] = IF m = slave /\ slave \notin Std THEN Closed ELSE cfds[m]
  BY <1>2, <1>3, <1>4, CloseEntry
<1>6. \A n \in Replaced' : cfds'[n].obj = "slave"
  BY <1>1, <1>5, FdFacts DEF Inv, SetupOK
<1>7. SlaveOK'
  BY DEF SlaveOK
<1>8. TableOK'
  <2> SUFFICES ASSUME StdOpen, NEW n \in Fd PROVE cfds'[n] = ChildEntry(n)'
    BY <1>1, <1>2 DEF TableOK
  <2>1. slave \notin Std
    BY <1>3 DEF StdOpen
  <2>2. cfds[n] = ChildEntry(n)
    BY <1>1 DEF Inv, TableOK
  <2> QED BY <1>1, <1>3, <1>5, <2>1, <2>2 DEF ChildEntry, Fresh, Early, pvars
<1> QED BY <1>1, <1>3, <1>5, <1>6, <1>7, <1>8, EarlyStep

\* Only a child whose end of the pipe dup2() has not replaced can wake the
\* parent.
LEMMA SendStep ==
    ASSUME Inv, Send
    PROVE  Inv'
<1> USE DEF Send
<1>1. Replaced = Std /\ Replaced' = Std /\ cpc \in Early /\ cpc # "none" /\ cpc' # "none"
  BY DEF Replaced, Early
<1>2. ParentOK' /\ Opened /\ (StdOpen' <=> StdOpen)
  BY <1>1, ParentFrame
<1>3. pipe = << >> /\ ret # "pid" /\ \A n \in Std : cfds[n].obj = "slave"
  BY <1>1 DEF Inv, SetupOK
<1>4. TypeOK'
  <2>1. pipe' \in Seq({SHL_PTY_SETUP}) /\ tty' \in Seq({SHL_PTY_SETUP})
    BY AppendProperties DEF Inv, TypeOK
  <2> QED BY <2>1 DEF Inv, TypeOK, pvars
<1>5. TableOK'
  <2> SUFFICES ASSUME StdOpen, NEW n \in Fd PROVE cfds'[n] = ChildEntry(n)'
    BY <1>2 DEF TableOK, Fresh
  <2>1. cfds[n] = ChildEntry(n)
    BY <1>1 DEF Inv, TableOK
  <2> QED BY <1>1, <2>1 DEF ChildEntry, Fresh, Early, pvars
<1>6. SlaveOK'
  BY DEF SlaveOK
<1>7. pipe' # << >> => comm[2] \notin Std
  BY <1>3
<1>8. SetupOK'
  BY <1>1, <1>3, <1>7 DEF SetupOK, Early, Fresh, pvars
<1>9. WakeOK'
  <2> SUFFICES ASSUME StdOpen PROVE pipe' # << >> /\ ppc # "done"
    BY <1>2 DEF WakeOK, Early, Fresh, pvars
  <2>1. ppc # "done"
    BY <1>1 DEF Inv, WakeOK
  <2>2. cfds[comm[2]] = File("pipe_w", TRUE)
    BY <1>1, <1>2, NotStd DEF Inv, TableOK, ChildEntry, Opened
  <2>3. pipe' = Append(<< >>, SHL_PTY_SETUP)
    BY <1>3, <2>2, Entries
  <2> QED BY <2>1, <2>3
<1> QED BY <1>2, <1>4, <1>5, <1>6, <1>8, <1>9 DEF Inv

\* The child closes the write end of the pipe and returns.
LEMMA ChildCloseWStep ==
    ASSUME Inv, ChildCloseW
    PROVE  Inv'
<1> USE DEF ChildCloseW
<1>1. Replaced = Std /\ Replaced' = Std /\ cpc # "none" /\ cpc' # "none"
  BY DEF Replaced
<1>2. ParentOK' /\ Opened /\ (StdOpen' <=> StdOpen)
  BY <1>1, ParentFrame
<1>3. cfds \in [Fd -> Entry] /\ comm[2] \in Fd
  BY <1>2 DEF Inv, TypeOK, Opened
<1>4. /\ cfds' \in [Fd -> Entry]
      /\ \A m \in Fd : cfds'[m] = IF m = comm[2] THEN Closed ELSE cfds[m]
  BY <1>3, CloseEntry
<1>5. TypeOK'
  BY <1>4 DEF Inv, TypeOK, pvars
<1>6. TableOK'
  <2> SUFFICES ASSUME StdOpen, NEW n \in Fd PROVE cfds'[n] = ChildEntry(n)'
    BY <1>2 DEF TableOK, Fresh
  <2>1. cfds[n] = ChildEntry(n)
    BY DEF Inv, TableOK
  <2>2. comm[2] \notin Std /\ before[comm[2]] = Closed
    BY <1>2, NotStd DEF Opened
  <2> QED BY <1>1, <1>4, <2>1, <2>2 DEF ChildEntry, Fresh, Early, pvars
<1>7. SlaveOK'
  BY DEF SlaveOK
<1>8. SetupOK'
  <2> SUFFICES ASSUME pipe # << >> \/ ret = "pid", NEW n \in Std
               PROVE  cfds'[n].obj = "slave"
    BY DEF SetupOK, Early, Fresh, pvars
  <2>1. comm[2] \notin Std /\ cfds[n].obj = "slave"
    BY <1>1 DEF Inv, SetupOK
  <2> QED BY <1>4, <2>1, FdFacts
<1>9. WakeOK'
  BY <1>2 DEF Inv, WakeOK, Early, Fresh, pvars
<1> QED BY <1>2, <1>5, <1>6, <1>7, <1>8, <1>9 DEF Inv

(***************************************************************************)
(* The invariant, and what follows                                         *)
(***************************************************************************)

\* A caller of shl_pty_open() has some files open, and there is no child.
LEMMA InitInv ==
    ASSUME Init
    PROVE  Inv
<1> USE DEF Init
<1>1. pfds \in [Fd -> Entry]
  <2>1. Closed \in Entry /\ File("other", FALSE) \in Entry
    BY Entries DEF Object
  <2> QED BY <2>1
<1>2. cfds \in [Fd -> Entry]
  BY Entries DEF Empty
<1>3. pipe \in Seq({SHL_PTY_SETUP}) /\ tty \in Seq({SHL_PTY_SETUP})
  OBVIOUS
<1>4. TypeOK
  BY <1>1, <1>2, <1>3 DEF TypeOK
<1>5. ParentOK
  BY DEF ParentOK, ParentEntry
<1>6. TableOK /\ SlaveOK /\ SetupOK /\ WakeOK
  BY DEF TableOK, SlaveOK, SetupOK, WakeOK, Fresh, Early, Replaced
<1> QED BY <1>4, <1>5, <1>6 DEF Inv

\* Every step of either process keeps the invariant.
LEMMA NextInv ==
    ASSUME Inv, [Next]_vars
    PROVE  Inv'
<1>1. CASE Parent
  BY <1>1, CallocStep, OpenPtStep, Pipe2Step, ForkStep, ParentCloseWStep, RecvStep DEF Parent
<1>2. CASE Child
  BY <1>2, CloseRStep, InitChildStep, SetsidStep, CloseMasterStep, SetupChildStep,
     CloseSlaveStep, SendStep, ChildCloseWStep DEF Child
<1>3. CASE Killed
  BY <1>3, ExitStep DEF Killed
<1>4. CASE UNCHANGED vars
  <2> USE <1>4 DEF vars
  <2>1. TypeOK'
    BY DEF Inv, TypeOK
  <2>2. ParentOK'
    BY DEF Inv, ParentOK, ParentEntry, Opened
  <2>3. TableOK' /\ SlaveOK' /\ Replaced' = Replaced /\ (StdOpen' <=> StdOpen)
    BY ChildTableFrame DEF Inv
  <2>4. SetupOK' /\ WakeOK'
    BY <2>3 DEF Inv, SetupOK, WakeOK
  <2> QED BY <2>1, <2>2, <2>3, <2>4 DEF Inv
<1> QED BY <1>1, <1>2, <1>3, <1>4 DEF Next

\* The invariant holds in every state of every behaviour.
LEMMA AlwaysInv == Spec => []Inv
<1>1. Init => Inv
  BY InitInv
<1>2. Inv /\ [Next]_vars => Inv'
  BY NextInv
<1> QED BY <1>1, <1>2, PTL DEF Spec

\* Whatever fails in shl_pty_open() or happens to the child, the parent
\* returns with the descriptors it was called with, plus the master exactly
\* if it returns a pid, and with a struct shl_pty exactly in that case.
THEOREM ParentNeverLeaks == Spec => []ParentLeaksNothing
<1>1. Inv => ParentLeaksNothing
  <2> SUFFICES ASSUME Inv PROVE ParentLeaksNothing
    OBVIOUS
  <2>1. TypeOK
    BY DEF Inv
  <2> SUFFICES ASSUME ppc = "done"
               PROVE  /\ heap <=> ret = "pid"
                      /\ pfds = IF ret = "pid" THEN [before EXCEPT ![fd] = File("master", TRUE)]
                                ELSE before
    BY <2>1 DEF ParentLeaksNothing
  <2>2. heap <=> ret = "pid"
    BY DEF Inv, ParentOK
  <2>3. pfds \in [Fd -> Entry] /\ before \in [Fd -> Entry]
    BY <2>1 DEF TypeOK
  <2>4. \A n \in Fd : pfds[n] = IF n = fd /\ ret = "pid" THEN File("master", TRUE) ELSE before[n]
    BY DEF Inv, ParentOK, ParentEntry
  <2>5. CASE ret = "pid"
    <3>1. pfds = [before EXCEPT ![fd] = File("master", TRUE)]
      BY <2>3, <2>4, <2>5
    <3> QED BY <2>2, <2>5, <3>1
  <2>6. CASE ret # "pid"
    <3>1. pfds = before
      BY <2>3, <2>4, <2>6
    <3> QED BY <2>2, <2>6, <3>1
  <2> QED BY <2>5, <2>6
<1> QED BY <1>1, AlwaysInv, PTL

\* pty_recv() gives the parent a success only for a child whose standard
\* files are the slave, and if the caller had its standard files open, no
\* child returns from shl_pty_open() while the parent reports a failure.
THEOREM HandshakeIsReliable == Spec => []HandshakeAgrees
<1>1. Inv => HandshakeAgrees
  <2> SUFFICES ASSUME Inv PROVE HandshakeAgrees
    OBVIOUS
  <2>1. ASSUME ret = "pid", cpc # "dead", NEW n \in Std PROVE cfds[n].obj = "slave"
    <3>1. cpc \in {"close_w", "returned"}
      BY <2>1 DEF Inv, SetupOK, TypeOK, Early, Fresh
    <3>2. cpc = "close_w" => n \in Replaced
      BY DEF Replaced
    <3> QED BY <2>1, <3>1, <3>2 DEF Inv, SetupOK
  <2>2. StdOpen /\ cpc = "returned" /\ ppc = "done" => ret = "pid"
    BY DEF Inv, WakeOK
  <2> QED BY <2>1, <2>2 DEF HandshakeAgrees
<1> QED BY <1>1, AlwaysInv, PTL

\* The child of a caller with open standard files returns from
\* shl_pty_open() with the slave as 0, 1 and 2 and otherwise exactly the
\* caller's descriptors.
THEOREM ChildFilesAreClean == Spec => []ChildFilesClean
<1>1. Inv => ChildFilesClean
  <2> SUFFICES ASSUME Inv, StdOpen, cpc = "returned", NEW n \in Fd
               PROVE  cfds[n] = IF n \in Std THEN File("slave", FALSE) ELSE before[n]
    BY DEF ChildFilesClean
  <2>1. cfds[n] = ChildEntry(n)
    BY DEF Inv, TableOK
  <2>2. Replaced = Std
    BY DEF Replaced
  <2> QED BY <2>1, <2>2 DEF ChildEntry, Fresh, Early
<1> QED BY <1>1, AlwaysInv, PTL
=============================================================================
