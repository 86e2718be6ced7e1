----------------------------- MODULE ShlPtyOpen -----------------------------
(***************************************************************************)
(* shl_pty_open() of src/shl_pty.c: the parent opens a pty master and a    *)
(* pipe, forks, and waits on the pipe until the child has made the slave   *)
(* its controlling terminal and its standard files.  Every step may fail   *)
(* and the child may be killed at any time.                                *)
(*                                                                         *)
(* The file descriptor tables of both processes are modelled with their    *)
(* numbers: a new descriptor is always the lowest free one, and the code   *)
(* treats 0, 1 and 2 specially.                                            *)
(***************************************************************************)
EXTENDS Integers, Sequences, FiniteSetsExt

CONSTANTS
    MaxFd,     \* largest descriptor number of a process
    CallerFds  \* the sets of descriptors a caller may have open

Std == {0, 1, 2}

ASSUME FdAssumption ==
    /\ MaxFd \in Nat /\ MaxFd >= 2    \* the standard files are descriptors
    /\ CallerFds \subseteq SUBSET (0..MaxFd)

VARIABLES
    ppc,      \* next step of the parent
    cpc,      \* next step of the child
    pfds,     \* descriptor table of the parent
    cfds,     \* descriptor table of the child
    fd,       \* the parent's fd, copied by fork()
    comm,     \* the parent's comm[], copied by fork()
    slave,    \* the child's slave
    pipe,     \* bytes in the pipe
    tty,      \* bytes the child has written to the terminal
    heap,     \* the parent's struct shl_pty is allocated
    ret,      \* what the parent returns: "pid" or "error"
    before    \* descriptor table of the caller

pvars == <<ppc, pfds, fd, comm, heap, ret, before>>
cvars == <<cpc, cfds, slave, tty>>
vars  == <<ppc, cpc, pfds, cfds, fd, comm, slave, pipe, tty, heap, ret, before>>

SHL_PTY_FAILED == 0
SHL_PTY_SETUP  == 1

(***************************************************************************)
(* Descriptor tables (external: the kernel)                                *)
(***************************************************************************)

Fd     == 0..MaxFd
Object == {"none", "other", "master", "pipe_r", "pipe_w", "slave"}
Entry  == [obj : Object, cloexec : BOOLEAN]
Closed == [obj |-> "none", cloexec |-> FALSE]
Empty  == [n \in Fd |-> Closed]

Unused(t) == {n \in Fd : t[n] = Closed}
Lowest(t) == Min(Unused(t))

File(obj, cloexec) == [obj |-> obj, cloexec |-> cloexec]

Close(t, n) == [t EXCEPT ![n] = Closed]

\* dup2() to the same number changes nothing; otherwise the copy does not
\* have the close-on-exec flag.
Dup2(t, from, to) == IF from = to THEN t ELSE [t EXCEPT ![to] = File(t[from].obj, FALSE)]

HasWriter == \E n \in Fd : pfds[n].obj = "pipe_w" \/ cfds[n].obj = "pipe_w"

(***************************************************************************)
(* The parent                                                              *)
(***************************************************************************)

ParentFails == ppc' = "done" /\ ret' = "error" /\ heap' = FALSE

Calloc ==
    /\ ppc = "calloc"
    /\ \/ ppc' = "openpt" /\ heap' = TRUE /\ UNCHANGED ret
       \/ ParentFails
    /\ UNCHANGED <<pfds, fd, comm, before, pipe, cvars>>

OpenPt ==
    /\ ppc = "openpt"
    /\ \/ /\ Unused(pfds) # {}
          /\ fd' = Lowest(pfds)
          /\ pfds' = [pfds EXCEPT ![fd'] = File("master", TRUE)]
          /\ ppc' = "pipe2"
          /\ UNCHANGED <<heap, ret>>
       \/ ParentFails /\ UNCHANGED <<pfds, fd>>
    /\ UNCHANGED <<comm, before, pipe, cvars>>

Pipe2 ==
    /\ ppc = "pipe2"
    /\ \/ /\ \E r, w \in Unused(pfds) :
                /\ r < w
                /\ \A n \in Unused(pfds) \ {r} : r < n /\ w <= n
                /\ comm' = <<r, w>>
                /\ pfds' = [pfds EXCEPT ![r] = File("pipe_r", TRUE), ![w] = File("pipe_w", TRUE)]
          /\ ppc' = "fork"
          /\ UNCHANGED <<heap, ret>>
       \/ ParentFails /\ pfds' = Close(pfds, fd) /\ UNCHANGED comm
    /\ UNCHANGED <<fd, before, pipe, cvars>>

Fork ==
    /\ ppc = "fork"
    /\ \/ /\ ppc' = "close_w"
          /\ cpc' = "close_r"
          /\ cfds' = pfds
          /\ UNCHANGED <<pfds, heap, ret>>
       \/ /\ ParentFails
          /\ pfds' = Close(Close(Close(pfds, comm[1]), comm[2]), fd)
          /\ UNCHANGED <<cpc, cfds>>
    /\ UNCHANGED <<fd, comm, before, slave, tty, pipe>>

\* The parent must not keep the end of the pipe the child writes to, or it
\* would never see the end of the file.
ParentCloseW ==
    /\ ppc = "close_w"
    /\ pfds' = Close(pfds, comm[2])
    /\ ppc' = "recv"
    /\ UNCHANGED <<fd, comm, heap, ret, before, pipe, cvars>>

\* Mutant of pty_recv: the end of the file is taken for an interrupted call.
RecvUntilByte(d) == pipe # << >> /\ d = Head(pipe) /\ pipe' = Tail(pipe)

\* pty_recv() blocks until there is a byte or no writer is left; a signal
\* only makes it try again.
pty_recv(d) ==
    \/ pipe # << >> /\ d = Head(pipe) /\ pipe' = Tail(pipe)
    \/ pipe = << >> /\ ~HasWriter /\ d = SHL_PTY_FAILED /\ UNCHANGED pipe

\* Mutant of Recv: the master is not closed when the child has failed.
RecvKeepsMaster ==
    /\ ppc = "recv"
    /\ ppc' = "done"
    /\ \E d \in {SHL_PTY_FAILED, SHL_PTY_SETUP} :
         /\ pty_recv(d)
         /\ pfds' = Close(pfds, comm[1])
         /\ ret' = IF d = SHL_PTY_SETUP THEN "pid" ELSE "error"
         /\ heap' = (d = SHL_PTY_SETUP)
    /\ UNCHANGED <<fd, comm, before, cvars>>

Recv ==
    /\ ppc = "recv"
    /\ ppc' = "done"
    /\ \E d \in {SHL_PTY_FAILED, SHL_PTY_SETUP} :
         /\ pty_recv(d)
         /\ IF d = SHL_PTY_SETUP
            THEN ret' = "pid" /\ pfds' = Close(pfds, comm[1]) /\ UNCHANGED heap
            ELSE /\ ret' = "error"
                 /\ pfds' = Close(Close(pfds, comm[1]), fd)
                 /\ heap' = FALSE
    /\ UNCHANGED <<fd, comm, before, cvars>>

(***************************************************************************)
(* The child                                                               *)
(***************************************************************************)

CloseR ==
    /\ cpc = "close_r"
    /\ cfds' = Close(cfds, comm[1])
    /\ cpc' = "init"
    /\ UNCHANGED <<pvars, slave, tty, pipe>>

\* pty_init_child() up to opening the slave.  A failure leaves slave < 0.
InitChild ==
    /\ cpc = "init"
    /\ \/ /\ Unused(cfds) # {}
          /\ slave' = Lowest(cfds)
          /\ cfds' = [cfds EXCEPT ![slave'] = File("slave", TRUE)]
          /\ cpc' = "setsid"
       \/ slave' = -1 /\ cpc' = "close_master" /\ UNCHANGED cfds
    /\ UNCHANGED <<pvars, tty, pipe>>

\* The rest of pty_init_child(): setsid() and TIOCSCTTY.
Setsid ==
    /\ cpc = "setsid"
    /\ cpc' = "close_master"
    /\ \/ UNCHANGED <<slave, cfds>>
       \/ slave' = -1 /\ cfds' = Close(cfds, slave)
    /\ UNCHANGED <<pvars, tty, pipe>>

Exit == cpc' = "dead" /\ cfds' = Empty

\* Mutant of CloseMaster: the parent is woken before the terminal is set up.
WakeTooEarly ==
    /\ cpc = "close_master"
    /\ IF slave < 0 THEN Exit /\ UNCHANGED pipe
       ELSE /\ cpc' = "dup0"
            /\ cfds' = Close(cfds, fd)
            /\ pipe' = Append(pipe, SHL_PTY_SETUP)
    /\ UNCHANGED <<pvars, slave, tty>>

CloseMaster ==
    /\ cpc = "close_master"
    /\ IF slave < 0 THEN Exit ELSE cpc' = "dup0" /\ cfds' = Close(cfds, fd)
    /\ UNCHANGED <<pvars, slave, tty, pipe>>

\* pty_setup_child(): the terminal settings (which may fail too), then one
\* dup2() after the other.
SetupStep(pc, to, next) ==
    /\ cpc = pc
    /\ \/ cpc' = next /\ cfds' = Dup2(cfds, slave, to)
       \/ Exit
    /\ UNCHANGED <<pvars, slave, tty, pipe>>

SetupChild ==
    \/ SetupStep("dup0", 0, "dup1")
    \/ SetupStep("dup1", 1, "dup2")
    \/ SetupStep("dup2", 2, "close_slave")

\* Mutant of CloseSlave: the slave is left open.
KeepSlave ==
    /\ cpc = "close_slave"
    /\ cpc' = "send"
    /\ UNCHANGED <<pvars, cfds, slave, tty, pipe>>

CloseSlave ==
    /\ cpc = "close_slave"
    /\ cfds' = IF slave > 2 THEN Close(cfds, slave) ELSE cfds
    /\ cpc' = "send"
    /\ UNCHANGED <<pvars, slave, tty, pipe>>

\* pty_send() writes to whatever comm[1] is by now; its result is ignored.
Send ==
    /\ cpc = "send"
    /\ LET obj == cfds[comm[2]].obj
       IN  /\ pipe' = IF obj = "pipe_w" THEN Append(pipe, SHL_PTY_SETUP) ELSE pipe
           /\ tty' = IF obj = "slave" THEN Append(tty, SHL_PTY_SETUP) ELSE tty
    /\ cpc' = "close_w"
    /\ UNCHANGED <<pvars, cfds, slave>>

ChildCloseW ==
    /\ cpc = "close_w"
    /\ cfds' = Close(cfds, comm[2])
    /\ cpc' = "returned"
    /\ UNCHANGED <<pvars, slave, tty, pipe>>

\* A signal kills the child; all its descriptors are closed.
Killed ==
    /\ cpc \notin {"none", "dead"}
    /\ Exit
    /\ UNCHANGED <<pvars, slave, tty, pipe>>

(***************************************************************************)
(* The specification                                                       *)
(***************************************************************************)

Init ==
    /\ ppc = "calloc"
    /\ cpc = "none"
    /\ \E open \in CallerFds :
         pfds = [n \in Fd |-> IF n \in open THEN File("other", FALSE) ELSE Closed]
    /\ cfds = Empty
    /\ fd = -1
    /\ comm = <<-1, -1>>
    /\ slave = -1
    /\ pipe = << >>
    /\ tty = << >>
    /\ heap = FALSE
    /\ ret = "none"
    /\ before = pfds

Parent == Calloc \/ OpenPt \/ Pipe2 \/ Fork \/ ParentCloseW \/ Recv

Child ==
    \/ CloseR \/ InitChild \/ Setsid \/ CloseMaster \/ SetupChild
    \/ CloseSlave \/ Send \/ ChildCloseW

Next == Parent \/ Child \/ Killed

\* Both processes are scheduled by the kernel as long as they can run.
Spec == Init /\ [][Next]_vars /\ WF_vars(Parent) /\ WF_vars(Child)

(***************************************************************************)
(* Properties                                                              *)
(***************************************************************************)

TypeOK ==
    /\ ppc \in {"calloc", "openpt", "pipe2", "fork", "close_w", "recv", "done"}
    /\ cpc \in {"none", "close_r", "init", "setsid", "close_master", "dup0", "dup1", "dup2",
                "close_slave", "send", "close_w", "returned", "dead"}
    /\ pfds \in [Fd -> Entry]
    /\ cfds \in [Fd -> Entry]
    /\ before \in [Fd -> Entry]
    /\ fd \in Fd \cup {-1}
    /\ slave \in Fd \cup {-1}
    /\ comm \in (Fd \cup {-1}) \X (Fd \cup {-1})
    /\ pipe \in Seq({SHL_PTY_SETUP})
    /\ tty \in Seq({SHL_PTY_SETUP})
    /\ heap \in BOOLEAN
    /\ ret \in {"none", "pid", "error"}

\* On every path the parent returns with the descriptors it was called with,
\* plus the master if it succeeds, and keeps the pty only if it succeeds.
ParentLeaksNothing ==
    /\ TypeOK
    /\ ppc = "done" =>
        /\ heap <=> ret = "pid"
        /\ pfds = IF ret = "pid" THEN [before EXCEPT ![fd] = File("master", TRUE)] ELSE before

\* The caller has all standard descriptors open.  Otherwise the pipe or the
\* slave may get one of them, and dup2() replaces it.
StdOpen == \A n \in Std : before[n] # Closed

\* shl_pty_open() returns a pid to the parent only if the terminal of the
\* child is set up (or the child has died since), and the child goes on to
\* run the caller's program only if the parent learns about it ("wake parent",
\* src/shl_pty.c:434-436).
HandshakeAgrees ==
    /\ ret = "pid" /\ cpc # "dead" => \A n \in Std : cfds[n].obj = "slave"
    /\ StdOpen /\ cpc = "returned" /\ ppc = "done" => ret = "pid"

\* A child that returns from shl_pty_open() has the slave as its standard
\* files, also after an exec(), and otherwise the descriptors the caller had:
\* neither the master nor the pipe nor a second copy of the slave.
ChildFilesClean ==
    StdOpen /\ cpc = "returned" =>
        \A n \in Fd : cfds[n] = IF n \in Std THEN File("slave", FALSE) ELSE before[n]

\* The parent never waits forever, whatever fails or dies on the other side.
ParentReturns == <>(ppc = "done")
=============================================================================
