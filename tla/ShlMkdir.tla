------------------------------ MODULE ShlMkdir ------------------------------
(***************************************************************************)
(* shl_mkdir_p() and shl_mkdir_p_prefix() of src/shl_util.c: processes     *)
(* that create directories with their parents, one system call at a time,  *)
(* while the others do the same and somebody else creates files and        *)
(* removes directories.                                                    *)
(*                                                                         *)
(* A path is the sequence of its components; slashes are not modelled.     *)
(***************************************************************************)
EXTENDS Integers, Sequences, SequencesExt

CONSTANTS
    Process,
    Path,        \* the path each process creates
    Prefix,      \* its prefix, << >> for shl_mkdir_p()
    Existing     \* sets of directories that may exist at first

VARIABLES
    tree,      \* what each path is: a directory, a file or nothing
    pc, depth, \* where each process is, and the components it has passed
    ret,       \* the result: 0 or an error
    made,      \* the directories each process has created
    had,       \* the prefix was a directory when the process began
    removed    \* a directory was removed

vars == <<tree, pc, depth, ret, made, had, removed>>

\* The names of directories that occur in them.
Name == UNION {ToSet(Path[p]) \cup ToSet(Prefix[p]) : p \in Process}

\* All paths that matter.
Place == UNION {{SubSeq(Path[p], 1, n) : n \in 1..Len(Path[p])} : p \in Process}

IsDir(path) == path = << >> \/ tree[path] = "dir"

\* The errors of mkdir(), and 0 (external: the kernel).
MkdirResult(path) ==
    CASE tree[path] # "none" -> "EEXIST"
      [] tree[path] = "none" /\ IsDir(Front(path)) -> "0"
      [] OTHER -> "ENOENT or ENOTDIR"

Mkdir(p, path) ==
    IF MkdirResult(path) = "0"
    THEN tree' = [tree EXCEPT ![path] = "dir"] /\ made' = [made EXCEPT ![p] = @ \cup {path}]
    ELSE UNCHANGED <<tree, made>>

Goto(p, l) == pc' = [pc EXCEPT ![p] = l]

Return(p, r) == Goto(p, "done") /\ ret' = [ret EXCEPT ![p] = r]

\* The prefix must be one (pure), and a path with one component has no
\* parents.
Begin(p) ==
    /\ pc[p] = "start"
    /\ IF ~IsPrefix(Prefix[p], Path[p]) THEN Return(p, "ENOTDIR")
       ELSE Goto(p, IF Len(Path[p]) = 1 THEN "mkdir" ELSE "stat") /\ UNCHANGED ret
    /\ had' = [had EXCEPT ![p] = Prefix[p] = << >> \/ (Prefix[p] \in Place /\ IsDir(Prefix[p]))]
    /\ UNCHANGED <<tree, depth, made, removed>>

\* The parent is looked at first.
StatParent(p) ==
    /\ pc[p] = "stat"
    /\ LET parent == Front(Path[p])
       IN  IF tree[parent] = "file" THEN Return(p, "ENOTDIR")
           ELSE Goto(p, IF IsDir(parent) THEN "mkdir" ELSE "parents") /\ UNCHANGED ret
    /\ UNCHANGED <<tree, depth, made, had, removed>>

\* Mutant of Tolerated: somebody else was faster, and that is an error.
ToleratedNever(e) == e = "0"

\* The results of mkdir() that the loop over the parents goes on after.
Tolerated(e) == e \in {"0", "EEXIST"}

\* One round of the loop of shl__mkdir_parents(): components of the prefix
\* are passed over.
MkdirParent(p) ==
    /\ pc[p] = "parents"
    /\ LET n == depth[p] + 1
           t == SubSeq(Path[p], 1, n)
       IN  IF n = Len(Path[p])
           THEN Goto(p, "mkdir") /\ UNCHANGED <<tree, made, depth, ret>>
           ELSE IF IsPrefix(t, Prefix[p])
           THEN depth' = [depth EXCEPT ![p] = n] /\ UNCHANGED <<tree, made, pc, ret>>
           ELSE /\ Mkdir(p, t)
                /\ IF Tolerated(MkdirResult(t))
                   THEN depth' = [depth EXCEPT ![p] = n] /\ UNCHANGED <<pc, ret>>
                   ELSE Return(p, MkdirResult(t)) /\ UNCHANGED depth
    /\ UNCHANGED <<had, removed>>

\* shl__mkdir_p() itself.
MkdirLast(p) ==
    /\ pc[p] = "mkdir"
    /\ Mkdir(p, Path[p])
    /\ CASE MkdirResult(Path[p]) = "0" -> Return(p, "0")
         [] MkdirResult(Path[p]) = "EEXIST" -> Goto(p, "exists") /\ UNCHANGED ret
         [] OTHER -> Return(p, MkdirResult(Path[p]))
    /\ UNCHANGED <<depth, had, removed>>

\* What exists must be a directory.  If it is gone again, the error is that
\* of stat(), otherwise still that of mkdir().
StatLast(p) ==
    /\ pc[p] = "exists"
    /\ Return(p, CASE tree[Path[p]] = "dir"  -> "0"
                   [] tree[Path[p]] = "file" -> "EEXIST"
                   [] OTHER -> "ENOENT or ENOTDIR")
    /\ UNCHANGED <<tree, depth, made, had, removed>>

\* Somebody else creates a file, and removes an empty directory, once.
CreateFile(path) ==
    /\ \A q \in Place : tree[q] # "file"
    /\ MkdirResult(path) = "0"
    /\ tree' = [tree EXCEPT ![path] = "file"]
    /\ UNCHANGED <<pc, depth, ret, made, had, removed>>

RemoveDir(path) ==
    /\ ~removed /\ tree[path] = "dir"
    /\ \A q \in Place : q # << >> /\ Front(q) = path => tree[q] = "none"
    /\ tree' = [tree EXCEPT ![path] = "none"]
    /\ removed' = TRUE
    /\ UNCHANGED <<pc, depth, ret, made, had>>

Init ==
    /\ \E dirs \in Existing : tree = [q \in Place |-> IF q \in dirs THEN "dir" ELSE "none"]
    /\ pc = [p \in Process |-> "start"]
    /\ depth = [p \in Process |-> 0]
    /\ ret = [p \in Process |-> "0"]
    /\ made = [p \in Process |-> {}]
    /\ had = [p \in Process |-> FALSE]
    /\ removed = FALSE

Next ==
    \/ \E p \in Process : \/ Begin(p) \/ StatParent(p) \/ MkdirParent(p)
                          \/ MkdirLast(p) \/ StatLast(p)
    \/ \E path \in Place : CreateFile(path) \/ RemoveDir(path)

\* A component of the path is a file.
FileInTheWay(p) == \E n \in 1..Len(Path[p]) : tree[SubSeq(Path[p], 1, n)] = "file"

\* A process that is told of success has its directory, and one that is told
\* of a failure met a file in its way or had no prefix to begin with, however
\* many others create the same directories at the same time - unless somebody
\* removes one.  No process creates its prefix or a parent of it, unless that
\* is the very directory it is asked for.
MkdirDone ==
    \A p \in Process :
        /\ pc[p] = "done" /\ ~removed =>
             IF ret[p] = "0" THEN IsDir(Path[p])
             ELSE FileInTheWay(p) \/ ~had[p] \/ ~IsPrefix(Prefix[p], Path[p])
        /\ \A q \in made[p] : q = Path[p] \/ ~IsPrefix(q, Prefix[p])
=============================================================================
