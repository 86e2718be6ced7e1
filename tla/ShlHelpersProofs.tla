-------------------------- MODULE ShlHelpersProofs --------------------------
(***************************************************************************)
(* Proofs about ShlHelpers: shl_mkdir_p() for any number of processes and  *)
(* any paths; the buffer of src/shl_buf.h and the zeroed array for any     *)
(* sizes; the lists of src/shl_dlist.h and the loops over them for any     *)
(* number of lists and elements; the rate limits of src/shl_util.c for any *)
(* interval, burst and clock.                                              *)
(***************************************************************************)
EXTENDS ShlHelpers, SequenceTheorems, NaturalsInduction, WellFoundedInduction, TLAPS

(***************************************************************************)
(* Creating directories: the inductive invariant                           *)
(***************************************************************************)

Place  == Directories!Place
PCs    == {"start", "stat", "parents", "mkdir", "exists", "done"}
Errors == {"0", "ENOTDIR", "EEXIST", "ENOENT or ENOTDIR"}

\* The first n components of a path.
Upto(q, n) == SubSeq(q, 1, n)

TreeType == tree \in [Place -> {"dir", "file", "none"}]

ProcType ==
    /\ pc \in [Process -> PCs] /\ depth \in [Process -> Nat] /\ ret \in [Process -> Errors]
    /\ made \in [Process -> SUBSET Place] /\ had \in [Process -> BOOLEAN] /\ removed \in BOOLEAN

\* Everything is below directories.
TreeOK ==
    \A q \in Place : tree[q] # "none" => \A n \in 1..(Len(q) - 1) : tree[Upto(q, n)] = "dir"

DirAt(p, n) == n = 0 \/ tree[Upto(Path[p], n)] = "dir"

FileAt(p) == \E n \in 1..Len(Path[p]) : tree[Upto(Path[p], n)] = "file"

Fits(p) == Directories!IsPrefix(Prefix[p], Path[p])

\* The prefix is still there if it was there and nothing was removed.
PrefixOK(p) ==
    pc[p] # "start" /\ ~removed /\ had[p] =>
        Prefix[p] = << >> \/ (Prefix[p] \in Place /\ tree[Prefix[p]] = "dir")

\* Where a process is: it has created, or found, the components it has passed
\* - unless a file is in its way - and will meet what it has seen.
PositionOK(p) ==
    /\ pc[p] \notin {"start", "done"} => Fits(p)
    /\ pc[p] \in {"start", "stat"} => depth[p] = 0
    /\ pc[p] \in {"stat", "parents"} => depth[p] < Len(Path[p]) /\ Len(Path[p]) > 1
    /\ pc[p] = "parents" /\ ~removed /\ had[p] => DirAt(p, depth[p]) \/ FileAt(p)
    /\ pc[p] = "mkdir" /\ ~removed /\ had[p] => DirAt(p, Len(Path[p]) - 1) \/ FileAt(p)
    /\ pc[p] = "exists" /\ ~removed => tree[Path[p]] # "none"

\* What it is told is true, and it creates nothing it must not create.
ResultOK(p) ==
    /\ pc[p] = "done" /\ ~removed =>
          IF ret[p] = "0" THEN tree[Path[p]] = "dir" ELSE FileAt(p) \/ ~had[p] \/ ~Fits(p)
    /\ \A q \in made[p] : q = Path[p] \/ ~Directories!IsPrefix(q, Prefix[p])

ProcOK(p) == PrefixOK(p) /\ PositionOK(p) /\ ResultOK(p)

DirInv == TreeType /\ ProcType /\ TreeOK /\ \A p \in Process : ProcOK(p)

(***************************************************************************)
(* Creating directories: paths                                             *)
(***************************************************************************)

\* The first components of a sequence.
LEMMA UptoSeq ==
    ASSUME NEW S, NEW q \in Seq(S), NEW n \in 0..Len(q)
    PROVE  /\ Upto(q, n) \in Seq(S) /\ Len(Upto(q, n)) = n
           /\ \A m \in 0..n : Upto(Upto(q, n), m) = Upto(q, m)
           /\ Upto(q, Len(q)) = q
           /\ Upto(q, 0) = << >>
<1>1. /\ Upto(q, n) \in Seq(S) /\ Len(Upto(q, n)) = n
      /\ \A i \in 1..n : Upto(q, n)[i] = q[i]
  BY DEF Upto
<1>2. \A m \in 0..n : Upto(Upto(q, n), m) = Upto(q, m)
  BY DEF Upto
<1>3. Upto(q, Len(q)) = q
  BY DEF Upto
<1>4. Upto(q, 0) = << >>
  BY DEF Upto
<1> QED BY <1>1, <1>2, <1>3, <1>4

\* The paths of the processes, and what leads to them.
LEMMA PathFacts ==
    ASSUME NEW p \in Process
    PROVE  /\ Path[p] \in Seq(Directories!Name) /\ Len(Path[p]) \in Nat /\ Len(Path[p]) >= 1
           /\ Prefix[p] \in Seq(Directories!Name)
           /\ \A n \in 1..Len(Path[p]) : Upto(Path[p], n) \in Place
           /\ Path[p] \in Place
<1>1. Path[p] \in Seq(Directories!Name) /\ Path[p] # << >> /\ Prefix[p] \in Seq(Directories!Name)
  BY PathsAssumption
<1>2. Len(Path[p]) \in Nat /\ Len(Path[p]) >= 1
  BY <1>1
<1>3. \A n \in 1..Len(Path[p]) : Upto(Path[p], n) \in Place
  BY DEF Place, Directories!Place, Upto
<1>4. Path[p] \in Place
  BY <1>1, <1>2, <1>3, UptoSeq
<1> QED BY <1>1, <1>2, <1>3, <1>4

\* What leads to a place is a place.
LEMMA PlaceFacts ==
    ASSUME NEW q \in Place
    PROVE  /\ q \in Seq(Directories!Name) /\ Len(q) \in Nat /\ Len(q) >= 1 /\ q # << >>
           /\ \A n \in 1..Len(q) : /\ Upto(q, n) \in Place /\ Len(Upto(q, n)) = n
                                   /\ \A m \in 1..n : Upto(Upto(q, n), m) = Upto(q, m)
           /\ Upto(q, Len(q)) = q
           /\ Directories!Front(q) = Upto(q, Len(q) - 1)
           /\ Len(q) = 1 => Directories!Front(q) = << >>
           /\ Len(q) > 1 => Directories!Front(q) # << >>
<1>0. PICK p \in Process : q \in {SubSeq(Path[p], 1, n) : n \in 1..Len(Path[p])}
  BY DEF Place, Directories!Place
<1>1. PICK k \in 1..Len(Path[p]) : q = Upto(Path[p], k)
  BY <1>0 DEF Upto
<1>2. Path[p] \in Seq(Directories!Name) /\ \A n \in 1..Len(Path[p]) : Upto(Path[p], n) \in Place
  BY PathFacts
<1>3. q \in Seq(Directories!Name) /\ Len(q) = k
  BY <1>1, <1>2, UptoSeq
<1>4. \A n \in 1..k : Upto(q, n) = Upto(Path[p], n)
  BY <1>1, <1>2, UptoSeq
<1>5. \A n \in 1..k : Upto(q, n) \in Place
  BY <1>2, <1>4
<1>6. \A n \in 1..Len(q) : Len(Upto(q, n)) = n /\ \A m \in 1..n : Upto(Upto(q, n), m) = Upto(q, m)
  BY <1>3, UptoSeq
<1>7. Directories!Front(q) = Upto(q, Len(q) - 1)
  BY DEF Directories!Front, Upto
<1>8. Upto(q, Len(q)) = q /\ Upto(q, 0) = << >> /\ Len(Upto(q, Len(q) - 1)) = Len(q) - 1
  BY <1>3, UptoSeq
<1>9. Len(q) > 1 => Directories!Front(q) # << >>
  BY <1>3, <1>7, <1>8
<1>10. q # << >> /\ Len(q) \in Nat /\ Len(q) >= 1
  BY <1>3
<1>11. Len(q) = 1 => Directories!Front(q) = << >>
  BY <1>7, <1>8
<1> QED BY <1>3, <1>5, <1>6, <1>7, <1>8, <1>9, <1>10, <1>11

\* A file in the way, as the property says it.
LEMMA FileAtIs ==
    ASSUME NEW p \in Process
    PROVE  FileAt(p) <=> Directories!FileInTheWay(p)
BY DEF FileAt, Directories!FileInTheWay, Upto

(***************************************************************************)
(* Creating directories: the tree                                          *)
(***************************************************************************)

\* Something new in an existing directory leaves a tree.
LEMMA CreateTree ==
    ASSUME TreeType, TreeOK, NEW q \in Place, tree[q] = "none",
           Directories!IsDir(Directories!Front(q)),
           NEW v \in {"dir", "file"}, tree' = [tree EXCEPT ![q] = v]
    PROVE  /\ TreeType' /\ TreeOK'
           /\ \A x \in Place : tree'[x] = IF x = q THEN v ELSE tree[x]
<1>1. TreeType' /\ \A x \in Place : tree'[x] = IF x = q THEN v ELSE tree[x]
  BY DEF TreeType, Place
<1>2. TreeOK'
  <2> SUFFICES ASSUME NEW x \in Place, tree'[x] # "none", NEW n \in 1..(Len(x) - 1)
               PROVE  tree'[Upto(x, n)] = "dir"
    BY DEF TreeOK, Place
  <2>1. Len(x) \in Nat /\ Upto(x, n) \in Place /\ Len(Upto(x, n)) = n /\ Upto(x, n) # x
    BY PlaceFacts
  <2>2. tree[Upto(x, n)] = "dir"
    <3>1. CASE x # q
      BY <1>1, <3>1 DEF TreeOK
    <3>2. CASE x = q
      <4>1. PICK f \in Place : f = Directories!Front(q)
        BY <2>1, <3>2, PlaceFacts
      <4>2. tree[f] = "dir" /\ f = Upto(q, Len(q) - 1) /\ Len(f) = Len(q) - 1
        BY <2>1, <3>2, <4>1, PlaceFacts DEF Directories!IsDir
      <4>3. CASE n = Len(q) - 1
        BY <3>2, <4>2, <4>3
      <4>4. CASE n # Len(q) - 1
        <5>1. n \in 1..(Len(f) - 1)
          BY <2>1, <3>2, <4>2, <4>4
        <5>2. Upto(f, n) = Upto(q, n)
          <6>1. Len(q) - 1 \in 1..Len(q) /\ n \in 1..(Len(q) - 1)
            BY <2>1, <3>2
          <6>2. Upto(Upto(q, Len(q) - 1), n) = Upto(q, n)
            BY <6>1, PlaceFacts
          <6> QED BY <4>2, <6>2
        <5>3. tree[Upto(f, n)] = "dir"
          BY <4>2, <5>1 DEF TreeOK
        <5> QED BY <3>2, <5>2, <5>3
      <4> QED BY <4>3, <4>4
    <3> QED BY <3>1, <3>2
  <2>3. Upto(x, n) # q
    BY <2>2
  <2> QED BY <1>1, <2>1, <2>2, <2>3
<1> QED BY <1>1, <1>2

\* Removing an empty directory leaves a tree.
LEMMA RemoveTree ==
    ASSUME TreeType, TreeOK, NEW q \in Place, tree[q] = "dir",
           \A x \in Place : x # << >> /\ Directories!Front(x) = q => tree[x] = "none",
           tree' = [tree EXCEPT ![q] = "none"]
    PROVE  /\ TreeType' /\ TreeOK'
           /\ \A x \in Place : tree'[x] = IF x = q THEN "none" ELSE tree[x]
<1>1. TreeType' /\ \A x \in Place : tree'[x] = IF x = q THEN "none" ELSE tree[x]
  BY DEF TreeType, Place
<1>2. TreeOK'
  <2> SUFFICES ASSUME NEW x \in Place, tree'[x] # "none", NEW n \in 1..(Len(x) - 1)
               PROVE  tree'[Upto(x, n)] = "dir"
    BY DEF TreeOK, Place
  <2>1. x # q /\ tree[x] # "none" /\ Len(x) \in Nat
    BY <1>1, PlaceFacts
  <2>2. Upto(x, n) \in Place /\ tree[Upto(x, n)] = "dir"
    BY <2>1, PlaceFacts DEF TreeOK
  <2>3. ASSUME Upto(x, n) = q PROVE FALSE
    <3>1. n + 1 \in 1..Len(x) /\ n \in 1..(n + 1)
      BY <2>1
    <3>2. PICK c \in Place : c = Upto(x, n + 1)
      BY <3>1, PlaceFacts
    <3>3. Len(c) = n + 1 /\ Upto(c, n) = q
      BY <2>3, <3>1, <3>2, PlaceFacts
    <3>4. c # << >> /\ Directories!Front(c) = q
      <4>1. Len(c) - 1 = n
        BY <3>3
      <4> QED BY <3>3, <4>1, PlaceFacts
    <3>5. tree[c] = "none"
      BY <3>4
    <3>6. CASE n + 1 = Len(x)
      BY <2>1, <3>2, <3>5, <3>6, PlaceFacts
    <3>7. CASE n + 1 # Len(x)
      <4>1. n + 1 \in 1..(Len(x) - 1)
        BY <2>1, <3>1, <3>7
      <4>2. tree[Upto(x, n + 1)] = "dir"
        BY <2>1, <4>1 DEF TreeOK
      <4> QED BY <3>2, <3>5, <4>2
    <3> QED BY <3>6, <3>7
  <2> QED BY <1>1, <2>2, <2>3
<1> QED BY <1>1, <1>2

\* What a step of anybody may do to the tree: files stay, and directories
\* stay unless something is removed.
Evolves ==
    /\ TreeType' /\ TreeOK' /\ removed' \in BOOLEAN
    /\ removed => removed'
    /\ \A q \in Place : /\ tree[q] = "file" => tree'[q] = "file"
                        /\ ~removed' /\ tree[q] = "dir" => tree'[q] = "dir"

\* The facts about a process that only the tree can change survive its
\* evolution.
LEMMA EvolvesKeeps ==
    ASSUME TreeType, ProcType, Evolves, NEW p \in Process
    PROVE  /\ FileAt(p) => FileAt(p)'
           /\ ~removed' => /\ ~removed
                           /\ \A n \in 0..Len(Path[p]) : DirAt(p, n) => DirAt(p, n)'
                           /\ tree[Path[p]] = "dir" => tree'[Path[p]] = "dir"
                           /\ tree[Path[p]] # "none" => tree'[Path[p]] # "none"
                           /\ Prefix[p] \in Place /\ tree[Prefix[p]] = "dir" =>
                                 tree'[Prefix[p]] = "dir"
<1>0. \A q \in Place : /\ tree[q] = "file" => tree'[q] = "file"
                       /\ ~removed' /\ tree[q] = "dir" => tree'[q] = "dir"
  BY Zenon DEF Evolves
<1>1. FileAt(p) => FileAt(p)'
  <2> SUFFICES ASSUME NEW n \in 1..Len(Path[p]), tree[Upto(Path[p], n)] = "file"
               PROVE  tree'[Upto(Path[p], n)] = "file"
    BY DEF FileAt
  <2>1. Upto(Path[p], n) \in Place
    BY PathFacts
  <2> QED BY ONLY <1>0, <2>1, tree[Upto(Path[p], n)] = "file"
<1>2. ASSUME ~removed'
      PROVE  ~removed /\ \A n \in 0..Len(Path[p]) : DirAt(p, n) => DirAt(p, n)'
  <2>1. ~removed
    BY <1>2 DEF Evolves
  <2> SUFFICES ASSUME NEW n \in 0..Len(Path[p]), n # 0, tree[Upto(Path[p], n)] = "dir"
               PROVE  tree'[Upto(Path[p], n)] = "dir"
    BY <2>1 DEF DirAt
  <2>2. Upto(Path[p], n) \in Place
    BY PathFacts
  <2> QED BY <1>2, <2>2 DEF Evolves
<1>3. Path[p] \in Place /\ tree[Path[p]] \in {"dir", "file", "none"}
  BY PathFacts DEF TreeType
<1>4. ASSUME ~removed'
      PROVE  /\ tree[Path[p]] = "dir" => tree'[Path[p]] = "dir"
             /\ tree[Path[p]] # "none" => tree'[Path[p]] # "none"
             /\ Prefix[p] \in Place /\ tree[Prefix[p]] = "dir" => tree'[Prefix[p]] = "dir"
  <2>1. \A q \in Place : tree[q] = "dir" => tree'[q] = "dir"
    BY ONLY <1>0, <1>4, Zenon
  <2> QED BY ONLY <1>0, <1>3, <2>1
<1> QED BY <1>1, <1>2, <1>4

\* A process that does nothing is still right.
LEMMA OthersKept ==
    ASSUME DirInv, Evolves, NEW r \in Process,
           pc'[r] = pc[r], depth'[r] = depth[r], ret'[r] = ret[r], made'[r] = made[r],
           had'[r] = had[r]
    PROVE  ProcOK(r)'
<1>0. TreeType /\ ProcType /\ PrefixOK(r) /\ PositionOK(r) /\ ResultOK(r)
  BY DEF DirInv, ProcOK
<1>1. Len(Path[r]) \in Nat /\ Len(Path[r]) >= 1
  BY PathFacts
<1>2. PrefixOK(r)'
  BY <1>0, EvolvesKeeps DEF PrefixOK, Place
<1>3. PositionOK(r)'
  <2>1. pc[r] = "parents" => depth[r] \in 0..Len(Path[r])
    BY <1>0, <1>1 DEF PositionOK, ProcType
  <2>2. Len(Path[r]) - 1 \in 0..Len(Path[r])
    BY <1>1
  <2>3. pc[r] = "parents" /\ ~removed' /\ had[r] => DirAt(r, depth[r])' \/ FileAt(r)'
    BY <1>0, <2>1, EvolvesKeeps DEF PositionOK, DirAt
  <2>4. pc[r] = "mkdir" /\ ~removed' /\ had[r] => DirAt(r, Len(Path[r]) - 1)' \/ FileAt(r)'
    BY <1>0, <2>2, EvolvesKeeps DEF PositionOK
  <2>5. pc[r] = "exists" /\ ~removed' => tree'[Path[r]] # "none"
    BY <1>0, EvolvesKeeps DEF PositionOK
  <2> QED BY <1>0, <2>3, <2>4, <2>5 DEF PositionOK, Fits, DirAt
<1>4. ResultOK(r)'
  BY <1>0, EvolvesKeeps DEF ResultOK, Fits
<1> QED BY <1>2, <1>3, <1>4 DEF ProcOK

(***************************************************************************)
(* Creating directories: the steps                                         *)
(***************************************************************************)

\* A step of p concerns only p.
OnlyOf(p) ==
    \A r \in Process \ {p} :
        /\ pc'[r] = pc[r] /\ depth'[r] = depth[r] /\ ret'[r] = ret[r]
        /\ made'[r] = made[r] /\ had'[r] = had[r]

\* A step of one process, during which the tree only evolves as it may,
\* keeps what holds for the others.
LEMMA ProcessStep ==
    ASSUME DirInv, Evolves, NEW p \in Process, ProcType', OnlyOf(p), ProcOK(p)'
    PROVE  DirInv'
<1>1. \A r \in Process : ProcOK(r)'
  <2> SUFFICES ASSUME NEW r \in Process PROVE ProcOK(r)'
    OBVIOUS
  <2>1. CASE r = p
    BY <2>1
  <2>2. CASE r # p
    <3>1. /\ pc'[r] = pc[r] /\ depth'[r] = depth[r] /\ ret'[r] = ret[r]
          /\ made'[r] = made[r] /\ had'[r] = had[r]
      BY <2>2 DEF OnlyOf
    <3> QED BY <3>1, OthersKept
  <2> QED BY <2>1, <2>2
<1> QED BY <1>1 DEF DirInv, Evolves

\* A step that leaves the tree alone.
LEMMA SameTree ==
    ASSUME DirInv, tree' = tree, removed' = removed
    PROVE  Evolves
<1>1. TreeType' /\ TreeOK'
  BY DEF DirInv, TreeType, TreeOK, Place
<1> QED BY <1>1 DEF DirInv, ProcType, Evolves

\* The test of the prefix keeps the invariant.
LEMMA BeginStep ==
    ASSUME DirInv, NEW p \in Process, Directories!Begin(p)
    PROVE  DirInv'
<1> USE DEF Directories!Begin, Directories!Return, Directories!Goto
<1>0. ProcType /\ ProcOK(p) /\ Len(Path[p]) \in Nat /\ Len(Path[p]) >= 1
  BY PathFacts DEF DirInv
<1>1. Evolves
  BY SameTree
<1>2. ProcType' /\ OnlyOf(p)
  BY <1>0 DEF ProcType, OnlyOf, PCs, Errors
<1>3. /\ pc[p] = "start" /\ depth'[p] = depth[p] /\ made'[p] = made[p] /\ tree' = tree
      /\ removed' = removed /\ depth[p] = 0
      /\ had'[p] => Prefix[p] = << >> \/ (Prefix[p] \in Place /\ Directories!IsDir(Prefix[p]))
  BY <1>0 DEF ProcType, ProcOK, PositionOK, Place
<1>4. PrefixOK(p)'
  BY <1>3 DEF PrefixOK, Directories!IsDir, Place
<1>5. CASE ~Fits(p)
  <2>1. pc'[p] = "done"
    BY <1>0, <1>5 DEF ProcType, Fits
  <2>2. PositionOK(p)'
    BY <2>1 DEF PositionOK
  <2>3. ResultOK(p)'
    <3>1. ret'[p] = "ENOTDIR"
      BY <1>0, <1>5 DEF ProcType, Fits
    <3> QED BY <1>0, <1>3, <1>5, <3>1 DEF ResultOK, ProcOK, Fits
  <2> QED BY <1>1, <1>2, <1>4, <2>2, <2>3, ProcessStep DEF ProcOK
<1>6. CASE Fits(p)
  <2>1. pc'[p] = IF Len(Path[p]) = 1 THEN "mkdir" ELSE "stat"
    BY <1>0, <1>6 DEF ProcType, Fits
  <2>2. PositionOK(p)'
    <3>1. Fits(p)'
      BY <1>6 DEF Fits
    <3>2. Len(Path[p]) = 1 => DirAt(p, Len(Path[p]) - 1)'
      BY DEF DirAt
    <3>3. depth'[p] = 0 /\ 0 < Len(Path[p])
      BY <1>0, <1>3
    <3>4. CASE Len(Path[p]) = 1
      <4>1. pc'[p] = "mkdir"
        BY <2>1, <3>4
      <4> QED BY ONLY <3>1, <3>2, <3>4, <4>1 DEF PositionOK
    <3>5. CASE Len(Path[p]) # 1
      <4>1. pc'[p] = "stat"
        BY ONLY <2>1, <3>5
      <4>2. PICK l : l = Len(Path[p])
        OBVIOUS
      <4>3. l \in Nat /\ l >= 1 /\ l # 1
        BY ONLY <1>0, <3>5, <4>2
      <4>4. l > 1
        BY ONLY <4>3
      <4>5. Len(Path[p]) > 1
        BY ONLY <4>2, <4>4
      <4> QED BY ONLY <3>1, <3>3, <4>1, <4>5 DEF PositionOK
    <3> QED BY <3>4, <3>5
  <2>3. ResultOK(p)'
    BY <1>0, <1>3, <2>1 DEF ResultOK, ProcOK
  <2> QED BY <1>1, <1>2, <1>4, <2>2, <2>3, ProcessStep DEF ProcOK
<1> QED BY <1>5, <1>6

\* stat() of the parent keeps the invariant.
LEMMA StatParentStep ==
    ASSUME DirInv, NEW p \in Process, Directories!StatParent(p)
    PROVE  DirInv'
<1> USE DEF Directories!StatParent, Directories!Return, Directories!Goto
<1>0. ProcType /\ ProcOK(p) /\ Len(Path[p]) \in Nat /\ Path[p] \in Place
  BY PathFacts DEF DirInv
<1>1. Evolves
  BY SameTree
<1>2. ProcType' /\ OnlyOf(p)
  BY <1>0 DEF ProcType, OnlyOf, PCs, Errors
<1>3. /\ pc[p] = "stat" /\ depth'[p] = depth[p] /\ made'[p] = made[p] /\ tree' = tree
      /\ removed' = removed /\ had'[p] = had[p] /\ depth[p] = 0 /\ Len(Path[p]) > 1 /\ Fits(p)
  BY <1>0 DEF ProcType, ProcOK, PositionOK
<1>4. PrefixOK(p)'
  BY <1>0, <1>3 DEF PrefixOK, ProcOK, Place
<1>5. PICK f : f = Directories!Front(Path[p])
  OBVIOUS
<1>6. f = Upto(Path[p], Len(Path[p]) - 1) /\ f # << >>
  BY <1>0, <1>3, <1>5, PlaceFacts
<1>7. CASE tree[f] = "file"
  <2>1. pc'[p] = "done" /\ ret'[p] = "ENOTDIR"
    BY <1>0, <1>5, <1>7 DEF ProcType
  <2>2. PositionOK(p)'
    BY <2>1 DEF PositionOK
  <2>3. FileAt(p)'
    BY <1>0, <1>3, <1>6, <1>7 DEF FileAt
  <2>4. ResultOK(p)'
    BY <1>0, <1>3, <2>1, <2>3 DEF ResultOK, ProcOK
  <2> QED BY <1>1, <1>2, <1>4, <2>2, <2>4, ProcessStep DEF ProcOK
<1>8. CASE tree[f] # "file"
  <2>1. pc'[p] = IF tree[f] = "dir" THEN "mkdir" ELSE "parents"
    BY <1>0, <1>5, <1>6, <1>8 DEF ProcType, Directories!IsDir
  <2>2. PositionOK(p)'
    <3>1. Fits(p)' /\ DirAt(p, depth[p])' /\ depth[p] < Len(Path[p])
      BY <1>0, <1>3 DEF Fits, DirAt
    <3>2. tree[f] = "dir" => DirAt(p, Len(Path[p]) - 1)'
      BY <1>3, <1>6 DEF DirAt
    <3> QED BY <1>3, <2>1, <3>1, <3>2 DEF PositionOK, DirAt
  <2>3. ResultOK(p)'
    BY <1>0, <1>3, <2>1 DEF ResultOK, ProcOK
  <2> QED BY <1>1, <1>2, <1>4, <2>2, <2>3, ProcessStep DEF ProcOK
<1> QED BY <1>7, <1>8

\* mkdir() itself: it creates a directory in a directory, or changes nothing
\* and says why.
LEMMA MkdirCall ==
    ASSUME DirInv, NEW p \in Process, NEW q \in Place, Directories!Mkdir(p, q),
           removed' = removed
    PROVE  /\ Evolves /\ tree'[q] \in {"dir", "file", "none"}
           /\ made' \in [Process -> SUBSET Place]
           /\ \A r \in Process \ {p} : made'[r] = made[r]
           /\ made'[p] = made[p] \/ made'[p] = made[p] \cup {q}
           /\ Directories!MkdirResult(q) = "0" => tree'[q] = "dir"
           /\ Directories!MkdirResult(q) = "EEXIST" => tree'[q] # "none"
           /\ Directories!MkdirResult(q) \notin {"0", "EEXIST"} =>
                 /\ Directories!MkdirResult(q) = "ENOENT or ENOTDIR"
                 /\ tree' = tree /\ made' = made
                 /\ ~Directories!IsDir(Directories!Front(q))
<1>0. TreeType /\ TreeOK /\ ProcType
  BY DEF DirInv
<1>1. CASE Directories!MkdirResult(q) = "0"
  <2>1. tree[q] = "none" /\ Directories!IsDir(Directories!Front(q))
    BY <1>1 DEF Directories!MkdirResult
  <2>2. tree' = [tree EXCEPT ![q] = "dir"] /\ made' = [made EXCEPT ![p] = @ \cup {q}]
    BY <1>1 DEF Directories!Mkdir
  <2>3. /\ TreeType' /\ TreeOK'
        /\ \A x \in Place : tree'[x] = IF x = q THEN "dir" ELSE tree[x]
    BY <1>0, <2>1, <2>2, CreateTree
  <2>4. Evolves
    BY <1>0, <2>1, <2>3 DEF Evolves, ProcType
  <2>5. /\ made' \in [Process -> SUBSET Place]
        /\ \A r \in Process \ {p} : made'[r] = made[r]
        /\ made'[p] = made[p] \cup {q}
    BY <1>0, <2>2 DEF ProcType
  <2> QED BY <1>1, <2>3, <2>4, <2>5
<1>2. CASE Directories!MkdirResult(q) # "0"
  <2>1. tree' = tree /\ made' = made
    BY <1>2 DEF Directories!Mkdir
  <2>2. tree[q] \in {"dir", "file", "none"}
    BY <1>0 DEF TreeType
  <2>3. CASE tree[q] # "none"
    <3>1. Directories!MkdirResult(q) = "EEXIST"
      BY <2>3 DEF Directories!MkdirResult
    <3> QED BY <1>0, <2>1, <2>2, <2>3, <3>1, SameTree DEF ProcType
  <2>4. CASE tree[q] = "none"
    <3>1. ~Directories!IsDir(Directories!Front(q))
      BY <1>2, <2>4 DEF Directories!MkdirResult
    <3>2. Directories!MkdirResult(q) = "ENOENT or ENOTDIR"
      BY <2>4, <3>1 DEF Directories!MkdirResult
    <3> QED BY <1>0, <2>1, <2>2, <3>1, <3>2, SameTree DEF ProcType
  <2> QED BY <2>3, <2>4
<1> QED BY <1>1, <1>2

\* The beginning of the prefix is a directory if the prefix is.
LEMMA PrefixIsDir ==
    ASSUME DirInv, NEW p \in Process, NEW n \in 1..Len(Path[p]),
           Directories!IsPrefix(Upto(Path[p], n), Prefix[p]),
           Prefix[p] = << >> \/ (Prefix[p] \in Place /\ tree[Prefix[p]] = "dir")
    PROVE  DirAt(p, n)
<1>1. PICK t : t = Upto(Path[p], n)
  OBVIOUS
<1>2. t \in Place /\ Len(t) = n /\ Upto(t, n) = t /\ n \in Nat /\ n >= 1
  BY <1>1, PathFacts, PlaceFacts, UptoSeq
<1>3. n <= Len(Prefix[p]) /\ Upto(t, n) = Upto(Prefix[p], n)
  BY <1>1, <1>2 DEF Directories!IsPrefix, Upto
<1>4. Len(Prefix[p]) \in Nat /\ Prefix[p] # << >>
  BY <1>2, <1>3, PathFacts
<1>5. Prefix[p] \in Place /\ tree[Prefix[p]] = "dir"
  BY <1>4
<1>6. CASE n = Len(Prefix[p])
  <2>1. Upto(Prefix[p], n) = Prefix[p]
    BY <1>5, <1>6, PlaceFacts
  <2> QED BY <1>1, <1>2, <1>3, <1>5, <2>1 DEF DirAt
<1>7. CASE n # Len(Prefix[p])
  <2>1. n \in 1..(Len(Prefix[p]) - 1)
    BY <1>2, <1>3, <1>4, <1>7
  <2>2. tree[Upto(Prefix[p], n)] = "dir"
    BY <1>5, <2>1 DEF DirInv, TreeOK
  <2> QED BY <1>1, <1>2, <1>3, <2>2 DEF DirAt
<1> QED BY <1>6, <1>7

\* mkdir() of a parent keeps the invariant.
LEMMA MkdirParentStep ==
    ASSUME DirInv, NEW p \in Process, Directories!MkdirParent(p)
    PROVE  DirInv'
<1> USE DEF Directories!Return, Directories!Goto
<1>0. /\ ProcType /\ ProcOK(p) /\ Len(Path[p]) \in Nat /\ Path[p] \in Place
      /\ \A i \in 1..Len(Path[p]) : Upto(Path[p], i) \in Place
  BY PathFacts DEF DirInv
<1>1. PICK n : n = depth[p] + 1
  OBVIOUS
<1>2. PICK t : t = Upto(Path[p], n)
  OBVIOUS
<1>3. /\ pc[p] = "parents" /\ had' = had /\ removed' = removed
      /\ \/ n = Len(Path[p]) /\ Directories!Goto(p, "mkdir") /\ UNCHANGED <<tree, made, depth, ret>>
         \/ /\ n # Len(Path[p]) /\ Directories!IsPrefix(t, Prefix[p])
            /\ depth' = [depth EXCEPT ![p] = n] /\ UNCHANGED <<tree, made, pc, ret>>
         \/ /\ n # Len(Path[p]) /\ ~Directories!IsPrefix(t, Prefix[p])
            /\ Directories!Mkdir(p, t)
            /\ IF Directories!Tolerated(Directories!MkdirResult(t))
               THEN depth' = [depth EXCEPT ![p] = n] /\ UNCHANGED <<pc, ret>>
               ELSE Directories!Return(p, Directories!MkdirResult(t)) /\ UNCHANGED depth
  BY <1>1, <1>2 DEF Directories!MkdirParent, Upto
<1>4. /\ Fits(p) /\ depth[p] \in Nat /\ depth[p] < Len(Path[p]) /\ Len(Path[p]) > 1
      /\ n \in 1..Len(Path[p]) /\ n \in Nat /\ t \in Place
      /\ ~removed /\ had[p] => DirAt(p, depth[p]) \/ FileAt(p)
      /\ ~removed /\ had[p] =>
            Prefix[p] = << >> \/ (Prefix[p] \in Place /\ tree[Prefix[p]] = "dir")
  BY <1>0, <1>1, <1>2, <1>3 DEF ProcType, ProcOK, PositionOK, PrefixOK
<1>5. CASE n = Len(Path[p]) /\ Directories!Goto(p, "mkdir") /\ UNCHANGED <<tree, made, depth, ret>>
  <2>1. Evolves
    BY <1>3, <1>5, SameTree
  <2>2. ProcType' /\ OnlyOf(p) /\ pc'[p] = "mkdir"
    BY <1>0, <1>3, <1>5 DEF ProcType, OnlyOf, PCs
  <2>3. PrefixOK(p)'
    BY <1>3, <1>4, <1>5 DEF PrefixOK, Place
  <2>4. PositionOK(p)'
    <3>1. Len(Path[p]) - 1 = depth[p]
      BY <1>1, <1>4, <1>5
    <3>2. Fits(p)' /\ (DirAt(p, depth[p]) => DirAt(p, Len(Path[p]) - 1)') /\ (FileAt(p) => FileAt(p)')
      BY <1>4, <1>5, <3>1 DEF Fits, DirAt, FileAt
    <3> QED BY <1>3, <1>4, <2>2, <3>2 DEF PositionOK
  <2>5. ResultOK(p)'
    BY <1>0, <1>3, <1>5, <2>2 DEF ResultOK, ProcOK
  <2> QED BY <2>1, <2>2, <2>3, <2>4, <2>5, ProcessStep DEF ProcOK
<1>6. CASE /\ n # Len(Path[p]) /\ Directories!IsPrefix(t, Prefix[p])
           /\ depth' = [depth EXCEPT ![p] = n] /\ UNCHANGED <<tree, made, pc, ret>>
  <2>1. Evolves
    BY <1>3, <1>6, SameTree
  <2>2. ProcType' /\ OnlyOf(p) /\ pc'[p] = "parents" /\ depth'[p] = n
    BY <1>0, <1>3, <1>4, <1>6 DEF ProcType, OnlyOf, PCs
  <2>3. PrefixOK(p)'
    BY <1>3, <1>4, <1>6 DEF PrefixOK, Place
  <2>4. ~removed /\ had[p] => DirAt(p, n)
    BY <1>2, <1>4, <1>6, PrefixIsDir
  <2>5. PositionOK(p)'
    <3>1. Fits(p)' /\ (DirAt(p, n) => DirAt(p, depth[p])') /\ n < Len(Path[p])
      BY <1>0, <1>4, <1>6, <2>2 DEF Fits, DirAt
    <3> QED BY <1>3, <1>4, <2>2, <2>4, <3>1 DEF PositionOK
  <2>6. ResultOK(p)'
    BY <1>0, <1>3, <1>6, <2>2 DEF ResultOK, ProcOK
  <2> QED BY <2>1, <2>2, <2>3, <2>5, <2>6, ProcessStep DEF ProcOK
<1>7. CASE /\ n # Len(Path[p]) /\ ~Directories!IsPrefix(t, Prefix[p])
           /\ Directories!Mkdir(p, t)
           /\ IF Directories!Tolerated(Directories!MkdirResult(t))
              THEN depth' = [depth EXCEPT ![p] = n] /\ UNCHANGED <<pc, ret>>
              ELSE Directories!Return(p, Directories!MkdirResult(t)) /\ UNCHANGED depth
  <2>1. /\ Evolves /\ tree'[t] \in {"dir", "file", "none"}
        /\ made' \in [Process -> SUBSET Place]
        /\ \A r \in Process \ {p} : made'[r] = made[r]
        /\ made'[p] = made[p] \/ made'[p] = made[p] \cup {t}
        /\ Directories!MkdirResult(t) = "0" => tree'[t] = "dir"
        /\ Directories!MkdirResult(t) = "EEXIST" => tree'[t] # "none"
        /\ Directories!MkdirResult(t) \notin {"0", "EEXIST"} =>
              /\ Directories!MkdirResult(t) = "ENOENT or ENOTDIR"
              /\ tree' = tree /\ made' = made
              /\ ~Directories!IsDir(Directories!Front(t))
    BY <1>3, <1>4, <1>7, MkdirCall
  <2>2. \A q \in made'[p] : q = Path[p] \/ ~Directories!IsPrefix(q, Prefix[p])
    BY <1>0, <1>7, <2>1 DEF ProcOK, ResultOK
  <2>3. PrefixOK(p)'
    BY <1>3, <1>4, <2>1, EvolvesKeeps DEF PrefixOK, Place, DirInv
  <2>4. CASE Directories!MkdirResult(t) \in {"0", "EEXIST"}
    <3>1. depth' = [depth EXCEPT ![p] = n] /\ UNCHANGED <<pc, ret>>
      BY <1>7, <2>4 DEF Directories!Tolerated
    <3>2. ProcType' /\ OnlyOf(p) /\ pc'[p] = "parents" /\ depth'[p] = n
      BY <1>0, <1>3, <1>4, <2>1, <3>1 DEF ProcType, OnlyOf, PCs
    <3>3. DirAt(p, depth[p])' \/ FileAt(p)'
      <4>1. tree'[t] \in {"dir", "file"}
        BY <2>1, <2>4
      <4> QED BY <1>2, <1>4, <3>2, <4>1 DEF DirAt, FileAt
    <3>4. PositionOK(p)'
      <4>1. Fits(p)' /\ n < Len(Path[p])
        BY <1>0, <1>4, <1>7 DEF Fits
      <4> QED BY <1>4, <3>2, <3>3, <4>1 DEF PositionOK
    <3>5. ResultOK(p)'
      BY <2>2, <3>2 DEF ResultOK
    <3> QED BY <2>1, <2>3, <3>2, <3>4, <3>5, ProcessStep DEF ProcOK
  <2>5. CASE Directories!MkdirResult(t) \notin {"0", "EEXIST"}
    <3>1. /\ pc' = [pc EXCEPT ![p] = "done"] /\ ret' = [ret EXCEPT ![p] = "ENOENT or ENOTDIR"]
          /\ depth' = depth
      BY <1>7, <2>1, <2>5 DEF Directories!Tolerated
    <3>2. ProcType' /\ OnlyOf(p) /\ pc'[p] = "done" /\ ret'[p] = "ENOENT or ENOTDIR"
      BY <1>0, <1>3, <2>1, <3>1 DEF ProcType, OnlyOf, PCs, Errors
    <3>3. ~DirAt(p, depth[p])
      <4>1. Len(t) = n /\ Directories!Front(t) = Upto(t, n - 1)
        <5>1. Len(t) = n
          BY <1>2, <1>4, PathFacts, UptoSeq
        <5> QED BY <1>4, <5>1, PlaceFacts
      <4>2. n - 1 = depth[p]
        BY <1>1, <1>4
      <4>3. CASE depth[p] = 0
        <5>1. Directories!Front(t) = << >>
          BY <1>4, <4>1, <4>2, <4>3, PlaceFacts
        <5> QED BY <2>1, <2>5, <5>1 DEF Directories!IsDir
      <4>4. CASE depth[p] # 0
        <5>1. Upto(t, depth[p]) = Upto(Path[p], depth[p])
          <6>1. depth[p] \in 1..n
            BY <1>4, <4>2, <4>4
          <6> QED BY <1>2, <1>4, <6>1, PathFacts, PlaceFacts
        <5> QED BY <2>1, <2>5, <4>1, <4>2, <4>4, <5>1 DEF Directories!IsDir, DirAt
      <4> QED BY <4>3, <4>4
    <3>4. PositionOK(p)'
      BY <3>2 DEF PositionOK
    <3>5. FileAt(p) => FileAt(p)'
      BY <2>1, <2>5 DEF FileAt
    <3>6. ResultOK(p)'
      BY <1>3, <1>4, <2>2, <3>2, <3>3, <3>5 DEF ResultOK
    <3> QED BY <2>1, <2>3, <3>2, <3>4, <3>6, ProcessStep DEF ProcOK
  <2> QED BY <2>4, <2>5
<1> QED BY <1>3, <1>5, <1>6, <1>7

\* mkdir() of the path itself keeps the invariant.
LEMMA MkdirLastStep ==
    ASSUME DirInv, NEW p \in Process, Directories!MkdirLast(p)
    PROVE  DirInv'
<1> USE DEF Directories!Return, Directories!Goto
<1>0. ProcType /\ ProcOK(p) /\ Len(Path[p]) \in Nat /\ Len(Path[p]) >= 1 /\ Path[p] \in Place
  BY PathFacts DEF DirInv
<1>1. PICK q \in Place : q = Path[p]
  BY <1>0
<1>2. PICK e : e = Directories!MkdirResult(q)
  OBVIOUS
<1>3. /\ pc[p] = "mkdir" /\ Directories!Mkdir(p, q) /\ depth' = depth /\ had' = had
      /\ removed' = removed
      /\ CASE e = "0" -> Directories!Return(p, "0")
           [] e = "EEXIST" -> Directories!Goto(p, "exists") /\ UNCHANGED ret
           [] OTHER -> Directories!Return(p, e)
  BY <1>1, <1>2 DEF Directories!MkdirLast
<1>4. /\ Evolves /\ tree'[q] \in {"dir", "file", "none"}
      /\ made' \in [Process -> SUBSET Place]
      /\ \A r \in Process \ {p} : made'[r] = made[r]
      /\ made'[p] = made[p] \/ made'[p] = made[p] \cup {q}
      /\ e = "0" => tree'[q] = "dir"
      /\ e = "EEXIST" => tree'[q] # "none"
      /\ e \notin {"0", "EEXIST"} =>
            /\ e = "ENOENT or ENOTDIR" /\ tree' = tree /\ made' = made
            /\ ~Directories!IsDir(Directories!Front(q))
  BY <1>2, <1>3, MkdirCall
<1>5. \A x \in made'[p] : x = Path[p] \/ ~Directories!IsPrefix(x, Prefix[p])
  <2>1. \A x \in made[p] : x = Path[p] \/ ~Directories!IsPrefix(x, Prefix[p])
    BY ONLY <1>0 DEF ProcOK, ResultOK
  <2>2. \A x \in made'[p] : x \in made[p] \/ x = q
    BY ONLY <1>4
  <2> QED BY ONLY <1>1, <2>1, <2>2
<1>6. /\ Fits(p)
      /\ ~removed /\ had[p] => DirAt(p, Len(Path[p]) - 1) \/ FileAt(p)
      /\ ~removed /\ had[p] =>
            Prefix[p] = << >> \/ (Prefix[p] \in Place /\ tree[Prefix[p]] = "dir")
  BY <1>0, <1>3 DEF ProcOK, PositionOK, PrefixOK
<1>7. PrefixOK(p)'
  BY <1>3, <1>4, <1>6, EvolvesKeeps DEF PrefixOK, Place, DirInv
<1>8. CASE e = "0"
  <2>1. pc' = [pc EXCEPT ![p] = "done"] /\ ret' = [ret EXCEPT ![p] = "0"]
    BY <1>3, <1>8
  <2>2. ProcType' /\ OnlyOf(p) /\ pc'[p] = "done" /\ ret'[p] = "0"
    BY <1>0, <1>3, <1>4, <2>1 DEF ProcType, OnlyOf, PCs, Errors
  <2>3. PositionOK(p)' /\ ResultOK(p)'
    BY <1>1, <1>4, <1>5, <1>8, <2>2 DEF PositionOK, ResultOK
  <2> QED BY <1>4, <1>7, <2>2, <2>3, ProcessStep DEF ProcOK
<1>9. CASE e = "EEXIST"
  <2>1. pc' = [pc EXCEPT ![p] = "exists"] /\ ret' = ret
    BY <1>3, <1>9
  <2>2. ProcType' /\ OnlyOf(p) /\ pc'[p] = "exists"
    BY <1>0, <1>3, <1>4, <2>1 DEF ProcType, OnlyOf, PCs
  <2>3. Fits(p)'
    BY <1>6 DEF Fits
  <2>4. PositionOK(p)' /\ ResultOK(p)'
    BY <1>1, <1>4, <1>5, <1>9, <2>2, <2>3 DEF PositionOK, ResultOK
  <2> QED BY <1>4, <1>7, <2>2, <2>4, ProcessStep DEF ProcOK
<1>10. CASE e \notin {"0", "EEXIST"}
  <2>1. pc' = [pc EXCEPT ![p] = "done"] /\ ret' = [ret EXCEPT ![p] = "ENOENT or ENOTDIR"]
    BY <1>3, <1>4, <1>10
  <2>2. ProcType' /\ OnlyOf(p) /\ pc'[p] = "done" /\ ret'[p] = "ENOENT or ENOTDIR"
    BY <1>0, <1>3, <1>4, <2>1 DEF ProcType, OnlyOf, PCs, Errors
  <2>3. ~DirAt(p, Len(Path[p]) - 1)
    <3>1. Directories!Front(q) = Upto(q, Len(q) - 1) /\ (Len(q) = 1 => Directories!Front(q) = << >>)
      BY PlaceFacts
    <3>2. CASE Len(q) = 1
      BY <1>4, <1>10, <3>1, <3>2 DEF Directories!IsDir
    <3>3. CASE Len(q) # 1
      <4>1. Len(Path[p]) - 1 # 0
        BY <1>0, <1>1, <3>3
      <4> QED BY <1>1, <1>4, <1>10, <3>1, <4>1 DEF Directories!IsDir, DirAt
    <3> QED BY <3>2, <3>3
  <2>4. FileAt(p) => FileAt(p)'
    BY <1>4, <1>10 DEF FileAt
  <2>5. PositionOK(p)' /\ ResultOK(p)'
    BY <1>3, <1>5, <1>6, <2>2, <2>3, <2>4 DEF PositionOK, ResultOK
  <2> QED BY <1>4, <1>7, <2>2, <2>5, ProcessStep DEF ProcOK
<1> QED BY <1>8, <1>9, <1>10

\* stat() of what mkdir() found to exist keeps the invariant.
LEMMA StatLastStep ==
    ASSUME DirInv, NEW p \in Process, Directories!StatLast(p)
    PROVE  DirInv'
<1> USE DEF Directories!Return, Directories!Goto
<1>0. /\ ProcType /\ ProcOK(p) /\ Len(Path[p]) \in Nat /\ Len(Path[p]) >= 1
      /\ Upto(Path[p], Len(Path[p])) = Path[p] /\ tree[Path[p]] \in {"dir", "file", "none"}
  BY PathFacts, PlaceFacts DEF DirInv, TreeType
<1>1. PICK e : e = CASE tree[Path[p]] = "dir"  -> "0"
                     [] tree[Path[p]] = "file" -> "EEXIST"
                     [] OTHER -> "ENOENT or ENOTDIR"
  OBVIOUS
<1>2. /\ pc[p] = "exists" /\ pc' = [pc EXCEPT ![p] = "done"] /\ ret' = [ret EXCEPT ![p] = e]
      /\ UNCHANGED <<tree, depth, made, had, removed>>
  BY <1>1 DEF Directories!StatLast
<1>3. /\ tree[Path[p]] = "dir" => e = "0"
      /\ tree[Path[p]] = "file" => e = "EEXIST"
      /\ tree[Path[p]] = "none" => e = "ENOENT or ENOTDIR"
  BY <1>1
<1>4. Evolves
  BY <1>2, SameTree
<1>5. ProcType' /\ OnlyOf(p) /\ pc'[p] = "done" /\ ret'[p] = e
  BY <1>0, <1>2, <1>3 DEF ProcType, OnlyOf, PCs, Errors
<1>6. PrefixOK(p)'
  BY <1>0, <1>2 DEF PrefixOK, ProcOK, Place
<1>7. PositionOK(p)'
  BY <1>5 DEF PositionOK
<1>8. tree[Path[p]] = "file" => FileAt(p)'
  BY <1>0, <1>2 DEF FileAt
<1>9. ~removed => tree[Path[p]] # "none"
  BY <1>0, <1>2 DEF ProcOK, PositionOK
<1>10. ResultOK(p)'
  BY <1>0, <1>2, <1>3, <1>5, <1>8, <1>9 DEF ResultOK, ProcOK
<1> QED BY <1>4, <1>5, <1>6, <1>7, <1>10, ProcessStep DEF ProcOK

\* Others may create files and remove directories.
LEMMA OutsideStep ==
    ASSUME DirInv, NEW q \in Place, Directories!CreateFile(q) \/ Directories!RemoveDir(q)
    PROVE  DirInv'
<1>0. TreeType /\ TreeOK /\ ProcType
  BY DEF DirInv
<1>1. UNCHANGED <<pc, depth, ret, made, had>>
  BY DEF Directories!CreateFile, Directories!RemoveDir
<1>2. Evolves /\ ProcType'
  <2>1. CASE Directories!CreateFile(q)
    <3>1. tree[q] = "none" /\ Directories!IsDir(Directories!Front(q))
      BY <2>1 DEF Directories!CreateFile, Directories!MkdirResult
    <3>2. tree' = [tree EXCEPT ![q] = "file"] /\ removed' = removed
      BY <2>1 DEF Directories!CreateFile
    <3>3. /\ TreeType' /\ TreeOK'
          /\ \A x \in Place : tree'[x] = IF x = q THEN "file" ELSE tree[x]
      BY <1>0, <3>1, <3>2, CreateTree
    <3>4. Evolves
      BY <1>0, <3>1, <3>2, <3>3 DEF Evolves, ProcType
    <3> QED BY <1>0, <1>1, <3>2, <3>4 DEF ProcType, Place
  <2>2. CASE Directories!RemoveDir(q)
    <3>1. /\ tree[q] = "dir" /\ removed'
          /\ \A x \in Place : x # << >> /\ Directories!Front(x) = q => tree[x] = "none"
          /\ tree' = [tree EXCEPT ![q] = "none"]
      BY <2>2 DEF Directories!RemoveDir, Place
    <3>2. /\ TreeType' /\ TreeOK'
          /\ \A x \in Place : tree'[x] = IF x = q THEN "none" ELSE tree[x]
      BY <1>0, <3>1, RemoveTree
    <3>3. removed' \in BOOLEAN
      BY <2>2 DEF Directories!RemoveDir
    <3>4. Evolves
      BY <3>1, <3>2, <3>3 DEF Evolves
    <3> QED BY <1>0, <1>1, <3>3, <3>4 DEF ProcType, Place
  <2> QED BY <2>1, <2>2
<1>3. \A r \in Process : ProcOK(r)'
  BY <1>1, <1>2, OthersKept
<1> QED BY <1>2, <1>3 DEF DirInv, Evolves

\* What exists at first is a tree, and no process has begun.
LEMMA InitDirInv ==
    ASSUME Init
    PROVE  DirInv
<1> USE DEF Init, Directories!Init
<1>1. PICK dirs \in Existing :
          tree = [q \in Place |-> IF q \in dirs THEN "dir" ELSE "none"]
  BY DEF Place
<1>2. TreeType
  BY <1>1 DEF TreeType
<1>3. TreeOK
  <2> SUFFICES ASSUME NEW q \in Place, tree[q] # "none", NEW n \in 1..(Len(q) - 1)
               PROVE  tree[Upto(q, n)] = "dir"
    BY DEF TreeOK
  <2>1. q \in dirs
    BY <1>1
  <2>2. Upto(q, n) \in dirs
    BY <2>1, PathsAssumption DEF Upto
  <2>3. Upto(q, n) \in Place
    BY PlaceFacts
  <2> QED BY <1>1, <2>2, <2>3
<1>4. ProcType
  BY DEF ProcType, PCs, Errors
<1>5. \A p \in Process : ProcOK(p)
  BY PathFacts DEF ProcOK, PrefixOK, PositionOK, ResultOK
<1> QED BY <1>2, <1>3, <1>4, <1>5 DEF DirInv

\* Every step of every helper keeps the invariant.
LEMMA NextDirInv ==
    ASSUME DirInv, [Next]_vars
    PROVE  DirInv'
<1>1. CASE RunDirectories
  <2>1. Directories!Next
    BY <1>1 DEF RunDirectories
  <2>2. CASE \E p \in Process : \/ Directories!Begin(p) \/ Directories!StatParent(p)
                               \/ Directories!MkdirParent(p) \/ Directories!MkdirLast(p)
                               \/ Directories!StatLast(p)
    BY <2>2, BeginStep, StatParentStep, MkdirParentStep, MkdirLastStep, StatLastStep
  <2>3. CASE \E q \in Place : Directories!CreateFile(q) \/ Directories!RemoveDir(q)
    BY <2>3, OutsideStep
  <2> QED BY <2>1, <2>2, <2>3 DEF Directories!Next, Place
<1>2. CASE UNCHANGED mkdirVars
  <2>1. UNCHANGED <<tree, pc, depth, ret, made, had, removed>>
    BY <1>2 DEF mkdirVars
  <2>2. Evolves
    BY <2>1, SameTree
  <2>3. \A r \in Process : ProcOK(r)'
    BY <2>1, <2>2, OthersKept
  <2>4. ProcType'
    BY <2>1 DEF DirInv, ProcType, Place
  <2> QED BY <2>2, <2>3, <2>4 DEF DirInv, Evolves
<1> QED BY <1>1, <1>2 DEF Next, vars, RunDlist, RunNumbers, RunStrings, RunBuf, RunRatelimit

\* shl_mkdir_p() tells no process of success that does not have its directory,
\* and none of a failure without a file in its way or a missing prefix, for
\* any number of processes that create any directories at the same time, as
\* long as nobody removes one; and it never creates its prefix.
THEOREM MkdirIsHonest == Spec => []MkdirDone
<1>1. Init => DirInv
  BY InitDirInv
<1>2. DirInv /\ [Next]_vars => DirInv'
  BY NextDirInv
<1>3. DirInv => MkdirDone
  <2> SUFFICES ASSUME DirInv, NEW p \in Process
               PROVE  /\ pc[p] = "done" /\ ~removed =>
                           IF ret[p] = "0" THEN Directories!IsDir(Path[p])
                           ELSE Directories!FileInTheWay(p) \/ ~had[p]
                                  \/ ~Directories!IsPrefix(Prefix[p], Path[p])
                      /\ \A q \in made[p] : q = Path[p] \/ ~Directories!IsPrefix(q, Prefix[p])
    BY DEF MkdirDone, Directories!MkdirDone
  <2>1. ResultOK(p)
    BY DEF DirInv, ProcOK
  <2> QED BY <2>1, FileAtIs DEF ResultOK, Fits, Directories!IsDir
<1> QED BY <1>1, <1>2, <1>3, PTL DEF Spec

(***************************************************************************)
(* The buffer: sizes                                                       *)
(***************************************************************************)

\* The buffer and what its user expects in it.
BufOK ==
    /\ size \in {0} \cup Buf!Pow2 /\ size <= MaxAlloc /\ used \in 0..size
    /\ buf = [i \in 0..(size - 1) |-> buf[i]]
    /\ content \in Seq(Byte) /\ Len(content) = used
    /\ \A i \in 1..used : content[i] = buf[i - 1]

\* The array and what its user expects in it; the user has set nothing behind
\* its end.
ArrOK ==
    /\ cnt \in {0} \cup Buf!Pow2 /\ cnt <= MaxAlloc
    /\ elems \in [0..(MaxAlloc - 1) -> Byte]
    /\ \A i \in 0..(MaxAlloc - 1) : cnt <= i => elems[i] = 0
    /\ arr = [i \in 0..(cnt - 1) |-> elems[i]]

\* Powers of two fit into a word.
LEMMA SizeRange ==
    ASSUME NEW n \in {0} \cup Buf!Pow2
    PROVE  n \in Nat /\ n <= SizeMax
BY SizesAssumption DEF Buf!Pow2

\* Min and Max of two numbers.
LEMMA MinOfTwo ==
    ASSUME NEW a \in Nat, NEW b \in Nat
    PROVE  Buf!Min({a, b}) = IF a <= b THEN a ELSE b
<1>1. PICK m \in {a, b} : m = IF a <= b THEN a ELSE b
  OBVIOUS
<1>2. m \in {a, b} /\ \A y \in {a, b} : m <= y
  BY <1>1
<1>3. \A x \in {a, b} : (\A y \in {a, b} : x <= y) => x = m
  BY <1>2
<1>4. Buf!Min({a, b}) = m
  BY ONLY <1>2, <1>3 DEF Buf!Min
<1> QED BY <1>1, <1>4

\* The larger of two numbers, as shl_greedy_realloc() chooses a size.
LEMMA MaxOfTwo ==
    ASSUME NEW a \in Nat, NEW b \in Nat
    PROVE  Buf!Max({a, b}) \in {a, b} /\ b <= Buf!Max({a, b})
<1>1. PICK m \in {a, b} : m = IF a <= b THEN b ELSE a
  OBVIOUS
<1>2. m \in {a, b} /\ \A y \in {a, b} : m >= y
  BY <1>1
<1>3. \A x \in {a, b} : (\A y \in {a, b} : x >= y) => x = m
  BY <1>2
<1>4. Buf!Max({a, b}) = m
  BY ONLY <1>2, <1>3 DEF Buf!Max
<1> QED BY <1>1, <1>4

\* A non-empty set of naturals has a least element, which Min returns.
LEMMA LeastSize ==
    ASSUME NEW S, S \subseteq Nat, S # {}
    PROVE  Buf!Min(S) \in S
<1> DEFINE R == OpToRel(<, Nat)
<1>1. \A x, y \in Nat : x < y => <<x, y>> \in R
  BY Zenon DEF OpToRel
<1>2. \E x \in S : \A y \in S : ~(<<y, x>> \in R)
  BY NatLessThanWellFounded, WFMin
<1> HIDE DEF R
<1>3. PICK x \in S : \A y \in S : ~(<<y, x>> \in R)
  BY <1>2
<1>4. \A y \in S : ~(y < x)
  BY <1>1, <1>3, Zenon
<1>5. \A y \in S : x <= y
  BY <1>4
<1> QED BY <1>5 DEF Buf!Min

\* SHL_ALIGN_POWER2() leads to a power of two that is large enough while one
\* is left.
LEMMA NextPow2Is ==
    ASSUME NEW u \in Nat, NEW p \in Buf!Pow2, u <= p
    PROVE  LET n == Buf!NextPow2(u, AlignOverflow)
           IN  n \in Buf!Pow2 /\ n \in Nat /\ u <= n
<1> DEFINE Above == {q \in Buf!Pow2 : u <= q}
<1>1. Above \subseteq Nat /\ Above # {}
  BY SizeRange
<1> HIDE DEF Above
<1>2. Buf!Min(Above) \in Above
  BY <1>1, LeastSize
<1> USE DEF Above
<1>3. Buf!NextPow2(u, AlignOverflow) = Buf!Min(Above)
  BY DEF Buf!NextPow2
<1> QED BY <1>2, <1>3, SizeRange

(***************************************************************************)
(* The buffer: growing                                                     *)
(***************************************************************************)

\* What shl_greedy_realloc() returns for memory of n bytes.
Reallocated(res, mem, n, need) ==
    \/ n >= need /\ res = [ok |-> n > 0, mem |-> mem, size |-> n]
    \/ n < need /\ res = [ok |-> FALSE, mem |-> mem, size |-> n]
    \/ \E m \in Buf!Pow2 :
          /\ n < need /\ need <= m /\ m <= MaxAlloc
          /\ res = [ok |-> TRUE, size |-> m,
                    mem |-> [i \in 0..(m - 1) |-> IF i < n THEN mem[i] ELSE Undef]]

\* shl_greedy_realloc() keeps the memory when it is large enough or fails,
\* and otherwise copies it into a larger one.
LEMMA Realloc ==
    ASSUME NEW n \in {0} \cup Buf!Pow2, NEW need \in Nat, NEW room \in BOOLEAN,
           NEW mem, mem = [i \in 0..(n - 1) |-> mem[i]],
           NEW res, res = Buf!shl_greedy_realloc(mem, n, need, room),
           NEW p \in Buf!Pow2, DefaultSize <= p, need <= p
    PROVE  Reallocated(res, mem, n, need)
<1>0. n \in Nat
  BY SizeRange
<1>1. PICK x \in Nat : x = Buf!Max({DefaultSize, need}) /\ need <= x /\ x <= p
  BY MaxOfTwo, SizesAssumption, SizeRange
<1>2. PICK m : m = Buf!NextPow2(x, AlignOverflow)
  OBVIOUS
<1>3. m \in Buf!Pow2 /\ m \in Nat /\ x <= m
  BY <1>1, <1>2, NextPow2Is
<1>4. res = IF n >= need THEN [ok |-> n > 0, mem |-> mem, size |-> n]
            ELSE IF m = 0 \/ m > MaxAlloc \/ ~room THEN [ok |-> FALSE, mem |-> mem, size |-> n]
            ELSE [ok |-> TRUE, mem |-> Buf!Memcpy(Buf!Malloc(m), 0, mem, 0, n), size |-> m]
  BY <1>1, <1>2 DEF Buf!shl_greedy_realloc
<1>5. CASE n >= need
  BY ONLY <1>4, <1>5 DEF Reallocated
<1>6. CASE ~(n >= need) /\ (m = 0 \/ m > MaxAlloc \/ ~room)
  <2>1. n < need
    BY <1>0, <1>6
  <2> QED BY ONLY <1>4, <1>6, <2>1 DEF Reallocated
<1>7. CASE ~(n >= need) /\ ~(m = 0 \/ m > MaxAlloc \/ ~room)
  <2>1. n < need /\ m \in Buf!Pow2 /\ m \in Nat /\ need <= m /\ m <= MaxAlloc
    BY <1>0, <1>1, <1>3, <1>7, SizesAssumption
  <2>2. Buf!Malloc(m) = [i \in 0..(m - 1) |-> Undef]
    BY DEF Buf!Malloc
  <2>3. Buf!Memcpy(Buf!Malloc(m), 0, mem, 0, n)
           = [i \in 0..(m - 1) |-> IF 0 <= i /\ i < 0 + n THEN mem[0 + (i - 0)] ELSE Buf!Malloc(m)[i]]
    BY <2>2 DEF Buf!Memcpy
  <2>4. Buf!Memcpy(Buf!Malloc(m), 0, mem, 0, n)
           = [i \in 0..(m - 1) |-> IF i < n THEN mem[i] ELSE Undef]
    <3>1. \A i \in 0..(m - 1) : Buf!Malloc(m)[i] = Undef
      BY ONLY <2>2
    <3>2. \A i \in 0..(m - 1) : 0 <= i /\ 0 + (i - 0) = i /\ 0 + n = n
      BY ONLY <1>0, <2>1
    <3>3. \A i \in 0..(m - 1) :
             (IF 0 <= i /\ i < 0 + n THEN mem[0 + (i - 0)] ELSE Buf!Malloc(m)[i])
                = IF i < n THEN mem[i] ELSE Undef
      <4> SUFFICES ASSUME NEW i \in 0..(m - 1)
                   PROVE  (IF 0 <= i /\ i < 0 + n THEN mem[0 + (i - 0)] ELSE Buf!Malloc(m)[i])
                             = IF i < n THEN mem[i] ELSE Undef
        OBVIOUS
      <4>1. 0 <= i /\ 0 + (i - 0) = i /\ 0 + n = n /\ Buf!Malloc(m)[i] = Undef
        BY ONLY <3>1, <3>2
      <4> QED BY ONLY <4>1
    <3> QED BY ONLY <2>3, <3>3, Zenon
  <2>5. res = [ok |-> TRUE, size |-> m,
               mem |-> [i \in 0..(m - 1) |-> IF i < n THEN mem[i] ELSE Undef]]
    BY ONLY <1>4, <1>7, <2>4
  <2> QED BY ONLY <2>1, <2>5 DEF Reallocated
<1> QED BY <1>5, <1>6, <1>7

\* The size of a push wraps around only to a value that is not larger.
LEMMA PushedSize ==
    ASSUME NEW u \in 0..SizeMax, NEW l \in 0..SizeMax, Buf!Word(u + l) > u
    PROVE  Buf!Word(u + l) = u + l
<1>1. PICK s \in Nat : s = u + l
  OBVIOUS
<1>2. Buf!Word(s) = s % (SizeMax + 1)
  BY DEF Buf!Word
<1>3. CASE s <= SizeMax
  BY <1>1, <1>2, <1>3, SizesAssumption
<1>4. CASE s > SizeMax
  <2>1. s = (SizeMax + 1) + (s - (SizeMax + 1)) /\ s - (SizeMax + 1) \in 0..SizeMax
    BY <1>1, <1>4, SizesAssumption
  <2>2. s % (SizeMax + 1) = s - (SizeMax + 1)
    BY <1>1, <2>1, SizesAssumption
  <2> QED BY <1>1, <1>2, <2>2, SizesAssumption
<1> QED BY <1>1, <1>3, <1>4, SizesAssumption

(***************************************************************************)
(* The buffer: its operations                                              *)
(***************************************************************************)

\* The data of a push.
LEMMA DataFacts ==
    ASSUME NEW d \in Buf!Data
    PROVE  d \in Seq(Byte) /\ Len(d) \in 0..SizeMax /\ Len(d) <= MaxPush
<1>1. PICK n \in 0..MaxPush : d \in [1..n -> Byte]
  BY DEF Buf!Data
<1>2. n \in Nat /\ n <= MaxPush
  BY SizesAssumption
<1>3. PICK p \in Buf!Pow2 : MaxAlloc + MaxPush <= p
  BY SizesAssumption
<1>4. p \in Nat /\ p <= SizeMax
  BY SizeRange
<1>5. n <= SizeMax
  BY ONLY <1>2, <1>3, <1>4, SizesAssumption
<1>6. d \in Seq(Byte) /\ Len(d) = n
  BY ONLY <1>1, <1>2
<1> QED BY ONLY <1>2, <1>5, <1>6

\* shl_buf_push() appends the data, or changes nothing.
LEMMA PushStep ==
    ASSUME BufOK, NEW d \in Buf!Data, NEW room \in BOOLEAN, Buf!shl_buf_push(d, room)
    PROVE  BufOK'
<1>0. d \in Seq(Byte) /\ Len(d) \in 0..SizeMax /\ Len(d) <= MaxPush
  BY DataFacts
<1>1. size \in {0} \cup Buf!Pow2 /\ size \in Nat /\ size <= SizeMax /\ size <= MaxAlloc
  BY SizeRange DEF BufOK
<1>2. used \in Nat /\ used <= size /\ used \in 0..SizeMax
  BY <1>1, SizesAssumption DEF BufOK
<1>3. PICK nlen : nlen = Buf!Word(used + Len(d))
  OBVIOUS
<1>4. PICK res : res = Buf!shl_greedy_realloc(buf, size, nlen, room)
  OBVIOUS
<1>5. PICK src : src = [i \in 0..(Len(d) - 1) |-> d[i + 1]]
  OBVIOUS
<1>6. IF Len(d) > 0 /\ nlen > used /\ res.ok
      THEN /\ buf' = Buf!Memcpy(res.mem, used, src, 0, Len(d))
           /\ size' = res.size /\ used' = used + Len(d) /\ content' = content \o d
      ELSE UNCHANGED <<buf, size, used, content>>
  BY <1>3, <1>4, <1>5 DEF Buf!shl_buf_push, Buf!bufVars
<1>7. CASE ~(Len(d) > 0 /\ nlen > used /\ res.ok)
  BY <1>6, <1>7 DEF BufOK
<1>8. CASE Len(d) > 0 /\ nlen > used /\ res.ok
  <2>1. nlen = used + Len(d) /\ nlen \in Nat
    BY <1>0, <1>2, <1>3, <1>8, PushedSize
  <2>2. \E m \in Buf!Pow2 : /\ nlen <= m /\ m \in Nat /\ res.size = m /\ m <= MaxAlloc
                            /\ DOMAIN res.mem = 0..(m - 1)
                            /\ \A i \in 0..(used - 1) : res.mem[i] = buf[i]
    <3>1. buf = [i \in 0..(size - 1) |-> buf[i]]
      BY DEF BufOK
    <3>2. Reallocated(res, buf, size, nlen)
      <4>1. PICK p \in Buf!Pow2 : DefaultSize <= p /\ MaxAlloc + MaxPush <= p /\ p \in Nat
        BY SizesAssumption, SizeRange
      <4>2. nlen <= p
        BY <1>0, <1>1, <1>2, <2>1, <4>1, SizesAssumption
      <4> QED BY ONLY <1>1, <1>4, <2>1, <3>1, <4>1, <4>2, room \in BOOLEAN, Realloc
    <3>3. CASE size >= nlen /\ res = [ok |-> size > 0, mem |-> buf, size |-> size]
      <4>0. size # 0
        <5>1. size >= nlen /\ nlen > used
          BY ONLY <1>8, <3>3
        <5> QED BY ONLY <1>1, <1>2, <2>1, <5>1
      <4>1. size \in Buf!Pow2 /\ DOMAIN buf = 0..(size - 1)
        BY ONLY <1>1, <3>1, <4>0
      <4>2. res.size = size /\ res.mem = buf /\ nlen <= size
        BY <1>1, <2>1, <3>3
      <4> QED BY <1>1, <4>1, <4>2
    <3>4. CASE size < nlen /\ res = [ok |-> FALSE, mem |-> buf, size |-> size]
      BY <1>8, <3>4
    <3>5. CASE \E m \in Buf!Pow2 :
                  /\ size < nlen /\ nlen <= m /\ m <= MaxAlloc
                  /\ res = [ok |-> TRUE, size |-> m,
                            mem |-> [i \in 0..(m - 1) |-> IF i < size THEN buf[i] ELSE Undef]]
      <4>1. PICK m \in Buf!Pow2 :
                  /\ size < nlen /\ nlen <= m /\ m <= MaxAlloc
                  /\ res = [ok |-> TRUE, size |-> m,
                            mem |-> [i \in 0..(m - 1) |-> IF i < size THEN buf[i] ELSE Undef]]
        BY <3>5
      <4>2. m \in Nat /\ \A i \in 0..(used - 1) : i \in 0..(m - 1) /\ i < size
        <5>1. m \in Nat
          BY <4>1, SizeRange
        <5>2. size < m
          BY ONLY <1>1, <2>1, <4>1, <5>1
        <5> QED BY ONLY <1>1, <1>2, <5>1, <5>2
      <4>3. res.size = m /\ res.mem = [i \in 0..(m - 1) |-> IF i < size THEN buf[i] ELSE Undef]
        BY ONLY <4>1
      <4>4. DOMAIN res.mem = 0..(m - 1) /\ \A i \in 0..(used - 1) : res.mem[i] = buf[i]
        BY ONLY <4>2, <4>3
      <4> QED BY ONLY <4>1, <4>2, <4>3, <4>4
    <3> QED BY ONLY <3>2, <3>3, <3>4, <3>5 DEF Reallocated
  <2>3. PICK m \in Buf!Pow2 : /\ nlen <= m /\ m \in Nat /\ res.size = m /\ m <= MaxAlloc
                              /\ DOMAIN res.mem = 0..(m - 1)
                              /\ \A i \in 0..(used - 1) : res.mem[i] = buf[i]
    BY <2>2
  <2>4. buf' = [i \in 0..(m - 1) |-> IF used <= i /\ i < used + Len(d)
                                    THEN src[0 + (i - used)] ELSE res.mem[i]]
    BY <1>6, <1>8, <2>3 DEF Buf!Memcpy
  <2>5. buf' = [i \in 0..(size' - 1) |-> buf'[i]] /\ size' = m /\ used' = nlen
    BY <1>6, <1>8, <2>1, <2>3, <2>4
  <2>6. content' \in Seq(Byte) /\ Len(content') = used'
    <3>1. /\ content' = content \o d /\ used' = used + Len(d)
          /\ content \in Seq(Byte) /\ Len(content) = used
      BY <1>6, <1>8 DEF BufOK
    <3> QED BY ONLY <1>0, <3>1
  <2>7. \A i \in 1..used' : content'[i] = buf'[i - 1]
    <3> SUFFICES ASSUME NEW i \in 1..nlen PROVE content'[i] = buf'[i - 1]
      BY <2>5
    <3>1. content' = content \o d /\ content \in Seq(Byte) /\ Len(content) = used
      BY <1>6, <1>8 DEF BufOK
    <3>2. i \in Nat /\ i - 1 \in 0..(m - 1)
      BY <2>1, <2>3
    <3>3. CASE i <= used
      <4>1. content'[i] = content[i]
        BY <1>0, <1>2, <3>1, <3>2, <3>3
      <4>2. buf'[i - 1] = buf[i - 1]
        BY <1>2, <2>3, <2>4, <3>2, <3>3
      <4>3. i \in 1..used
        BY <1>2, <3>3
      <4> QED BY <4>1, <4>2, <4>3 DEF BufOK
    <3>4. CASE i > used
      <4>1. PICK k \in 1..Len(d) : i = used + k
        BY <1>0, <1>2, <2>1, <3>2, <3>4
      <4>2. content'[i] = d[k]
        BY <1>0, <1>2, <3>1, <4>1
      <4>3. buf'[i - 1] = src[k - 1]
        <5>1. used <= i - 1 /\ i - 1 < used + Len(d) /\ 0 + ((i - 1) - used) = k - 1
          BY <1>0, <1>2, <4>1
        <5> QED BY ONLY <2>4, <3>2, <5>1
      <4>4. src[k - 1] = d[k]
        <5>1. k - 1 \in 0..(Len(d) - 1) /\ (k - 1) + 1 = k
          BY <1>0, <4>1
        <5> QED BY ONLY <1>5, <5>1
      <4> QED BY <4>2, <4>3, <4>4
    <3> QED BY <1>2, <3>2, <3>3, <3>4
  <2>8. size' \in {0} \cup Buf!Pow2 /\ size' <= MaxAlloc /\ used' \in 0..size'
    BY <2>1, <2>3, <2>5
  <2> QED BY <2>5, <2>6, <2>7, <2>8 DEF BufOK
<1> QED BY <1>7, <1>8

\* shl_buf_pop() drops bytes from the end.
LEMMA PopStep ==
    ASSUME BufOK, NEW l \in Nat, Buf!shl_buf_pop(l)
    PROVE  BufOK'
<1>1. used \in Nat /\ size \in Nat /\ used <= size /\ Len(content) = used
  BY SizeRange DEF BufOK
<1>2. PICK n \in 0..used : n = Buf!Min({used, l})
  BY <1>1, MinOfTwo
<1>3. /\ used' = used - n /\ content' = SubSeq(content, 1, used - n) /\ buf' = buf /\ size' = size
  BY <1>1, <1>2 DEF Buf!shl_buf_pop
<1>4. content' \in Seq(Byte) /\ Len(content') = used' /\ \A i \in 1..used' : content'[i] = content[i]
  BY <1>1, <1>3 DEF BufOK
<1>5. used' \in 0..size' /\ \A i \in 1..used' : i \in 1..used
  <2>1. used' = used - n /\ size' = size
    BY ONLY <1>3
  <2>2. used \in Nat /\ size \in Nat /\ used <= size
    BY ONLY <1>1
  <2> QED BY ONLY <1>2, <2>1, <2>2
<1>6. \A i \in 1..used' : content'[i] = buf'[i - 1]
  BY <1>3, <1>4, <1>5 DEF BufOK
<1> QED BY <1>3, <1>4, <1>5, <1>6 DEF BufOK

\* shl_buf_pull() drops bytes from the front and moves the rest there.
LEMMA PullStep ==
    ASSUME BufOK, NEW l \in Nat, Buf!shl_buf_pull(l)
    PROVE  BufOK'
<1>1. used \in Nat /\ size \in Nat /\ used <= size /\ Len(content) = used /\ content \in Seq(Byte)
  BY SizeRange DEF BufOK
<1>2. PICK n \in 0..used : n = Buf!Min({used, l})
  BY <1>1, MinOfTwo
<1>3. /\ used' = used - n /\ content' = SubSeq(content, n + 1, used) /\ size' = size
      /\ buf' = Buf!Memcpy(buf, 0, buf, n, used - n)
  BY <1>1, <1>2 DEF Buf!shl_buf_pull
<1>4. /\ content' \in Seq(Byte) /\ Len(content') = used'
      /\ \A i \in 1..used' : content'[i] = content[n + i]
  <2>1. n \in Nat /\ n <= used /\ n + 1 \in 1..(used + 1)
    BY ONLY <1>1, <1>2
  <2>2. content' \in Seq(Byte) /\ Len(content') = used - n
    BY ONLY <1>1, <1>3, <2>1
  <2>3. \A i \in 1..(used - n) : content'[i] = content[(n + 1) + i - 1] /\ (n + 1) + i - 1 = n + i
    BY ONLY <1>1, <1>3, <2>1
  <2> QED BY ONLY <1>3, <2>2, <2>3
<1>5. DOMAIN buf = 0..(size - 1)
  BY DEF BufOK
<1>6. buf' = [i \in 0..(size - 1) |-> IF 0 <= i /\ i < 0 + (used - n)
                                     THEN buf[n + (i - 0)] ELSE buf[i]]
  BY <1>3, <1>5 DEF Buf!Memcpy
<1>7. buf' = [i \in 0..(size' - 1) |-> buf'[i]]
  BY <1>3, <1>6
<1>8. \A i \in 1..used' : content'[i] = buf'[i - 1]
  <2> SUFFICES ASSUME NEW i \in 1..used' PROVE content'[i] = buf'[i - 1]
    OBVIOUS
  <2>1. /\ i - 1 \in 0..(size - 1) /\ 0 <= i - 1 /\ i - 1 < 0 + (used - n)
        /\ n + ((i - 1) - 0) = (n + i) - 1 /\ n + i \in 1..used
    BY <1>1, <1>2, <1>3
  <2>2. buf'[i - 1] = buf[(n + i) - 1]
    BY ONLY <1>6, <2>1
  <2>3. content[n + i] = buf[(n + i) - 1]
    BY <2>1 DEF BufOK
  <2> QED BY <1>4, <2>2, <2>3
<1>9. size' \in {0} \cup Buf!Pow2 /\ size' <= MaxAlloc /\ used' \in 0..size'
  BY <1>1, <1>2, <1>3 DEF BufOK
<1> QED BY <1>4, <1>7, <1>8, <1>9 DEF BufOK

\* shl_greedy_realloc0_t() keeps what the user has set and adds zeros.
LEMMA GrowStep ==
    ASSUME ArrOK, NEW need \in 0..MaxNeed, NEW room \in BOOLEAN, Buf!shl_greedy_realloc0_t(need, room)
    PROVE  ArrOK'
<1>1. cnt \in {0} \cup Buf!Pow2 /\ cnt \in Nat /\ cnt <= MaxAlloc /\ MaxAlloc \in Nat
  BY SizeRange, SizesAssumption DEF ArrOK
<1>2. PICK res : res = Buf!shl_greedy_realloc(arr, cnt, need, room)
  OBVIOUS
<1>3. PICK z : z = Buf!Zeroed(res, cnt, need)
  OBVIOUS
<1>4. arr' = z.mem /\ cnt' = z.size /\ elems' = elems
  BY <1>2, <1>3 DEF Buf!shl_greedy_realloc0_t
<1>5. z = [res EXCEPT !.mem = [i \in DOMAIN res.mem |-> IF cnt <= i THEN 0 ELSE res.mem[i]]]
  BY <1>3 DEF Buf!Zeroed
<1>6. arr = [i \in 0..(cnt - 1) |-> elems[i]]
  BY DEF ArrOK
<1>7. Reallocated(res, arr, cnt, need)
  <2>1. arr = [i \in 0..(cnt - 1) |-> arr[i]]
    BY <1>6
  <2>2. PICK p \in Buf!Pow2 : DefaultSize <= p /\ MaxNeed <= p /\ p \in Nat
    BY SizesAssumption, SizeRange
  <2>3. need \in Nat /\ need <= p
    BY <2>2, SizesAssumption
  <2> QED BY ONLY <1>1, <1>2, <2>1, <2>2, <2>3, room \in BOOLEAN, Realloc
<1>8. CASE \E v : res = [ok |-> v, mem |-> arr, size |-> cnt]
  <2>1. z.size = cnt /\ z.mem = [i \in 0..(cnt - 1) |-> IF cnt <= i THEN 0 ELSE arr[i]]
    BY <1>5, <1>6, <1>8
  <2>2. \A i \in 0..(cnt - 1) : (IF cnt <= i THEN 0 ELSE arr[i]) = elems[i]
    BY <1>1, <1>6
  <2>3. z.mem = [i \in 0..(cnt - 1) |-> elems[i]]
    BY ONLY <2>1, <2>2
  <2> QED BY <1>4, <2>1, <2>3 DEF ArrOK
<1>9. CASE \E m \in Buf!Pow2 :
            /\ cnt < need /\ need <= m /\ m <= MaxAlloc
            /\ res = [ok |-> TRUE, size |-> m,
                      mem |-> [i \in 0..(m - 1) |-> IF i < cnt THEN arr[i] ELSE Undef]]
  <2>1. PICK m \in Buf!Pow2 :
            /\ cnt < need /\ need <= m /\ m <= MaxAlloc
            /\ res = [ok |-> TRUE, size |-> m,
                      mem |-> [i \in 0..(m - 1) |-> IF i < cnt THEN arr[i] ELSE Undef]]
    BY <1>9
  <2>2. m \in Nat /\ cnt < m
    <3>1. m \in Nat
      BY <2>1, SizeRange
    <3>2. need \in Nat
      BY SizesAssumption
    <3> QED BY ONLY <1>1, <2>1, <3>1, <3>2
  <2>3. /\ DOMAIN res.mem = 0..(m - 1)
        /\ \A i \in 0..(m - 1) : res.mem[i] = IF i < cnt THEN arr[i] ELSE Undef
    BY ONLY <2>1
  <2>4. z.size = m /\ z.mem = [i \in 0..(m - 1) |-> IF cnt <= i THEN 0 ELSE res.mem[i]]
    BY ONLY <1>5, <2>1, <2>3
  <2>5. \A i \in 0..(m - 1) : (IF cnt <= i THEN 0 ELSE res.mem[i]) = elems[i]
    <3> SUFFICES ASSUME NEW i \in 0..(m - 1)
                 PROVE  (IF cnt <= i THEN 0 ELSE res.mem[i]) = elems[i]
      OBVIOUS
    <3>1. CASE cnt <= i
      <4>1. i \in 0..(MaxAlloc - 1)
        BY <1>1, <2>1, <2>2
      <4> QED BY <3>1, <4>1 DEF ArrOK
    <3>2. CASE ~(cnt <= i)
      <4>1. i < cnt /\ i \in 0..(cnt - 1)
        BY <1>1, <2>2, <3>2
      <4> QED BY <1>6, <2>3, <3>2, <4>1
    <3> QED BY <3>1, <3>2
  <2>6. z.mem = [i \in 0..(m - 1) |-> elems[i]]
    BY ONLY <2>4, <2>5
  <2>7. \A i \in 0..(MaxAlloc - 1) : m <= i => elems[i] = 0
    BY <1>1, <2>2 DEF ArrOK
  <2>8. cnt' = m /\ arr' = [i \in 0..(m - 1) |-> elems[i]] /\ elems' = elems
    BY ONLY <1>4, <2>4, <2>6
  <2> QED BY <2>1, <2>7, <2>8 DEF ArrOK
<1> QED BY ONLY <1>7, <1>8, <1>9 DEF Reallocated

\* The user sets an element.
LEMMA SetElementStep ==
    ASSUME ArrOK, NEW i \in Nat, NEW v \in Byte, Buf!SetElement(i, v)
    PROVE  ArrOK'
<1>1. cnt \in Nat /\ cnt <= MaxAlloc /\ MaxAlloc \in Nat
  BY SizeRange, SizesAssumption DEF ArrOK
<1>2. /\ i < cnt /\ arr' = [arr EXCEPT ![i] = v] /\ elems' = [elems EXCEPT ![i] = v] /\ cnt' = cnt
  BY DEF Buf!SetElement
<1>3. i \in 0..(MaxAlloc - 1) /\ i \in 0..(cnt - 1)
  BY <1>1, <1>2
<1>4. elems' \in [0..(MaxAlloc - 1) -> Byte]
  BY <1>2, <1>3 DEF ArrOK
<1>5. \A k \in 0..(MaxAlloc - 1) : elems'[k] = IF k = i THEN v ELSE elems[k]
  BY <1>2 DEF ArrOK
<1>6. arr' = [k \in 0..(cnt - 1) |-> IF k = i THEN v ELSE elems[k]]
  BY <1>2, <1>3 DEF ArrOK
<1>7. \A k \in 0..(cnt - 1) : k \in 0..(MaxAlloc - 1)
  BY <1>1
<1>8. arr' = [k \in 0..(cnt - 1) |-> elems'[k]]
  BY ONLY <1>5, <1>6, <1>7
<1>9. \A k \in 0..(MaxAlloc - 1) : cnt <= k => elems'[k] = 0
  BY <1>1, <1>2, <1>5 DEF ArrOK
<1> QED BY <1>2, <1>4, <1>8, <1>9 DEF ArrOK

\* The buffer holds exactly what was pushed and not popped or pulled, for any
\* sizes of words, data and allocations, through the wrap-around of
\* shl_buf_push(), the growth of shl_greedy_realloc() and its failures, and
\* shl_greedy_realloc0_t() hands out nothing but zeros.
THEOREM BufferIsExact == Spec => []BufExact
<1>1. Init => BufOK /\ ArrOK
  <2> SUFFICES ASSUME Init PROVE BufOK /\ ArrOK
    OBVIOUS
  <2>1. /\ buf = [i \in 0..(0 - 1) |-> Undef] /\ size = 0 /\ used = 0 /\ content = << >>
        /\ arr = [i \in 0..(0 - 1) |-> Undef] /\ cnt = 0
        /\ elems = [i \in 0..(MaxAlloc - 1) |-> 0]
    BY DEF Init, Buf!Init, Buf!Malloc
  <2>2. BufOK
    BY <2>1, SizesAssumption DEF BufOK
  <2>3. ArrOK
    BY <2>1, SizesAssumption, HelpersAssumption DEF ArrOK
  <2> QED BY <2>2, <2>3
<1>2. BufOK /\ ArrOK /\ [Next]_vars => (BufOK /\ ArrOK)'
  <2> SUFFICES ASSUME BufOK, ArrOK, [Next]_vars PROVE BufOK' /\ ArrOK'
    OBVIOUS
  <2>1. CASE UNCHANGED bufVars
    BY <2>1 DEF bufVars, BufOK, ArrOK
  <2>2. CASE Buf!Next
    <3>1. MaxPush \in Nat /\ MaxNeed \in Nat
      BY SizesAssumption
    <3>2. ASSUME NEW d \in Buf!Data, NEW room \in BOOLEAN, Buf!shl_buf_push(d, room)
          PROVE  BufOK' /\ ArrOK'
      <4>1. UNCHANGED <<arr, cnt, elems>>
        BY <3>2 DEF Buf!shl_buf_push, Buf!arrVars
      <4>2. BufOK'
        BY <3>2, PushStep
      <4> QED BY <4>1, <4>2 DEF ArrOK
    <3>3. ASSUME NEW l \in 0..MaxPush, Buf!shl_buf_pop(l) PROVE BufOK' /\ ArrOK'
      <4>1. UNCHANGED <<arr, cnt, elems>>
        BY <3>3 DEF Buf!shl_buf_pop, Buf!arrVars
      <4>2. BufOK'
        BY <3>1, <3>3, PopStep
      <4> QED BY <4>1, <4>2 DEF ArrOK
    <3>4. ASSUME NEW l \in 0..MaxPush, Buf!shl_buf_pull(l) PROVE BufOK' /\ ArrOK'
      <4>1. UNCHANGED <<arr, cnt, elems>>
        BY <3>4 DEF Buf!shl_buf_pull, Buf!arrVars
      <4>2. BufOK'
        BY <3>1, <3>4, PullStep
      <4> QED BY <4>1, <4>2 DEF ArrOK
    <3>5. CASE Buf!shl_buf_flush
      <4>1. UNCHANGED <<arr, cnt, elems, buf, size>> /\ used' = 0 /\ content' = << >>
        BY <3>5 DEF Buf!shl_buf_flush, Buf!arrVars
      <4>2. BufOK'
        BY <4>1, SizeRange DEF BufOK
      <4> QED BY <4>1, <4>2 DEF ArrOK
    <3>6. CASE Buf!shl_buf_clear
      <4>1. /\ UNCHANGED <<arr, cnt, elems>> /\ used' = 0 /\ content' = << >> /\ size' = 0
            /\ buf' = [i \in 0..(0 - 1) |-> Undef]
        BY <3>6 DEF Buf!shl_buf_clear, Buf!arrVars, Buf!Malloc
      <4>2. BufOK'
        BY <4>1, SizesAssumption DEF BufOK
      <4> QED BY <4>1, <4>2 DEF ArrOK
    <3>7. ASSUME NEW need \in 0..MaxNeed, NEW room \in BOOLEAN,
                 Buf!shl_greedy_realloc0_t(need, room)
          PROVE  BufOK' /\ ArrOK'
      <4>1. UNCHANGED <<buf, size, used, content>>
        BY <3>7 DEF Buf!shl_greedy_realloc0_t, Buf!bufVars
      <4>2. ArrOK'
        BY <3>1, <3>7, GrowStep
      <4> QED BY <4>1, <4>2 DEF BufOK
    <3>8. ASSUME NEW i \in 0..(MaxNeed - 1), NEW v \in Byte, Buf!SetElement(i, v)
          PROVE  BufOK' /\ ArrOK'
      <4>1. UNCHANGED <<buf, size, used, content>>
        BY <3>8 DEF Buf!SetElement, Buf!bufVars
      <4>2. ArrOK'
        BY <3>1, <3>8, SetElementStep
      <4> QED BY <4>1, <4>2 DEF BufOK
    <3> QED BY <2>2, <3>2, <3>3, <3>4, <3>5, <3>6, <3>7, <3>8 DEF Buf!Next
  <2> QED BY <2>1, <2>2 DEF Next, RunDlist, RunNumbers, RunStrings, RunBuf, RunRatelimit,
                           RunDirectories, vars
<1>3. BufOK /\ ArrOK => BufExact
  <2> SUFFICES ASSUME BufOK, ArrOK PROVE BufExact
    OBVIOUS
  <2>1. used \in Nat /\ used <= size /\ DOMAIN buf = 0..(size - 1)
    BY SizeRange DEF BufOK
  <2>2. content = [i \in 1..used |-> buf[i - 1]]
    <3>1. content \in Seq(Byte) /\ Len(content) = used /\ \A i \in 1..used : content[i] = buf[i - 1]
      BY DEF BufOK
    <3>2. content = [i \in 1..used |-> content[i]]
      BY ONLY <3>1
    <3> QED BY ONLY <3>1, <3>2, Zenon
  <2> QED BY <2>1, <2>2 DEF BufExact, Buf!BufExact, BufOK, ArrOK
<1> QED BY <1>1, <1>2, <1>3, PTL DEF Spec

(***************************************************************************)
(* The lists: the inductive invariant                                      *)
(***************************************************************************)

ListNode == Dlist!Node

\* Position i of the list of h: the head, then its elements; and the node
\* that follows it around the circle.
Nth(h, i)   == IF i = 0 THEN h ELSE order[h][i]
After(h, i) == IF i = Len(order[h]) THEN h ELSE order[h][i + 1]

ListType ==
    /\ next \in [ListNode -> ListNode \cup {NULL}]
    /\ prev \in [ListNode -> ListNode \cup {NULL}]
    /\ order \in [ListHead -> Seq(Elem)]

\* No element is in two places.
Distinct ==
    \A h, g \in ListHead : \A i \in 1..Len(order[h]), j \in 1..Len(order[g]) :
        order[h][i] = order[g][j] => h = g /\ i = j

\* The pointers of both directions.
Linked ==
    \A h \in ListHead : \A i \in 0..Len(order[h]) :
        next[Nth(h, i)] = After(h, i) /\ prev[After(h, i)] = Nth(h, i)

\* An element that is in no list has no pointers.
Unlinked ==
    \A e \in Elem : (\A h \in ListHead : \A i \in 1..Len(order[h]) : order[h][i] # e)
                       => next[e] = NULL /\ prev[e] = NULL

ListInv == ListType /\ Distinct /\ Linked /\ Unlinked

\* The node is in the list of h.
InList(h, n) == \E i \in 0..Len(order[h]) : n = Nth(h, i)

LoopType ==
    loop \in [kind : Dlist!Kinds, rev : BOOLEAN, head : ListHead, start : ListNode,
              iter : ListNode, tmp : ListNode \cup {NULL}, stay : SUBSET Elem,
              visited : Seq(ListNode)]

\* What a loop holds on to is in its list.
LoopInv ==
    loop # Dlist!Idle =>
        /\ LoopType
        /\ InList(loop.head, loop.start)
        /\ loop.kind = "safe" => loop.start = loop.head /\ InList(loop.head, loop.tmp)
        /\ loop.kind # "safe" => InList(loop.head, loop.iter)

(***************************************************************************)
(* The lists: positions                                                    *)
(***************************************************************************)

\* Heads and elements.
LEMMA Heads ==
    /\ \A h \in ListHead : h \in ListNode /\ h \notin Elem /\ h # NULL
    /\ \A e \in Elem : e \in ListNode /\ e \notin ListHead /\ e # NULL
    /\ NULL \notin ListNode
BY HelpersAssumption DEF ListNode, Dlist!Node

\* The nodes of a list.
LEMMA NthType ==
    ASSUME ListType, NEW h \in ListHead
    PROVE  /\ order[h] \in Seq(Elem) /\ Len(order[h]) \in Nat
           /\ \A i \in 1..Len(order[h]) : order[h][i] \in Elem
           /\ \A i \in 0..Len(order[h]) : Nth(h, i) \in ListNode /\ After(h, i) \in ListNode
<1>1. order[h] \in Seq(Elem) /\ Len(order[h]) \in Nat
  BY DEF ListType
<1>2. \A i \in 1..Len(order[h]) : order[h][i] \in Elem
  BY <1>1
<1>3. \A i \in 0..Len(order[h]) : Nth(h, i) \in ListNode
  BY <1>1, <1>2, Heads DEF Nth
<1>4. \A i \in 0..Len(order[h]) : After(h, i) \in ListNode
  <2> SUFFICES ASSUME NEW i \in 0..Len(order[h]), i # Len(order[h]) PROVE order[h][i + 1] \in ListNode
    BY Heads DEF After
  <2>1. i + 1 \in 1..Len(order[h])
    BY <1>1
  <2> QED BY <1>2, <2>1, Heads
<1> QED BY <1>1, <1>2, <1>3, <1>4

\* What follows a position is the next one, or the head.
LEMMA AfterNth ==
    ASSUME ListType, NEW h \in ListHead, NEW i \in 0..Len(order[h])
    PROVE  IF i = Len(order[h]) THEN After(h, i) = Nth(h, 0)
           ELSE i + 1 \in 1..Len(order[h]) /\ After(h, i) = Nth(h, i + 1)
<1>1. Len(order[h]) \in Nat /\ i \in Nat
  BY NthType
<1>2. i + 1 # 0
  BY <1>1
<1> QED BY <1>1, <1>2 DEF After, Nth

\* A node is at one position only.
LEMMA NthOnce ==
    ASSUME ListType, Distinct, NEW h \in ListHead, NEW g \in ListHead,
           NEW i \in 0..Len(order[h]), NEW j \in 0..Len(order[g]), Nth(h, i) = Nth(g, j)
    PROVE  h = g /\ i = j
<1>1. Len(order[h]) \in Nat /\ Len(order[g]) \in Nat
  BY NthType
<1>2. CASE i = 0 /\ j = 0
  BY <1>2 DEF Nth
<1>3. CASE i = 0 /\ j # 0
  <2>1. j \in 1..Len(order[g])
    BY <1>1, <1>3
  <2> QED BY <1>3, <2>1, NthType, Heads DEF Nth
<1>4. CASE i # 0 /\ j = 0
  <2>1. i \in 1..Len(order[h])
    BY <1>1, <1>4
  <2> QED BY <1>4, <2>1, NthType, Heads DEF Nth
<1>5. CASE i # 0 /\ j # 0
  <2>1. i \in 1..Len(order[h]) /\ j \in 1..Len(order[g])
    BY <1>1, <1>5
  <2>2. order[h][i] = order[g][j]
    BY <1>5 DEF Nth
  <2> QED BY <2>1, <2>2 DEF Distinct
<1> QED BY <1>2, <1>3, <1>4, <1>5

\* A node follows one position only.
LEMMA AfterOnce ==
    ASSUME ListType, Distinct, NEW h \in ListHead, NEW g \in ListHead,
           NEW i \in 0..Len(order[h]), NEW j \in 0..Len(order[g]), After(h, i) = After(g, j)
    PROVE  h = g /\ i = j
<1>1. Len(order[h]) \in Nat /\ Len(order[g]) \in Nat /\ i \in Nat /\ j \in Nat
  BY NthType
<1>2. PICK k \in 0..Len(order[h]) : /\ After(h, i) = Nth(h, k)
                                    /\ (i = Len(order[h]) /\ k = 0) \/ (i # Len(order[h]) /\ k = i + 1)
  <2>1. CASE i = Len(order[h])
    BY <1>1, <2>1, AfterNth
  <2>2. CASE i # Len(order[h])
    <3>1. i + 1 \in 1..Len(order[h]) /\ After(h, i) = Nth(h, i + 1)
      BY <2>2, AfterNth
    <3>2. i + 1 \in 0..Len(order[h])
      BY <1>1, <3>1
    <3> QED BY <2>2, <3>1, <3>2
  <2> QED BY <2>1, <2>2
<1>3. PICK l \in 0..Len(order[g]) : /\ After(g, j) = Nth(g, l)
                                    /\ (j = Len(order[g]) /\ l = 0) \/ (j # Len(order[g]) /\ l = j + 1)
  <2>1. CASE j = Len(order[g])
    BY <1>1, <2>1, AfterNth
  <2>2. CASE j # Len(order[g])
    <3>1. j + 1 \in 1..Len(order[g]) /\ After(g, j) = Nth(g, j + 1)
      BY <2>2, AfterNth
    <3>2. j + 1 \in 0..Len(order[g])
      BY <1>1, <3>1
    <3> QED BY <2>2, <3>1, <3>2
  <2> QED BY <2>1, <2>2
<1>4. h = g /\ k = l
  <2>1. Nth(h, k) = Nth(g, l)
    BY <1>2, <1>3
  <2> QED BY ONLY ListType, Distinct, h \in ListHead, g \in ListHead, k \in 0..Len(order[h]),
                  l \in 0..Len(order[g]), <2>1, NthOnce
<1>5. i = j
  BY <1>1, <1>2, <1>3, <1>4
<1> QED BY <1>4, <1>5

\* An element without pointers is in no list, and one with pointers in one.
LEMMA LinkedElem ==
    ASSUME ListInv, NEW e \in Elem
    PROVE  /\ Dlist!shl_dlist_linked(e) => \E h \in ListHead : \E k \in 1..Len(order[h]) : order[h][k] = e
           /\ ~Dlist!shl_dlist_linked(e) => \A h \in ListHead : \A k \in 0..Len(order[h]) :
                                               Nth(h, k) # e /\ After(h, k) # e
<1>1. Dlist!shl_dlist_linked(e) => \E h \in ListHead : \E k \in 1..Len(order[h]) : order[h][k] = e
  BY DEF ListInv, Unlinked, Dlist!shl_dlist_linked
<1>2. ASSUME NEW h \in ListHead, NEW k \in 0..Len(order[h]), Nth(h, k) = e
      PROVE  Dlist!shl_dlist_linked(e)
  <2>1. k # 0 /\ k \in Nat /\ Len(order[h]) \in Nat
    BY <1>2, Heads, NthType DEF ListInv, Nth
  <2>2. k - 1 \in 0..Len(order[h]) /\ k - 1 # Len(order[h]) /\ (k - 1) + 1 = k
    BY <2>1
  <2>3. After(h, k - 1) = e
    BY <1>2, <2>1, <2>2 DEF After, Nth
  <2>4. next[e] = After(h, k) /\ prev[e] = Nth(h, k - 1)
    BY <1>2, <2>2, <2>3 DEF ListInv, Linked
  <2>5. After(h, k) \in ListNode /\ Nth(h, k - 1) \in ListNode
    BY <2>2, NthType DEF ListInv
  <2> QED BY <2>4, <2>5, Heads DEF Dlist!shl_dlist_linked
<1>3. ASSUME NEW h \in ListHead, NEW k \in 0..Len(order[h]), After(h, k) = e
      PROVE  Dlist!shl_dlist_linked(e)
  <2>1. Len(order[h]) \in Nat /\ ListType
    BY NthType DEF ListInv
  <2>2. k # Len(order[h])
    BY <1>3, Heads DEF After
  <2>3. k + 1 \in 1..Len(order[h]) /\ Nth(h, k + 1) = e
    BY <1>3, <2>1, <2>2, AfterNth
  <2>4. k + 1 \in 0..Len(order[h])
    BY <2>1, <2>3
  <2> QED BY <1>2, <2>3, <2>4
<1> QED BY <1>1, <1>2, <1>3

(***************************************************************************)
(* The lists: linking and unlinking                                        *)
(***************************************************************************)

\* n comes behind position k of the list of h, and nothing else changes.
Inserted(h, k, n) ==
    /\ order' \in [ListHead -> Seq(Elem)]
    /\ \A g \in ListHead : g # h => order'[g] = order[g]
    /\ Len(order'[h]) = Len(order[h]) + 1
    /\ \A i \in 1..(Len(order[h]) + 1) :
          order'[h][i] = IF i <= k THEN order[h][i] ELSE IF i = k + 1 THEN n ELSE order[h][i - 1]

\* The positions behind it move on.
LEMMA InsertedNth ==
    ASSUME ListType, NEW h \in ListHead, NEW k \in 0..Len(order[h]), NEW n, Inserted(h, k, n)
    PROVE  /\ \A g \in ListHead : g # h =>
                 /\ Len(order'[g]) = Len(order[g])
                 /\ \A i \in 0..Len(order[g]) : Nth(g, i)' = Nth(g, i) /\ After(g, i)' = After(g, i)
           /\ \A i \in 0..k : Nth(h, i)' = Nth(h, i)
           /\ Nth(h, k + 1)' = n
           /\ \A i \in (k + 1)..Len(order[h]) : Nth(h, i + 1)' = Nth(h, i)
           /\ \A i \in 0..(k - 1) : After(h, i)' = After(h, i)
           /\ After(h, k)' = n
           /\ \A i \in k..Len(order[h]) : After(h, i + 1)' = After(h, i)
<1>0. Len(order[h]) \in Nat /\ k \in Nat /\ k <= Len(order[h])
  BY NthType
<1>1. Len(order'[h]) = Len(order[h]) + 1
  BY DEF Inserted
<1>2. \A i \in 1..k : order'[h][i] = order[h][i]
  BY <1>0 DEF Inserted
<1>3. order'[h][k + 1] = n
  BY <1>0 DEF Inserted
<1>4. \A i \in (k + 1)..Len(order[h]) : order'[h][i + 1] = order[h][i]
  <2> SUFFICES ASSUME NEW i \in (k + 1)..Len(order[h]) PROVE order'[h][i + 1] = order[h][i]
    OBVIOUS
  <2>1. i + 1 \in 1..(Len(order[h]) + 1) /\ ~(i + 1 <= k) /\ i + 1 # k + 1 /\ (i + 1) - 1 = i
    BY <1>0
  <2>2. \A j \in 1..(Len(order[h]) + 1) :
          order'[h][j] = IF j <= k THEN order[h][j] ELSE IF j = k + 1 THEN n ELSE order[h][j - 1]
    BY DEF Inserted
  <2> QED BY ONLY <2>1, <2>2
<1>5. ASSUME NEW g \in ListHead, g # h
      PROVE  /\ Len(order'[g]) = Len(order[g])
             /\ \A i \in 0..Len(order[g]) : Nth(g, i)' = Nth(g, i) /\ After(g, i)' = After(g, i)
  BY <1>5 DEF Inserted, Nth, After
<1>6. \A i \in 0..k : Nth(h, i)' = Nth(h, i)
  BY <1>0, <1>2 DEF Nth
<1>7. Nth(h, k + 1)' = n
  BY <1>0, <1>3 DEF Nth
<1>8. \A i \in (k + 1)..Len(order[h]) : Nth(h, i + 1)' = Nth(h, i)
  <2> SUFFICES ASSUME NEW i \in (k + 1)..Len(order[h]) PROVE Nth(h, i + 1)' = Nth(h, i)
    OBVIOUS
  <2>1. i # 0 /\ i + 1 # 0
    BY <1>0
  <2> QED BY <1>4, <2>1 DEF Nth
<1>9. \A i \in 0..(k - 1) : After(h, i)' = After(h, i)
  <2> SUFFICES ASSUME NEW i \in 0..(k - 1) PROVE After(h, i)' = After(h, i)
    OBVIOUS
  <2>1. i + 1 \in 1..k /\ i # Len(order[h]) /\ i # Len(order'[h])
    BY <1>0, <1>1
  <2> QED BY <1>2, <2>1 DEF After
<1>10. After(h, k)' = n
  <2>1. k # Len(order'[h])
    BY <1>0, <1>1
  <2> QED BY <1>3, <2>1 DEF After
<1>11. \A i \in k..Len(order[h]) : After(h, i + 1)' = After(h, i)
  <2> SUFFICES ASSUME NEW i \in k..Len(order[h]) PROVE After(h, i + 1)' = After(h, i)
    OBVIOUS
  <2>1. CASE i = Len(order[h])
    BY <1>1, <2>1 DEF After
  <2>2. CASE i # Len(order[h])
    <3>1. i + 1 # Len(order'[h]) /\ i + 1 \in (k + 1)..Len(order[h])
      BY <1>0, <1>1, <2>2
    <3>2. order'[h][(i + 1) + 1] = order[h][i + 1]
      BY <1>4, <3>1
    <3> QED BY <2>2, <3>1, <3>2 DEF After
  <2> QED BY <2>1, <2>2
<1> QED BY <1>5, <1>6, <1>7, <1>8, <1>9, <1>10, <1>11

\* What shl_dlist__link() does to the invariant.
LEMMA LinkStep ==
    ASSUME ListInv, NEW h \in ListHead, NEW k \in 0..Len(order[h]), NEW n \in Elem,
           ~Dlist!shl_dlist_linked(n), Inserted(h, k, n),
           Dlist!shl_dlist__link(Nth(h, k), After(h, k), n)
    PROVE  ListInv' /\ \A g \in ListHead : \A m : InList(g, m) => InList(g, m)'
<1>0. ListType /\ Len(order[h]) \in Nat /\ k \in Nat /\ k <= Len(order[h])
  BY NthType DEF ListInv
<1>1. PICK p \in ListNode : p = Nth(h, k)
  BY <1>0, NthType
<1>2. PICK x \in ListNode : x = After(h, k)
  BY <1>0, NthType
<1>3. /\ next' = [next EXCEPT ![n] = x, ![p] = n]
      /\ prev' = [prev EXCEPT ![x] = n, ![n] = p]
  BY <1>1, <1>2 DEF Dlist!shl_dlist__link
<1>4. n \in ListNode /\ n # p /\ n # x
  BY <1>1, <1>2, LinkedElem, Heads
<1>5. /\ next'[n] = x /\ next'[p] = n /\ prev'[x] = n /\ prev'[n] = p
      /\ \A m \in ListNode : (m # n /\ m # p => next'[m] = next[m])
                          /\ (m # n /\ m # x => prev'[m] = prev[m])
  BY <1>0, <1>3, <1>4 DEF ListType
<1>6. ListType'
  BY <1>0, <1>3, <1>4 DEF ListType, Inserted, ListNode
<1>7. /\ \A g \in ListHead : g # h =>
                 /\ Len(order'[g]) = Len(order[g])
                 /\ \A i \in 0..Len(order[g]) : Nth(g, i)' = Nth(g, i) /\ After(g, i)' = After(g, i)
      /\ \A i \in 0..k : Nth(h, i)' = Nth(h, i)
      /\ Nth(h, k + 1)' = n
      /\ \A i \in (k + 1)..Len(order[h]) : Nth(h, i + 1)' = Nth(h, i)
      /\ \A i \in 0..(k - 1) : After(h, i)' = After(h, i)
      /\ After(h, k)' = n
      /\ \A i \in k..Len(order[h]) : After(h, i + 1)' = After(h, i)
  BY <1>0, InsertedNth
<1>8. Len(order'[h]) = Len(order[h]) + 1
  BY DEF Inserted
\* The pointers around a position that has not moved, or has moved with what
\* is around it.
<1>9. ASSUME NEW g \in ListHead, NEW i \in 0..Len(order[g]), g # h \/ i # k
      PROVE  next'[Nth(g, i)] = After(g, i) /\ prev'[After(g, i)] = Nth(g, i)
  <2>1. next[Nth(g, i)] = After(g, i) /\ prev[After(g, i)] = Nth(g, i)
    BY DEF ListInv, Linked
  <2>2. Nth(g, i) \in ListNode /\ After(g, i) \in ListNode
    BY <1>0, NthType
  <2>3. Nth(g, i) # n /\ After(g, i) # n
    BY LinkedElem
  <2>4. Nth(g, i) # p
    BY <1>0, <1>1, <1>9, NthOnce DEF ListInv
  <2>5. After(g, i) # x
    BY <1>0, <1>2, <1>9, AfterOnce DEF ListInv
  <2> QED BY <1>5, <2>1, <2>2, <2>3, <2>4, <2>5
<1>10. Linked'
  <2> SUFFICES ASSUME NEW g \in ListHead, NEW i \in 0..Len(order'[g])
               PROVE  next'[Nth(g, i)'] = After(g, i)' /\ prev'[After(g, i)'] = Nth(g, i)'
    BY DEF Linked
  <2>1. CASE g # h
    BY <1>7, <1>9, <2>1
  <2>2. CASE g = h /\ i < k
    <3>1. i \in 0..k /\ i \in 0..(k - 1) /\ i \in 0..Len(order[h]) /\ i # k
      BY <1>0, <1>8, <2>2
    <3> QED BY <1>7, <1>9, <2>2, <3>1
  <2>3. CASE g = h /\ i = k
    <3>1. Nth(h, k)' = p /\ After(h, k)' = n
      BY <1>0, <1>1, <1>7
    <3> QED BY <1>5, <2>3, <3>1
  <2>4. CASE g = h /\ i = k + 1
    <3>1. Nth(h, k + 1)' = n /\ After(h, k + 1)' = x
      BY <1>0, <1>2, <1>7
    <3> QED BY <1>5, <2>4, <3>1
  <2>5. CASE g = h /\ i > k + 1
    <3>1. PICK j \in (k + 1)..Len(order[h]) : i = j + 1
      BY <1>0, <1>8, <2>5
    <3>2. j \in 0..Len(order[h]) /\ j # k /\ j \in k..Len(order[h])
      BY <1>0, <3>1
    <3>3. Nth(h, j + 1)' = Nth(h, j) /\ After(h, j + 1)' = After(h, j)
      BY <1>7, <3>1, <3>2
    <3> QED BY <1>9, <2>5, <3>1, <3>2, <3>3
  <2>6. i \in Nat /\ (g = h => i < k \/ i = k \/ i = k + 1 \/ i > k + 1)
    BY <1>0
  <2> QED BY <2>1, <2>2, <2>3, <2>4, <2>5, <2>6
<1>11. \A g \in ListHead : \A i \in 1..Len(order'[g]) :
          \/ g = h /\ i = k + 1 /\ order'[g][i] = n
          \/ \E j \in 1..Len(order[g]) : /\ order'[g][i] = order[g][j]
                                         /\ j = IF g = h /\ i > k THEN i - 1 ELSE i
  <2> SUFFICES ASSUME NEW g \in ListHead, NEW i \in 1..Len(order'[g]), ~(g = h /\ i = k + 1)
               PROVE  \E j \in 1..Len(order[g]) : /\ order'[g][i] = order[g][j]
                                                  /\ j = IF g = h /\ i > k THEN i - 1 ELSE i
    <3>1. order'[h][k + 1] = n
      BY <1>0 DEF Inserted
    <3> QED BY <3>1
  <2>1. CASE g # h
    BY <2>1 DEF Inserted
  <2>2. CASE g = h /\ i <= k
    <3>1. i \in 1..Len(order[h]) /\ order'[h][i] = order[h][i] /\ ~(i > k)
      BY <1>0, <1>8, <2>2 DEF Inserted
    <3> QED BY <2>2, <3>1
  <2>3. CASE g = h /\ i > k
    <3>1. i - 1 \in 1..Len(order[h]) /\ i # k + 1 /\ ~(i <= k) /\ i \in 1..(Len(order[h]) + 1)
      BY <1>0, <1>8, <2>3
    <3>2. order'[h][i] = order[h][i - 1]
      BY <3>1 DEF Inserted
    <3> QED BY <2>3, <3>1, <3>2
  <2> QED BY <1>0, <1>8, <2>1, <2>2, <2>3
<1>12. \A g \in ListHead : \A j \in 1..Len(order[g]) : order[g][j] # n
  <2>1. \A g \in ListHead : \A j \in 1..Len(order[g]) :
           j \in 0..Len(order[g]) /\ j # 0
    BY <1>0, NthType
  <2> QED BY <2>1, LinkedElem DEF Nth
<1>13. Distinct'
  <2> SUFFICES ASSUME NEW f \in ListHead, NEW g \in ListHead, NEW i \in 1..Len(order'[f]),
                      NEW j \in 1..Len(order'[g]), order'[f][i] = order'[g][j]
               PROVE  f = g /\ i = j
    BY DEF Distinct
  <2>1. CASE f = h /\ i = k + 1 /\ order'[f][i] = n
    BY <1>11, <1>12, <2>1, SMTT(30)
  <2>2. CASE g = h /\ j = k + 1 /\ order'[g][j] = n
    BY <1>11, <1>12, <2>2, SMTT(30)
  <2>3. CASE /\ ~(f = h /\ i = k + 1 /\ order'[f][i] = n)
             /\ ~(g = h /\ j = k + 1 /\ order'[g][j] = n)
    <3>1. PICK a \in 1..Len(order[f]) : /\ order'[f][i] = order[f][a]
                                        /\ a = IF f = h /\ i > k THEN i - 1 ELSE i
      BY <1>11, <2>3
    <3>2. PICK b \in 1..Len(order[g]) : /\ order'[g][j] = order[g][b]
                                        /\ b = IF g = h /\ j > k THEN j - 1 ELSE j
      BY <1>11, <2>3
    <3>3. order[f][a] = order[g][b]
      BY <3>1, <3>2
    <3>4. f = g /\ a = b
      BY <3>3 DEF ListInv, Distinct
    <3>5. i \in Nat /\ j \in Nat
      OBVIOUS
    <3>6. f = h => i # k + 1 /\ j # k + 1
      BY <1>0, <2>3, <3>4, SMTT(30) DEF Inserted
    <3> QED BY ONLY <1>0, <3>1, <3>2, <3>4, <3>5, <3>6
  <2> QED BY <2>1, <2>2, <2>3
<1>14. \A g \in ListHead : \A j \in 1..Len(order[g]) :
          \E i \in 1..Len(order'[g]) : order'[g][i] = order[g][j]
  <2> SUFFICES ASSUME NEW g \in ListHead, NEW j \in 1..Len(order[g])
               PROVE  \E i \in 1..Len(order'[g]) : order'[g][i] = order[g][j]
    OBVIOUS
  <2>1. CASE g # h
    BY <2>1 DEF Inserted
  <2>2. CASE g = h /\ j <= k
    <3>1. j \in 1..(Len(order[h]) + 1)
      BY <1>0, <2>2
    <3>2. order'[h][j] = order[h][j]
      BY <2>2, <3>1 DEF Inserted
    <3> QED BY <1>8, <2>2, <3>1, <3>2
  <2>3. CASE g = h /\ ~(j <= k)
    <3>1. j + 1 \in 1..(Len(order[h]) + 1) /\ Nth(h, j + 1)' = Nth(h, j) /\ j # 0 /\ j + 1 # 0
      <4>1. j \in (k + 1)..Len(order[h])
        BY <1>0, <2>3
      <4> QED BY <1>0, <1>7, <4>1
    <3>2. order'[h][j + 1] = order[h][j]
      BY <3>1 DEF Nth
    <3> QED BY <1>8, <2>3, <3>1, <3>2
  <2> QED BY <2>1, <2>2, <2>3
<1>15. \E i \in 1..Len(order'[h]) : order'[h][i] = n
  <2>1. k + 1 \in 1..(Len(order[h]) + 1) /\ ~(k + 1 <= k)
    BY ONLY <1>0
  <2>2. order'[h][k + 1] = n
    BY <2>1 DEF Inserted
  <2> QED BY <1>8, <2>1, <2>2
<1>16. Unlinked'
  <2> SUFFICES ASSUME NEW e \in Elem,
                      \A g \in ListHead : \A i \in 1..Len(order'[g]) : order'[g][i] # e
               PROVE  next'[e] = NULL /\ prev'[e] = NULL
    BY DEF Unlinked
  <2>1. \A g \in ListHead : \A i \in 1..Len(order[g]) : order[g][i] # e
    <3>1. \A g \in ListHead : \A i \in 1..Len(order'[g]) : order'[g][i] # e
      OBVIOUS
    <3>2. SUFFICES ASSUME NEW g \in ListHead, NEW j \in 1..Len(order[g]) PROVE order[g][j] # e
      OBVIOUS
    <3>3. PICK i \in 1..Len(order'[g]) : order'[g][i] = order[g][j]
      BY ONLY <1>14, <3>2
    <3>4. order'[g][i] # e
      BY <3>1, <3>2, <3>3
    <3> QED BY <3>3, <3>4
  <2>2. next[e] = NULL /\ prev[e] = NULL
    BY <2>1 DEF ListInv, Unlinked
  <2>3. e # n
    BY <1>15
  <2>4. next[p] = x /\ prev[x] = p
    BY <1>1, <1>2 DEF ListInv, Linked
  <2>5. e # p /\ e # x /\ e \in ListNode
    BY <2>2, <2>4, Heads
  <2> QED BY <1>5, <2>2, <2>3, <2>5
<1>17. ASSUME NEW g \in ListHead, NEW m, InList(g, m) PROVE InList(g, m)'
  <2>1. PICK j \in 0..Len(order[g]) : m = Nth(g, j)
    BY <1>17 DEF InList
  <2>2. Len(order[g]) \in Nat /\ Len(order'[g]) \in Nat
    BY <1>0, <1>6 DEF ListType
  <2>3. CASE j = 0
    <3>1. 0 \in 0..Len(order'[g]) /\ m = g
      BY <2>1, <2>2, <2>3 DEF Nth
    <3> QED BY <3>1 DEF InList, Nth
  <2>4. CASE j # 0
    <3>1. j \in 1..Len(order[g]) /\ m = order[g][j]
      BY <2>1, <2>2, <2>4 DEF Nth
    <3>2. PICK i \in 1..Len(order'[g]) : order'[g][i] = m
      BY <1>14, <3>1
    <3>3. i \in 0..Len(order'[g]) /\ i # 0
      BY <2>2
    <3> QED BY <3>2, <3>3 DEF InList, Nth
  <2> QED BY <2>3, <2>4
<1> QED BY <1>6, <1>10, <1>13, <1>16, <1>17 DEF ListInv

\* A non-empty set of positions has a least element, which Min returns.
LEMMA LeastIndex ==
    ASSUME NEW S, S \subseteq Nat, S # {}
    PROVE  Dlist!Min(S) \in S
<1> DEFINE R == OpToRel(<, Nat)
<1>1. \A x, y \in Nat : x < y => <<x, y>> \in R
  BY Zenon DEF OpToRel
<1>2. \E x \in S : \A y \in S : ~(<<y, x>> \in R)
  BY NatLessThanWellFounded, WFMin
<1> HIDE DEF R
<1>3. PICK x \in S : \A y \in S : ~(<<y, x>> \in R)
  BY <1>2
<1>4. \A y \in S : ~(y < x)
  BY <1>1, <1>3, Zenon
<1>5. \A y \in S : x <= y
  BY <1>4
<1> QED BY <1>5 DEF Dlist!Min

\* r is the sequence s without what is at position k.
WithoutAt(r, s, k) ==
    /\ Len(r) = Len(s) - 1
    /\ \A i \in 1..(Len(s) - 1) : r[i] = IF i < k THEN s[i] ELSE s[i + 1]

\* RemoveFirst takes out one place of a sequence, if the element is there.
LEMMA RemoveFirstIs ==
    ASSUME NEW S, NEW s \in Seq(S), NEW e
    PROVE  \/ /\ \A i \in 1..Len(s) : s[i] # e
              /\ Dlist!RemoveFirst(s, e) = s
           \/ \E k \in 1..Len(s) :
                 /\ s[k] = e
                 /\ Dlist!RemoveFirst(s, e) \in Seq(S)
                 /\ WithoutAt(Dlist!RemoveFirst(s, e), s, k)
<1>1. CASE \A i \in 1..Len(s) : s[i] # e
  BY <1>1 DEF Dlist!RemoveFirst
<1>2. CASE \E i \in 1..Len(s) : s[i] = e
  <2> DEFINE I == {i \in 1..Len(s) : s[i] = e}
  <2>1. I \subseteq Nat /\ I # {}
    BY <1>2
  <2> HIDE DEF I
  <2>2. PICK k \in I : k = Dlist!Min(I)
    BY <2>1, LeastIndex
  <2>3. k \in 1..Len(s) /\ s[k] = e
    BY <2>2 DEF I
  <2>4. Dlist!RemoveFirst(s, e) = Dlist!RemoveAt(s, k)
    BY <1>2, <2>1, <2>2 DEF Dlist!RemoveFirst, Dlist!SelectInSeq, I
  <2>5. PICK a : a = SubSeq(s, 1, k - 1)
    OBVIOUS
  <2>6. PICK b : b = SubSeq(s, k + 1, Len(s))
    OBVIOUS
  <2>7. Len(s) \in Nat /\ k \in Nat /\ 1 <= k /\ k <= Len(s)
    BY <2>3
  <2>8. a \in Seq(S) /\ Len(a) = k - 1 /\ \A i \in 1..(k - 1) : a[i] = s[i]
    BY <2>5, <2>7
  <2>9. b \in Seq(S) /\ Len(b) = Len(s) - k /\ \A i \in 1..(Len(s) - k) : b[i] = s[k + i]
    <3>1. CASE k = Len(s)
      BY <2>6, <2>7, <3>1
    <3>2. CASE k < Len(s)
      BY <2>6, <2>7, <3>2
    <3>3. k = Len(s) \/ k < Len(s)
      BY ONLY <2>7
    <3> QED BY ONLY <3>1, <3>2, <3>3
  <2>10. PICK r : r = Dlist!RemoveFirst(s, e)
    OBVIOUS
  <2>11. r = a \o b
    BY <2>4, <2>5, <2>6, <2>10 DEF Dlist!RemoveAt
  <2>12. r \in Seq(S) /\ Len(r) = Len(s) - 1
    <3>1. r \in Seq(S) /\ Len(r) = Len(a) + Len(b)
      BY ONLY <2>8, <2>9, <2>11
    <3>2. Len(a) + Len(b) = Len(s) - 1
      <4>1. Len(a) = k - 1 /\ Len(b) = Len(s) - k
        BY ONLY <2>8, <2>9
      <4> QED BY ONLY <2>7, <4>1
    <3> QED BY ONLY <3>1, <3>2
  <2>13. ASSUME NEW i \in 1..(Len(s) - 1) PROVE r[i] = IF i < k THEN s[i] ELSE s[i + 1]
    <3>1. CASE i < k
      <4>1. i \in 1..(k - 1)
        BY <2>7, <3>1
      <4>2. r[i] = a[i]
        BY <2>8, <2>9, <2>11, <4>1
      <4> QED BY <2>8, <3>1, <4>1, <4>2
    <3>2. CASE ~(i < k)
      <4>1. PICK j \in 1..(Len(s) - k) : i = (k - 1) + j
        BY <2>7, <3>2
      <4>2. r[i] = b[j]
        BY <2>7, <2>8, <2>9, <2>11, <4>1
      <4>3. b[j] = s[i + 1]
        <5>1. k + j = i + 1
          BY <2>7, <4>1
        <5> QED BY <2>9, <5>1
      <4> QED BY <3>2, <4>2, <4>3
    <3> QED BY <3>1, <3>2
  <2>14. WithoutAt(r, s, k)
    BY ONLY <2>12, <2>13 DEF WithoutAt
  <2> QED BY ONLY <2>3, <2>10, <2>12, <2>14
<1> QED BY <1>1, <1>2

\* Position k of the list of h is taken out, and nothing else changes.
Removed(h, k) ==
    /\ order' \in [ListHead -> Seq(Elem)]
    /\ \A g \in ListHead : g # h => order'[g] = order[g]
    /\ Len(order'[h]) = Len(order[h]) - 1
    /\ \A i \in 1..(Len(order[h]) - 1) :
          order'[h][i] = IF i < k THEN order[h][i] ELSE order[h][i + 1]

\* The positions behind it move back.
LEMMA RemovedNth ==
    ASSUME ListType, NEW h \in ListHead, NEW k \in 1..Len(order[h]), Removed(h, k)
    PROVE  /\ \A g \in ListHead : g # h =>
                 /\ Len(order'[g]) = Len(order[g])
                 /\ \A i \in 0..Len(order[g]) : Nth(g, i)' = Nth(g, i) /\ After(g, i)' = After(g, i)
           /\ \A i \in 0..(k - 1) : Nth(h, i)' = Nth(h, i)
           /\ \A i \in k..(Len(order[h]) - 1) : Nth(h, i)' = Nth(h, i + 1)
           /\ \A i \in 0..(k - 2) : After(h, i)' = After(h, i)
           /\ \A i \in (k - 1)..(Len(order[h]) - 1) : After(h, i)' = After(h, i + 1)
<1>0. Len(order[h]) \in Nat /\ k \in Nat /\ 1 <= k /\ k <= Len(order[h])
  BY NthType
<1>1. Len(order'[h]) = Len(order[h]) - 1
  BY DEF Removed
<1>2. \A i \in 1..(k - 1) : order'[h][i] = order[h][i]
  BY <1>0 DEF Removed
<1>3. \A i \in k..(Len(order[h]) - 1) : order'[h][i] = order[h][i + 1]
  BY <1>0 DEF Removed
<1>4. ASSUME NEW g \in ListHead, g # h
      PROVE  /\ Len(order'[g]) = Len(order[g])
             /\ \A i \in 0..Len(order[g]) : Nth(g, i)' = Nth(g, i) /\ After(g, i)' = After(g, i)
  BY <1>4 DEF Removed, Nth, After
<1>5. \A i \in 0..(k - 1) : Nth(h, i)' = Nth(h, i)
  BY <1>0, <1>2 DEF Nth
<1>6. \A i \in k..(Len(order[h]) - 1) : Nth(h, i)' = Nth(h, i + 1)
  <2> SUFFICES ASSUME NEW i \in k..(Len(order[h]) - 1) PROVE Nth(h, i)' = Nth(h, i + 1)
    OBVIOUS
  <2>1. i # 0 /\ i + 1 # 0
    BY <1>0
  <2> QED BY <1>3, <2>1 DEF Nth
<1>7. \A i \in 0..(k - 2) : After(h, i)' = After(h, i)
  <2> SUFFICES ASSUME NEW i \in 0..(k - 2) PROVE After(h, i)' = After(h, i)
    OBVIOUS
  <2>1. i + 1 \in 1..(k - 1) /\ i # Len(order[h]) /\ i # Len(order'[h])
    BY <1>0, <1>1
  <2> QED BY <1>2, <2>1 DEF After
<1>8. \A i \in (k - 1)..(Len(order[h]) - 1) : After(h, i)' = After(h, i + 1)
  <2> SUFFICES ASSUME NEW i \in (k - 1)..(Len(order[h]) - 1) PROVE After(h, i)' = After(h, i + 1)
    OBVIOUS
  <2>1. CASE i = Len(order[h]) - 1
    <3>1. i + 1 = Len(order[h])
      BY <1>0, <2>1
    <3> QED BY <1>1, <2>1, <3>1 DEF After
  <2>2. CASE i # Len(order[h]) - 1
    <3>1. i + 1 # Len(order[h]) /\ i + 1 \in k..(Len(order[h]) - 1)
      BY <1>0, <2>2
    <3>2. order'[h][i + 1] = order[h][(i + 1) + 1]
      BY <1>3, <3>1
    <3> QED BY <1>1, <2>2, <3>1, <3>2 DEF After
  <2> QED BY <2>1, <2>2
<1> QED BY <1>4, <1>5, <1>6, <1>7, <1>8

\* What shl_dlist__unlink() does to the invariant.
LEMMA UnlinkStep ==
    ASSUME ListInv, NEW h \in ListHead, NEW k \in 1..Len(order[h]), NEW e \in Elem,
           order[h][k] = e, Removed(h, k),
           next' = [next EXCEPT ![prev[e]] = next[e], ![e] = NULL],
           prev' = [prev EXCEPT ![next[e]] = prev[e], ![e] = NULL]
    PROVE  ListInv' /\ \A g \in ListHead : \A m : InList(g, m) /\ m # e => InList(g, m)'
<1>0. ListType /\ Len(order[h]) \in Nat /\ k \in Nat /\ 1 <= k /\ k <= Len(order[h])
  BY NthType DEF ListInv
<1>1. k - 1 \in 0..Len(order[h]) /\ k \in 0..Len(order[h]) /\ k - 1 # k
  BY <1>0
<1>2. Nth(h, k) = e /\ After(h, k - 1) = e
  <2>1. k # 0 /\ k - 1 # Len(order[h]) /\ (k - 1) + 1 = k
    BY <1>0
  <2> QED BY <2>1 DEF Nth, After
<1>3. PICK p \in ListNode : p = Nth(h, k - 1)
  BY <1>0, <1>1, NthType
<1>4. PICK x \in ListNode : x = After(h, k)
  BY <1>0, <1>1, NthType
<1>5. prev[e] = p /\ next[e] = x
  BY <1>1, <1>2, <1>3, <1>4 DEF ListInv, Linked
<1>6. p # e
  BY <1>0, <1>1, <1>2, <1>3, NthOnce DEF ListInv
<1>7. x # e
  BY <1>0, <1>1, <1>2, <1>4, AfterOnce DEF ListInv
<1>8. /\ next' = [next EXCEPT ![p] = x, ![e] = NULL]
      /\ prev' = [prev EXCEPT ![x] = p, ![e] = NULL] /\ e \in ListNode
  BY <1>5, Heads
<1>9. /\ next'[p] = x /\ next'[e] = NULL /\ prev'[x] = p /\ prev'[e] = NULL
      /\ \A m \in ListNode : (m # e /\ m # p => next'[m] = next[m])
                          /\ (m # e /\ m # x => prev'[m] = prev[m])
  BY <1>0, <1>6, <1>7, <1>8 DEF ListType
<1>10. ListType'
  <2>1. order' \in [ListHead -> Seq(Elem)]
    BY DEF Removed
  <2>2. next \in [ListNode -> ListNode \cup {NULL}] /\ prev \in [ListNode -> ListNode \cup {NULL}]
    BY <1>0 DEF ListType
  <2>3. next' \in [ListNode -> ListNode \cup {NULL}] /\ prev' \in [ListNode -> ListNode \cup {NULL}]
    BY ONLY <1>8, <2>2, p \in ListNode, x \in ListNode
  <2> QED BY <2>1, <2>3 DEF ListType, ListNode
<1>11. Len(order'[h]) = Len(order[h]) - 1
  BY DEF Removed
<1>12. /\ \A g \in ListHead : g # h =>
                 /\ Len(order'[g]) = Len(order[g])
                 /\ \A i \in 0..Len(order[g]) : Nth(g, i)' = Nth(g, i) /\ After(g, i)' = After(g, i)
       /\ \A i \in 0..(k - 1) : Nth(h, i)' = Nth(h, i)
       /\ \A i \in k..(Len(order[h]) - 1) : Nth(h, i)' = Nth(h, i + 1)
       /\ \A i \in 0..(k - 2) : After(h, i)' = After(h, i)
       /\ \A i \in (k - 1)..(Len(order[h]) - 1) : After(h, i)' = After(h, i + 1)
  BY <1>0, RemovedNth
\* The pointers between two neighbours that are both left.
<1>13. ASSUME NEW g \in ListHead, NEW i \in 0..Len(order[g]), g # h \/ (i # k /\ i # k - 1)
       PROVE  next'[Nth(g, i)] = After(g, i) /\ prev'[After(g, i)] = Nth(g, i)
  <2>1. next[Nth(g, i)] = After(g, i) /\ prev[After(g, i)] = Nth(g, i)
    BY DEF ListInv, Linked
  <2>2. Nth(g, i) \in ListNode /\ After(g, i) \in ListNode
    BY <1>0, NthType
  <2>3. Nth(g, i) # e
    BY <1>0, <1>1, <1>2, <1>13, NthOnce DEF ListInv
  <2>4. Nth(g, i) # p
    BY <1>0, <1>1, <1>3, <1>13, NthOnce DEF ListInv
  <2>5. After(g, i) # x
    BY <1>0, <1>1, <1>4, <1>13, AfterOnce DEF ListInv
  <2>6. After(g, i) # e
    BY <1>0, <1>1, <1>2, <1>13, AfterOnce DEF ListInv
  <2> QED BY <1>9, <2>1, <2>2, <2>3, <2>4, <2>5, <2>6
<1>14. Linked'
  <2> SUFFICES ASSUME NEW g \in ListHead, NEW i \in 0..Len(order'[g])
               PROVE  next'[Nth(g, i)'] = After(g, i)' /\ prev'[After(g, i)'] = Nth(g, i)'
    BY DEF Linked
  <2>1. CASE g # h
    <3>1. i \in 0..Len(order[g]) /\ Nth(g, i)' = Nth(g, i) /\ After(g, i)' = After(g, i)
      BY ONLY <1>12, <2>1, g \in ListHead, i \in 0..Len(order'[g])
    <3>2. next'[Nth(g, i)] = After(g, i) /\ prev'[After(g, i)] = Nth(g, i)
      BY <1>13, <2>1, <3>1
    <3> QED BY ONLY <3>1, <3>2
  <2>2. CASE g = h /\ i < k - 1
    <3>1. i \in 0..(k - 1) /\ i \in 0..(k - 2) /\ i \in 0..Len(order[h]) /\ i # k /\ i # k - 1
      BY <1>0, <1>11, <2>2
    <3>2. Nth(h, i)' = Nth(h, i) /\ After(h, i)' = After(h, i)
      BY ONLY <1>12, <3>1
    <3>3. next'[Nth(h, i)] = After(h, i) /\ prev'[After(h, i)] = Nth(h, i)
      BY <1>13, <3>1
    <3> QED BY ONLY <2>2, <3>2, <3>3
  <2>3. CASE g = h /\ i = k - 1
    <3>1. Nth(h, i)' = p
      BY <1>0, <1>3, <1>12, <2>3
    <3>2. i \in (k - 1)..(Len(order[h]) - 1) /\ i + 1 = k
      BY <1>0, <1>11, <2>3
    <3>3. After(h, i)' = x
      BY <1>4, <1>12, <3>2
    <3> QED BY <1>9, <2>3, <3>1, <3>3
  <2>4. CASE g = h /\ i > k - 1
    <3>1. /\ i \in k..(Len(order[h]) - 1) /\ i \in (k - 1)..(Len(order[h]) - 1)
          /\ i + 1 \in 0..Len(order[h]) /\ i + 1 # k /\ i + 1 # k - 1
      BY <1>0, <1>11, <2>4
    <3>2. Nth(h, i)' = Nth(h, i + 1) /\ After(h, i)' = After(h, i + 1)
      BY <1>12, <3>1
    <3> QED BY <1>13, <2>4, <3>1, <3>2
  <2>5. i \in Nat /\ (i < k - 1 \/ i = k - 1 \/ i > k - 1)
    BY <1>0
  <2> QED BY <2>1, <2>2, <2>3, <2>4, <2>5
<1>15. \A g \in ListHead : \A i \in 1..Len(order'[g]) :
          \E j \in 1..Len(order[g]) : /\ order'[g][i] = order[g][j] /\ (g = h => j # k)
                                      /\ j = IF g = h /\ i >= k THEN i + 1 ELSE i
  <2> SUFFICES ASSUME NEW g \in ListHead, NEW i \in 1..Len(order'[g])
               PROVE  \E j \in 1..Len(order[g]) : /\ order'[g][i] = order[g][j] /\ (g = h => j # k)
                                                  /\ j = IF g = h /\ i >= k THEN i + 1 ELSE i
    OBVIOUS
  <2>1. CASE g # h
    BY <2>1 DEF Removed
  <2>2. CASE g = h /\ i < k
    <3>1. i \in 1..Len(order[h]) /\ ~(i >= k) /\ i # k /\ i \in 1..(Len(order[h]) - 1)
      BY <1>0, <1>11, <2>2
    <3>2. order'[h][i] = order[h][i]
      BY <2>2, <3>1 DEF Removed
    <3> QED BY <2>2, <3>1, <3>2
  <2>3. CASE g = h /\ i >= k
    <3>1. i + 1 \in 1..Len(order[h]) /\ ~(i < k) /\ i + 1 # k /\ i \in 1..(Len(order[h]) - 1)
      BY <1>0, <1>11, <2>3
    <3>2. order'[h][i] = order[h][i + 1]
      BY <3>1 DEF Removed
    <3> QED BY <2>3, <3>1, <3>2
  <2>4. i \in Nat /\ (i < k \/ i >= k)
    BY <1>0
  <2> QED BY <2>1, <2>2, <2>3, <2>4
<1>16. Distinct'
  <2> SUFFICES ASSUME NEW f \in ListHead, NEW g \in ListHead, NEW i \in 1..Len(order'[f]),
                      NEW j \in 1..Len(order'[g]), order'[f][i] = order'[g][j]
               PROVE  f = g /\ i = j
    BY DEF Distinct
  <2>1. PICK a \in 1..Len(order[f]) : /\ order'[f][i] = order[f][a] /\ (f = h => a # k)
                                      /\ a = IF f = h /\ i >= k THEN i + 1 ELSE i
    BY <1>15
  <2>2. PICK b \in 1..Len(order[g]) : /\ order'[g][j] = order[g][b] /\ (g = h => b # k)
                                      /\ b = IF g = h /\ j >= k THEN j + 1 ELSE j
    BY <1>15
  <2>3. order[f][a] = order[g][b]
    BY <2>1, <2>2
  <2>4. f = g /\ a = b
    BY <2>3 DEF ListInv, Distinct
  <2>5. i \in Nat /\ j \in Nat
    OBVIOUS
  <2> QED BY ONLY <1>0, <2>1, <2>2, <2>4, <2>5
<1>17. \A g \in ListHead : \A j \in 1..Len(order[g]) : order[g][j] # e =>
          \E i \in 1..Len(order'[g]) : order'[g][i] = order[g][j]
  <2> SUFFICES ASSUME NEW g \in ListHead, NEW j \in 1..Len(order[g]), order[g][j] # e
               PROVE  \E i \in 1..Len(order'[g]) : order'[g][i] = order[g][j]
    OBVIOUS
  <2>1. CASE g # h
    BY <2>1 DEF Removed
  <2>2. CASE g = h /\ j < k
    <3>1. j \in 1..(Len(order[h]) - 1)
      BY <1>0, <2>2
    <3>2. order'[h][j] = order[h][j]
      BY <2>2, <3>1 DEF Removed
    <3> QED BY <1>11, <2>2, <3>1, <3>2
  <2>3. CASE g = h /\ j > k
    <3>1. j - 1 \in 1..(Len(order[h]) - 1) /\ ~(j - 1 < k) /\ (j - 1) + 1 = j
      BY <1>0, <2>3
    <3>2. order'[h][j - 1] = order[h][j]
      BY <3>1 DEF Removed
    <3> QED BY <1>11, <2>3, <3>1, <3>2
  <2>4. j \in Nat /\ (g = h => j # k)
    OBVIOUS
  <2> QED BY <1>0, <2>1, <2>2, <2>3, <2>4
<1>18. Unlinked'
  <2> SUFFICES ASSUME NEW y \in Elem,
                      \A g \in ListHead : \A i \in 1..Len(order'[g]) : order'[g][i] # y
               PROVE  next'[y] = NULL /\ prev'[y] = NULL
    BY DEF Unlinked
  <2>1. CASE y = e
    BY <1>9, <2>1
  <2>2. CASE y # e
    <3>1. \A g \in ListHead : \A i \in 1..Len(order[g]) : order[g][i] # y
      <4>1. \A g \in ListHead : \A i \in 1..Len(order'[g]) : order'[g][i] # y
        OBVIOUS
      <4> SUFFICES ASSUME NEW g \in ListHead, NEW i \in 1..Len(order[g]), order[g][i] = y PROVE FALSE
        OBVIOUS
      <4>2. PICK j \in 1..Len(order'[g]) : order'[g][j] = order[g][i]
        BY <1>17, <2>2
      <4> QED BY <4>1, <4>2
    <3>2. next[y] = NULL /\ prev[y] = NULL
      BY <3>1 DEF ListInv, Unlinked
    <3>3. next[p] = e /\ prev[x] = e
      BY <1>1, <1>2, <1>3, <1>4 DEF ListInv, Linked
    <3>4. y # p /\ y # x /\ y \in ListNode
      BY <3>2, <3>3, Heads
    <3> QED BY <1>9, <2>2, <3>2, <3>4
  <2> QED BY <2>1, <2>2
<1>19. ASSUME NEW g \in ListHead, NEW m, InList(g, m), m # e PROVE InList(g, m)'
  <2>1. PICK j \in 0..Len(order[g]) : m = Nth(g, j)
    BY <1>19 DEF InList
  <2>2. Len(order[g]) \in Nat /\ Len(order'[g]) \in Nat
    BY <1>0, <1>10 DEF ListType
  <2>3. CASE j = 0
    <3>1. 0 \in 0..Len(order'[g]) /\ m = g
      BY <2>1, <2>2, <2>3 DEF Nth
    <3> QED BY <3>1 DEF InList, Nth
  <2>4. CASE j # 0
    <3>1. j \in 1..Len(order[g]) /\ m = order[g][j]
      BY <2>1, <2>2, <2>4 DEF Nth
    <3>2. PICK i \in 1..Len(order'[g]) : order'[g][i] = m
      BY <1>17, <1>19, <3>1
    <3>3. i \in 0..Len(order'[g]) /\ i # 0
      BY <2>2
    <3> QED BY <3>2, <3>3 DEF InList, Nth
  <2> QED BY <2>3, <2>4
<1> QED BY <1>10, <1>14, <1>16, <1>18, <1>19 DEF ListInv

(***************************************************************************)
(* The lists: what loops visit                                             *)
(***************************************************************************)

\* Position i of the list of h, if its elements are o.
NodeAt(o, h, i) == IF i = 0 THEN h ELSE o[i]

\* No node is at two positions.
Unique(o, h) ==
    o \in Seq(Elem) /\ \A i, j \in 0..Len(o) : NodeAt(o, h, i) = NodeAt(o, h, j) => i = j

\* A loop over this list that starts behind node s comes to a before it comes
\* to b.
Comes(o, h, rev, s, a, b) ==
    \E k, i, j \in 0..Len(o) :
        /\ s = NodeAt(o, h, k) /\ a = NodeAt(o, h, i) /\ b = NodeAt(o, h, j)
        /\ Dlist!Sooner(rev, k, i, j)

\* The node is the head or one of the elements.
OnCircle(o, h, x) == \E i \in 0..Len(o) : x = NodeAt(o, h, i)

\* The node is one of a sequence.
Among(n, s) == \E i \in 1..Len(s) : s[i] = n

\* What the loop l has visited are elements of its list that have stayed in it,
\* in their order, and not the one it was told to leave out.
VisitedOnly(l, o) ==
    /\ \A e \in l.stay : OnCircle(o, l.head, e) /\ e # l.start
    /\ \A i \in 1..Len(l.visited) : l.visited[i] \in l.stay
    /\ \A i, j \in 1..Len(l.visited) :
           i < j => Comes(o, l.head, l.rev, l.start, l.visited[i], l.visited[j])

\* They are those that come before node n.
VisitedUpTo(l, o, n) ==
    \A e \in l.stay : Among(e, l.visited) <=> Comes(o, l.head, l.rev, l.start, e, n)

\* At its end a loop has visited all of them; before, those that come before the
\* next node or, where that may change, up to the current one.
VisitOK(l, o) ==
    /\ VisitedOnly(l, o)
    /\ l.kind = "each" => l.start = l.head
    /\ IF l.iter = l.start THEN \A e \in l.stay : Among(e, l.visited)
       ELSE IF l.kind = "safe" THEN VisitedUpTo(l, o, l.tmp)
       ELSE \A e \in l.stay :
                Among(e, l.visited) <=> e = l.iter \/ Comes(o, l.head, l.rev, l.start, e, l.iter)

VisitInv == loop # Dlist!Idle => VisitOK(loop, order[loop.head])

\* The position after i on a circle with the positions 0 to N, and the one
\* before it.
NextPosition(rev, N, i) ==
    IF rev THEN IF i = 0 THEN N ELSE i - 1 ELSE IF i = N THEN 0 ELSE i + 1

\* Around a circle from k, and back to k at last.
LEMMA SoonerFacts ==
    ASSUME NEW N \in Nat, NEW rev \in BOOLEAN, NEW k \in 0..N, NEW i \in 0..N
    PROVE  /\ ~Dlist!Sooner(rev, k, i, i) /\ ~Dlist!Sooner(rev, k, k, i)
           /\ i # k => Dlist!Sooner(rev, k, i, k)
           /\ NextPosition(rev, N, i) \in 0..N
           /\ i # k => /\ Dlist!Sooner(rev, k, i, NextPosition(rev, N, i))
                       /\ \A x \in 0..N : Dlist!Sooner(rev, k, x, NextPosition(rev, N, i)) <=>
                                              x = i \/ Dlist!Sooner(rev, k, x, i)
           /\ \A x \in 0..N : x # k => ~Dlist!Sooner(rev, k, x, NextPosition(rev, N, k))
<1>1. CASE rev = TRUE
  BY <1>1 DEF Dlist!Sooner, NextPosition
<1>2. CASE rev = FALSE
  BY <1>2 DEF Dlist!Sooner, NextPosition
<1> QED BY <1>1, <1>2

\* Positions that move without passing each other.
LEMMA SoonerMoves ==
    ASSUME NEW rev \in BOOLEAN, NEW k \in Nat, NEW i \in Nat, NEW j \in Nat,
           NEW K \in Nat, NEW I \in Nat, NEW J \in Nat,
           i < k <=> I < K, i > k <=> I > K, j < k <=> J < K, j > k <=> J > K,
           i < j <=> I < J, i > j <=> I > J
    PROVE  Dlist!Sooner(rev, k, i, j) <=> Dlist!Sooner(rev, K, I, J)
BY DEF Dlist!Sooner

\* No element is in two places.
LEMMA UniqueIs ==
    ASSUME NEW h \in ListHead, NEW o \in Seq(Elem),
           \A i, j \in 1..Len(o) : o[i] = o[j] => i = j
    PROVE  Unique(o, h)
<1>1. \A i \in 1..Len(o) : o[i] # h
  BY Heads
<1>2. \A i \in 0..Len(o) : i # 0 => i \in 1..Len(o)
  OBVIOUS
<1>3. ASSUME NEW i \in 0..Len(o), NEW j \in 0..Len(o), NodeAt(o, h, i) = NodeAt(o, h, j) PROVE i = j
  BY <1>1, <1>2, <1>3 DEF NodeAt
<1> QED BY <1>3 DEF Unique

\* The lists are like that.
LEMMA ListUnique ==
    ASSUME ListInv, NEW h \in ListHead
    PROVE  /\ Unique(order[h], h) /\ Len(order[h]) \in Nat
           /\ \A i : Nth(h, i) = NodeAt(order[h], h, i)
<1>1. order[h] \in Seq(Elem) /\ \A i, j \in 1..Len(order[h]) : order[h][i] = order[h][j] => i = j
  BY DEF ListInv, ListType, Distinct
<1> QED BY <1>1, UniqueIs DEF Nth, NodeAt

\* Comes, for the nodes at three positions.
LEMMA ComesAt ==
    ASSUME NEW o, NEW h, Unique(o, h), NEW rev, NEW k \in 0..Len(o), NEW i \in 0..Len(o), NEW j \in 0..Len(o)
    PROVE  Comes(o, h, rev, NodeAt(o, h, k), NodeAt(o, h, i), NodeAt(o, h, j)) <=> Dlist!Sooner(rev, k, i, j)
<1>1. ASSUME Comes(o, h, rev, NodeAt(o, h, k), NodeAt(o, h, i), NodeAt(o, h, j))
      PROVE  Dlist!Sooner(rev, k, i, j)
  <2>1. PICK k2, i2, j2 \in 0..Len(o) :
            /\ NodeAt(o, h, k) = NodeAt(o, h, k2) /\ NodeAt(o, h, i) = NodeAt(o, h, i2)
            /\ NodeAt(o, h, j) = NodeAt(o, h, j2) /\ Dlist!Sooner(rev, k2, i2, j2)
    BY <1>1 DEF Comes
  <2>2. k = k2 /\ i = i2 /\ j = j2
    BY <2>1 DEF Unique
  <2> QED BY <2>1, <2>2
<1> QED BY <1>1 DEF Comes

\* What the pointers lead to.
LEMMA ToIsNext ==
    ASSUME ListInv, NEW h \in ListHead, NEW rev \in BOOLEAN, NEW i \in 0..Len(order[h])
    PROVE  /\ NextPosition(rev, Len(order[h]), i) \in 0..Len(order[h])
           /\ Dlist!To(rev, Nth(h, i)) = Nth(h, NextPosition(rev, Len(order[h]), i))
<1>1. ListType /\ Linked
  BY DEF ListInv
<1>2. PICK N \in Nat : N = Len(order[h])
  BY <1>1, NthType
<1>3. CASE rev = FALSE
  <2>1. Dlist!To(rev, Nth(h, i)) = After(h, i)
    BY <1>1, <1>3 DEF Linked, Dlist!To
  <2>2. CASE i = N
    BY <1>1, <1>2, <1>3, <2>1, <2>2, AfterNth DEF NextPosition
  <2>3. CASE i # N
    BY <1>1, <1>2, <1>3, <2>1, <2>3, AfterNth DEF NextPosition
  <2> QED BY <2>2, <2>3
<1>4. CASE rev = TRUE
  <2>1. PICK j \in 0..N : j = IF i = 0 THEN N ELSE i - 1
    BY <1>2
  <2>2. After(h, j) = Nth(h, i)
    <3>1. CASE i = 0
      BY <1>2, <2>1, <3>1 DEF After, Nth
    <3>2. CASE i # 0
      <4>1. j # N /\ j + 1 = i
        BY <1>2, <2>1, <3>2
      <4> QED BY <1>2, <3>2, <4>1 DEF After, Nth
    <3> QED BY <3>1, <3>2
  <2>3. prev[Nth(h, i)] = Nth(h, j)
    BY <1>1, <1>2, <2>2 DEF Linked
  <2>4. NextPosition(rev, N, i) = j
    BY <1>4, <2>1 DEF NextPosition
  <2> QED BY <1>2, <1>4, <2>1, <2>3, <2>4 DEF Dlist!To
<1> QED BY <1>3, <1>4

\* The node behind m comes next, and the one behind the start first.
LEMMA ComesNext ==
    ASSUME ListInv, NEW h \in ListHead, NEW rev \in BOOLEAN, NEW s, InList(h, s),
           NEW m, InList(h, m), NEW n, n = Dlist!To(rev, m)
    PROVE  /\ InList(h, n)
           /\ m # s => \A x : Comes(order[h], h, rev, s, x, n) <=> x = m \/ Comes(order[h], h, rev, s, x, m)
           /\ m = s => \A x : x # s => ~Comes(order[h], h, rev, s, x, n)
<1>1. PICK N \in Nat : N = Len(order[h])
  BY NthType DEF ListInv
<1>2. PICK k \in 0..N : s = NodeAt(order[h], h, k)
  BY <1>1, ListUnique DEF InList
<1>3. PICK i \in 0..N : m = NodeAt(order[h], h, i)
  BY <1>1, ListUnique DEF InList
<1>4. PICK j : j = NextPosition(rev, N, i)
  OBVIOUS
<1>5. j \in 0..N /\ n = NodeAt(order[h], h, j)
  BY <1>1, <1>3, <1>4, ToIsNext, ListUnique
<1>6. \A x \in 0..N : /\ Comes(order[h], h, rev, s, NodeAt(order[h], h, x), n) <=> Dlist!Sooner(rev, k, x, j)
                      /\ Comes(order[h], h, rev, s, NodeAt(order[h], h, x), m) <=> Dlist!Sooner(rev, k, x, i)
  BY <1>1, <1>2, <1>3, <1>5, ListUnique, ComesAt
<1>7. \A x : Comes(order[h], h, rev, s, x, n) \/ Comes(order[h], h, rev, s, x, m) => \E y \in 0..N : x = NodeAt(order[h], h, y)
  BY <1>1 DEF Comes
<1>8. ASSUME m # s, NEW x PROVE Comes(order[h], h, rev, s, x, n) <=> x = m \/ Comes(order[h], h, rev, s, x, m)
  <2>1. i # k
    BY <1>2, <1>3, <1>8
  <2>2. \A y \in 0..N : Dlist!Sooner(rev, k, y, j) <=> y = i \/ Dlist!Sooner(rev, k, y, i)
    BY <1>4, <2>1, SoonerFacts
  <2>3. CASE \E y \in 0..N : x = NodeAt(order[h], h, y)
    <3>1. PICK y \in 0..N : x = NodeAt(order[h], h, y)
      BY <2>3
    <3>2. x = m <=> y = i
      <4>1. Unique(order[h], h)
        BY ListUnique
      <4> QED BY <1>1, <1>3, <3>1, <4>1 DEF Unique
    <3> QED BY <1>6, <2>2, <3>1, <3>2
  <2>4. CASE ~\E y \in 0..N : x = NodeAt(order[h], h, y)
    BY <1>3, <1>7, <2>4
  <2> QED BY <2>3, <2>4
<1>9. ASSUME m = s, NEW x, x # s PROVE ~Comes(order[h], h, rev, s, x, n)
  <2> SUFFICES ASSUME Comes(order[h], h, rev, s, x, n) PROVE FALSE
    OBVIOUS
  <2>1. i = k
    <3>1. Unique(order[h], h)
      BY ListUnique
    <3> QED BY <1>1, <1>2, <1>3, <1>9, <3>1 DEF Unique
  <2>2. PICK y \in 0..N : x = NodeAt(order[h], h, y)
    BY <1>7
  <2>3. y # k
    BY <1>2, <1>9, <2>2
  <2>4. Dlist!Sooner(rev, k, y, j)
    BY <1>6, <2>2
  <2> QED BY <1>4, <2>1, <2>3, <2>4, SoonerFacts
<1>10. InList(h, n)
  BY <1>1, <1>5, ListUnique DEF InList
<1> QED BY <1>8, <1>9, <1>10

\* The start comes last, and no node before itself.
LEMMA ComesLast ==
    ASSUME NEW o, NEW h, Unique(o, h), NEW rev \in BOOLEAN, NEW s, OnCircle(o, h, s),
           NEW x, OnCircle(o, h, x)
    PROVE  (x # s => Comes(o, h, rev, s, x, s)) /\ ~Comes(o, h, rev, s, x, x)
<1>1. PICK N \in Nat : N = Len(o)
  BY DEF Unique
<1>2. PICK k \in 0..N : s = NodeAt(o, h, k)
  BY <1>1 DEF OnCircle
<1>3. PICK i \in 0..N : x = NodeAt(o, h, i)
  BY <1>1 DEF OnCircle
<1>4. /\ Comes(o, h, rev, s, x, s) <=> Dlist!Sooner(rev, k, i, k)
      /\ Comes(o, h, rev, s, x, x) <=> Dlist!Sooner(rev, k, i, i)
  BY <1>1, <1>2, <1>3, ComesAt
<1>5. x # s => i # k
  BY <1>2, <1>3
<1> QED BY <1>4, <1>5, SoonerFacts

\* If positions move without passing each other, their nodes come in the same
\* order as before.
LEMMA ComesKept ==
    ASSUME NEW h, NEW o, NEW o2, Unique(o, h), Unique(o2, h),
           NEW D \in SUBSET (0..Len(o)), NEW f \in [D -> Nat],
           \A i \in D : f[i] \in 0..Len(o2) /\ NodeAt(o2, h, f[i]) = NodeAt(o, h, i),
           \A i, j \in D : i < j => f[i] < f[j],
           NEW rev \in BOOLEAN, NEW k \in D, NEW i \in D, NEW j \in D
    PROVE  Comes(o, h, rev, NodeAt(o, h, k), NodeAt(o, h, i), NodeAt(o, h, j)) <=>
               Comes(o2, h, rev, NodeAt(o, h, k), NodeAt(o, h, i), NodeAt(o, h, j))
<1>1. Comes(o, h, rev, NodeAt(o, h, k), NodeAt(o, h, i), NodeAt(o, h, j)) <=> Dlist!Sooner(rev, k, i, j)
  <2>1. k \in 0..Len(o) /\ i \in 0..Len(o) /\ j \in 0..Len(o)
    OBVIOUS
  <2> QED BY <2>1, ComesAt
<1>2. PICK K, I, J \in 0..Len(o2) : K = f[k] /\ I = f[i] /\ J = f[j]
  OBVIOUS
<1>3. /\ NodeAt(o2, h, K) = NodeAt(o, h, k) /\ NodeAt(o2, h, I) = NodeAt(o, h, i)
      /\ NodeAt(o2, h, J) = NodeAt(o, h, j)
  BY <1>2
<1>4. Comes(o2, h, rev, NodeAt(o2, h, K), NodeAt(o2, h, I), NodeAt(o2, h, J)) <=> Dlist!Sooner(rev, K, I, J)
  BY ComesAt
<1>5. Dlist!Sooner(rev, k, i, j) <=> Dlist!Sooner(rev, K, I, J)
  <2>1. /\ k \in Nat /\ i \in Nat /\ j \in Nat /\ K \in Nat /\ I \in Nat /\ J \in Nat
    BY <1>2
  <2>2. \A x, y \in D : x < y => f[x] < f[y]
    OBVIOUS
  <2>3. \A x, y \in D : (x < y <=> f[x] < f[y]) /\ (x > y <=> f[x] > f[y])
    <3> SUFFICES ASSUME NEW x \in D, NEW y \in D
                 PROVE  (x < y <=> f[x] < f[y]) /\ (x > y <=> f[x] > f[y])
      OBVIOUS
    <3>1. x \in Nat /\ y \in Nat /\ f[x] \in Nat /\ f[y] \in Nat
      OBVIOUS
    <3>2. x = y => f[x] = f[y]
      OBVIOUS
    <3> QED BY ONLY <2>2, <3>1, <3>2, x \in D, y \in D
  <2>4. /\ (i < k <=> I < K) /\ (i > k <=> I > K) /\ (j < k <=> J < K) /\ (j > k <=> J > K)
        /\ (i < j <=> I < J) /\ (i > j <=> I > J)
    BY <1>2, <2>3
  <2> QED BY ONLY rev \in BOOLEAN, <2>1, <2>4, SoonerMoves
<1> QED BY <1>1, <1>3, <1>4, <1>5

\* The list of h without e is in the same order in o as in o2.
SameOrder(h, o, o2, e) ==
    \A rev \in BOOLEAN : \A s, a, b :
        (\A x \in {s, a, b} : x # e /\ OnCircle(o, h, x))
            => (Comes(o, h, rev, s, a, b) <=> Comes(o2, h, rev, s, a, b))

\* No list has changed its order, apart from e.
OrderKept(e) == \A h \in ListHead : SameOrder(h, order[h], order'[h], e)

\* shl_dlist__link() keeps the order.
LEMMA LinkKeeps ==
    ASSUME ListInv, ListInv', NEW h \in ListHead, NEW k \in 0..Len(order[h]), NEW n, Inserted(h, k, n)
    PROVE  OrderKept(n)
<1>1. \A g \in ListHead : g # h => SameOrder(g, order[g], order'[g], n)
  BY DEF Inserted, SameOrder
<1>2. PICK o : o = order[h]
  OBVIOUS
<1>3. PICK o2 : o2 = order'[h]
  OBVIOUS
<1>4. Unique(o, h) /\ Len(o) \in Nat /\ k \in Nat
  BY <1>2, ListUnique
<1>5. Unique(o2, h)
  <2>1. o2 \in Seq(Elem) /\ \A i, j \in 1..Len(o2) : o2[i] = o2[j] => i = j
    BY <1>3 DEF ListInv, ListType, Distinct
  <2> QED BY <2>1, UniqueIs
<1>6. /\ Len(o2) = Len(o) + 1
      /\ \A i \in 1..(Len(o) + 1) : o2[i] = IF i <= k THEN o[i] ELSE IF i = k + 1 THEN n ELSE o[i - 1]
  BY <1>2, <1>3 DEF Inserted
<1>7. PICK D : D = 0..Len(o)
  OBVIOUS
<1>8. PICK f : f = [i \in D |-> IF i <= k THEN i ELSE i + 1]
  OBVIOUS
<1>9. f \in [D -> Nat] /\ \A i, j \in D : i < j => f[i] < f[j]
  BY <1>4, <1>7, <1>8
<1>10. ASSUME NEW i \in D PROVE f[i] \in 0..Len(o2) /\ NodeAt(o2, h, f[i]) = NodeAt(o, h, i)
  <2>1. CASE i = 0
    BY <1>4, <1>6, <1>7, <1>8, <2>1 DEF NodeAt
  <2>2. CASE i # 0 /\ i <= k
    <3>1. i \in 1..(Len(o) + 1) /\ f[i] = i
      BY <1>4, <1>7, <1>8, <2>2
    <3> QED BY <1>4, <1>6, <2>2, <3>1 DEF NodeAt
  <2>3. CASE ~(i <= k)
    <3>1. f[i] = i + 1 /\ i + 1 \in 1..(Len(o) + 1) /\ ~(i + 1 <= k) /\ i + 1 # k + 1 /\ (i + 1) - 1 = i /\ i # 0
          /\ i + 1 # 0
      BY <1>4, <1>7, <1>8, <2>3
    <3>2. o2[i + 1] = o[i]
      BY ONLY <1>6, <3>1
    <3> QED BY <1>4, <1>6, <3>1, <3>2 DEF NodeAt
  <2>4. i \in Nat
    BY <1>7
  <2> QED BY ONLY <1>4, <2>1, <2>2, <2>3, <2>4
<1>11. ASSUME NEW rev \in BOOLEAN, NEW i1 \in D, NEW i2 \in D, NEW i3 \in D
       PROVE  Comes(o, h, rev, NodeAt(o, h, i1), NodeAt(o, h, i2), NodeAt(o, h, i3)) <=>
                  Comes(o2, h, rev, NodeAt(o, h, i1), NodeAt(o, h, i2), NodeAt(o, h, i3))
  <2>1. D \in SUBSET (0..Len(o))
    BY <1>7
  <2> QED BY ONLY <1>4, <1>5, <1>9, <1>10, <1>11, <2>1, ComesKept
<1>12. SameOrder(h, o, o2, n)
  BY <1>7, <1>11 DEF SameOrder, OnCircle
<1> QED BY <1>1, <1>2, <1>3, <1>12 DEF OrderKept

\* shl_dlist__unlink() keeps the order of the others.
LEMMA UnlinkKeeps ==
    ASSUME ListInv, ListInv', NEW h \in ListHead, NEW k \in 1..Len(order[h]), Removed(h, k)
    PROVE  OrderKept(order[h][k])
<1>1. \A g \in ListHead : g # h => SameOrder(g, order[g], order'[g], order[h][k])
  BY DEF Removed, SameOrder
<1>2. PICK o : o = order[h]
  OBVIOUS
<1>3. PICK o2 : o2 = order'[h]
  OBVIOUS
<1>4. Unique(o, h) /\ Len(o) \in Nat /\ k \in Nat /\ k # 0 /\ k <= Len(o)
  BY <1>2, ListUnique
<1>5. Unique(o2, h)
  <2>1. o2 \in Seq(Elem) /\ \A i, j \in 1..Len(o2) : o2[i] = o2[j] => i = j
    BY <1>3 DEF ListInv, ListType, Distinct
  <2> QED BY <2>1, UniqueIs
<1>6. /\ Len(o2) = Len(o) - 1
      /\ \A i \in 1..(Len(o) - 1) : o2[i] = IF i < k THEN o[i] ELSE o[i + 1]
  BY <1>2, <1>3 DEF Removed
<1>7. PICK D : D = (0..Len(o)) \ {k}
  OBVIOUS
<1>8. PICK f : f = [i \in D |-> IF i < k THEN i ELSE i - 1]
  OBVIOUS
<1>9. f \in [D -> Nat] /\ \A i, j \in D : i < j => f[i] < f[j]
  BY <1>4, <1>7, <1>8
<1>10. ASSUME NEW i \in D PROVE f[i] \in 0..Len(o2) /\ NodeAt(o2, h, f[i]) = NodeAt(o, h, i)
  <2>1. CASE i = 0
    BY <1>4, <1>6, <1>7, <1>8, <2>1 DEF NodeAt
  <2>2. CASE i # 0 /\ i < k
    <3>1. i \in 1..(Len(o) - 1) /\ f[i] = i
      BY <1>4, <1>7, <1>8, <2>2
    <3> QED BY <1>4, <1>6, <2>2, <3>1 DEF NodeAt
  <2>3. CASE ~(i < k)
    <3>1. f[i] = i - 1 /\ i - 1 \in 1..(Len(o) - 1) /\ ~(i - 1 < k) /\ (i - 1) + 1 = i /\ i # 0 /\ i - 1 # 0
      BY <1>4, <1>7, <1>8, <2>3
    <3>2. o2[i - 1] = o[i]
      BY ONLY <1>6, <3>1
    <3> QED BY <1>4, <1>6, <3>1, <3>2 DEF NodeAt
  <2>4. i \in Nat
    BY <1>7
  <2> QED BY ONLY <1>4, <2>1, <2>2, <2>3, <2>4
<1>11. ASSUME NEW rev \in BOOLEAN, NEW i1 \in D, NEW i2 \in D, NEW i3 \in D
       PROVE  Comes(o, h, rev, NodeAt(o, h, i1), NodeAt(o, h, i2), NodeAt(o, h, i3)) <=>
                  Comes(o2, h, rev, NodeAt(o, h, i1), NodeAt(o, h, i2), NodeAt(o, h, i3))
  <2>1. D \in SUBSET (0..Len(o))
    BY <1>7
  <2> QED BY ONLY <1>4, <1>5, <1>9, <1>10, <1>11, <2>1, ComesKept
<1>12. SameOrder(h, o, o2, o[k])
  <2>1. NodeAt(o, h, k) = o[k]
    BY <1>4 DEF NodeAt
  <2>2. \A i \in 0..Len(o) : NodeAt(o, h, i) # o[k] => i \in D
    BY <1>7, <2>1
  <2> QED BY <1>11, <2>2 DEF SameOrder, OnCircle
<1> QED BY <1>1, <1>2, <1>3, <1>12 DEF OrderKept

(***************************************************************************)
(* The lists: steps of the caller                                          *)
(***************************************************************************)

\* The neighbours of a node of a list are in the list.
LEMMA Follow ==
    ASSUME ListInv, NEW h \in ListHead, NEW m, InList(h, m), NEW rev
    PROVE  InList(h, Dlist!To(rev, m))
<1>0. ListType /\ Len(order[h]) \in Nat
  BY NthType DEF ListInv
<1>1. PICK i \in 0..Len(order[h]) : m = Nth(h, i)
  BY DEF InList
<1>2. InList(h, next[m])
  <2>1. next[m] = After(h, i)
    BY <1>1 DEF ListInv, Linked
  <2>2. CASE i = Len(order[h])
    <3>1. After(h, i) = Nth(h, 0) /\ 0 \in 0..Len(order[h])
      BY <1>0, <2>2, AfterNth
    <3> QED BY <2>1, <3>1 DEF InList
  <2>3. CASE i # Len(order[h])
    <3>1. After(h, i) = Nth(h, i + 1) /\ i + 1 \in 1..Len(order[h])
      BY <1>0, <2>3, AfterNth
    <3>2. i + 1 \in 0..Len(order[h])
      BY <1>0, <3>1
    <3> QED BY <2>1, <3>1, <3>2 DEF InList
  <2> QED BY <2>2, <2>3
<1>3. InList(h, prev[m])
  <2>1. PICK j \in 0..Len(order[h]) : m = After(h, j)
    <3>1. CASE i = 0
      <4>1. Len(order[h]) \in 0..Len(order[h]) /\ After(h, Len(order[h])) = h
        BY <1>0 DEF After
      <4> QED BY <1>1, <3>1, <4>1 DEF Nth
    <3>2. CASE i # 0
      <4>1. i - 1 \in 0..Len(order[h]) /\ i - 1 # Len(order[h]) /\ (i - 1) + 1 = i
        BY <1>0, <3>2
      <4>2. After(h, i - 1) = m
        BY <1>1, <3>2, <4>1 DEF After, Nth
      <4> QED BY <4>1, <4>2
    <3> QED BY <3>1, <3>2
  <2>2. prev[m] = Nth(h, j)
    BY <2>1 DEF ListInv, Linked
  <2> QED BY <2>2 DEF InList
<1> QED BY <1>2, <1>3 DEF Dlist!To

\* What is in a list is a node.
LEMMA InListNode ==
    ASSUME ListType, NEW h \in ListHead, NEW m, InList(h, m)
    PROVE  m \in ListNode
BY NthType DEF InList

\* A head is in its list.
LEMMA HeadInList ==
    ASSUME ListType, NEW h \in ListHead
    PROVE  InList(h, h)
<1>1. 0 \in 0..Len(order[h])
  BY NthType
<1> QED BY <1>1 DEF InList, Nth

\* A loop stays where it is while its list grows.
LEMMA LoopKept ==
    ASSUME LoopInv, loop' = loop, \A g \in ListHead : \A m : InList(g, m) => InList(g, m)'
    PROVE  LoopInv'
<1> SUFFICES ASSUME loop # Dlist!Idle PROVE LoopInv'
  BY DEF LoopInv, Dlist!Idle
<1>1. LoopType /\ loop.head \in ListHead
  BY DEF LoopInv, LoopType
<1> QED BY <1>1 DEF LoopInv, LoopType, ListNode, Dlist!Idle

\* shl_dlist_link() links behind the head.
LEMMA LinkFirst ==
    ASSUME ListInv, LoopInv, NEW h \in ListHead, NEW n \in Elem, Dlist!shl_dlist_link(h, n)
    PROVE  /\ ListInv' /\ LoopInv' /\ OrderKept(n)
           /\ \A g \in ListHead : \A m : InList(g, m) => InList(g, m)'
<1>0. order[h] \in Seq(Elem) /\ Len(order[h]) \in Nat /\ order \in [ListHead -> Seq(Elem)]
  BY NthType DEF ListInv, ListType
<1>1. 0 \in 0..Len(order[h]) /\ Nth(h, 0) = h
  BY <1>0 DEF Nth
<1>2. next[h] = After(h, 0)
  BY <1>1 DEF ListInv, Linked
<1>3. /\ ~Dlist!shl_dlist_linked(n) /\ Dlist!shl_dlist__link(Nth(h, 0), After(h, 0), n)
      /\ order' = [order EXCEPT ![h] = <<n>> \o order[h]] /\ loop' = loop
  BY <1>1, <1>2 DEF Dlist!shl_dlist_link
<1>4. PICK s : s = <<n>> \o order[h]
  OBVIOUS
<1>5. s \in Seq(Elem) /\ Len(s) = Len(order[h]) + 1
  BY ONLY <1>0, <1>4, n \in Elem
<1>6. s[1] = n /\ \A i \in 2..(Len(order[h]) + 1) : s[i] = order[h][i - 1]
  BY ONLY <1>0, <1>4, n \in Elem
<1>7. /\ order' \in [ListHead -> Seq(Elem)] /\ order'[h] = s
      /\ \A g \in ListHead : g # h => order'[g] = order[g]
  BY <1>0, <1>3, <1>4, <1>5
<1>8. \A i \in 1..(Len(order[h]) + 1) :
         s[i] = IF i <= 0 THEN order[h][i] ELSE IF i = 0 + 1 THEN n ELSE order[h][i - 1]
  BY ONLY <1>0, <1>6
<1>9. Inserted(h, 0, n)
  BY ONLY <1>5, <1>7, <1>8 DEF Inserted
<1>10. ListInv' /\ \A g \in ListHead : \A m : InList(g, m) => InList(g, m)'
  BY <1>1, <1>3, <1>9, LinkStep
<1>11. OrderKept(n)
  BY <1>1, <1>9, <1>10, LinkKeeps
<1> QED BY <1>3, <1>10, <1>11, LoopKept

\* shl_dlist_link_tail() links before it.
LEMMA LinkLast ==
    ASSUME ListInv, LoopInv, NEW h \in ListHead, NEW n \in Elem, Dlist!shl_dlist_link_tail(h, n)
    PROVE  /\ ListInv' /\ LoopInv' /\ OrderKept(n)
           /\ \A g \in ListHead : \A m : InList(g, m) => InList(g, m)'
<1>0. order[h] \in Seq(Elem) /\ Len(order[h]) \in Nat /\ order \in [ListHead -> Seq(Elem)]
  BY NthType DEF ListInv, ListType
<1>1. PICK k \in 0..Len(order[h]) : k = Len(order[h])
  BY <1>0
<1>2. After(h, k) = h
  BY <1>1 DEF After
<1>3. prev[h] = Nth(h, k)
  BY <1>1, <1>2 DEF ListInv, Linked
<1>4. /\ ~Dlist!shl_dlist_linked(n) /\ Dlist!shl_dlist__link(Nth(h, k), After(h, k), n)
      /\ order' = [order EXCEPT ![h] = Append(order[h], n)] /\ loop' = loop
  BY <1>2, <1>3 DEF Dlist!shl_dlist_link_tail
<1>5. PICK s : s = Append(order[h], n)
  OBVIOUS
<1>6. s \in Seq(Elem) /\ Len(s) = Len(order[h]) + 1
  BY ONLY <1>0, <1>5, n \in Elem
<1>7. s[Len(order[h]) + 1] = n /\ \A i \in 1..Len(order[h]) : s[i] = order[h][i]
  BY ONLY <1>0, <1>5, n \in Elem
<1>8. /\ order' \in [ListHead -> Seq(Elem)] /\ order'[h] = s
      /\ \A g \in ListHead : g # h => order'[g] = order[g]
  BY <1>0, <1>4, <1>5, <1>6
<1>9. \A i \in 1..(Len(order[h]) + 1) :
         s[i] = IF i <= k THEN order[h][i] ELSE IF i = k + 1 THEN n ELSE order[h][i - 1]
  BY ONLY <1>0, <1>1, <1>7
<1>10. Inserted(h, k, n)
  BY ONLY <1>6, <1>8, <1>9 DEF Inserted
<1>11. ListInv' /\ \A g \in ListHead : \A m : InList(g, m) => InList(g, m)'
  BY <1>4, <1>10, LinkStep
<1>12. OrderKept(n)
  BY <1>10, <1>11, LinkKeeps
<1> QED BY <1>4, <1>11, <1>12, LoopKept

\* shl_dlist_unlink() takes out what is linked, and no loop holds on to it.
LEMMA UnlinkElem ==
    ASSUME ListInv, LoopInv, NEW e \in Elem, Dlist!shl_dlist_unlink(e)
    PROVE  /\ ListInv' /\ LoopInv' /\ OrderKept(e)
           /\ \A g \in ListHead : \A m : InList(g, m) /\ m # e => InList(g, m)'
<1>1. CASE ~Dlist!shl_dlist_linked(e)
  <2>1. UNCHANGED <<next, prev, order, loop>>
    BY <1>1 DEF Dlist!shl_dlist_unlink, Dlist!vars
  <2>2. OrderKept(e)
    BY <2>1 DEF OrderKept, SameOrder
  <2>3. ListInv' /\ LoopInv'
    BY <2>1 DEF ListInv, LoopInv, ListType, Distinct, Linked, Unlinked, LoopType, InList,
                Nth, After, ListNode, Dlist!Idle
  <2>4. \A g \in ListHead : \A m : InList(g, m) => InList(g, m)'
    BY <2>1 DEF InList, Nth
  <2> QED BY <2>2, <2>3, <2>4
<1>2. CASE Dlist!shl_dlist_linked(e)
  <2>0. ListType /\ order \in [ListHead -> Seq(Elem)]
    BY DEF ListInv, ListType
  <2>1. PICK h \in ListHead : \E k \in 1..Len(order[h]) : order[h][k] = e
    BY <1>2, LinkedElem
  <2>2. PICK k \in 1..Len(order[h]) : order[h][k] = e
    BY <2>1
  <2>3. /\ next' = [next EXCEPT ![prev[e]] = next[e], ![e] = NULL]
        /\ prev' = [prev EXCEPT ![next[e]] = prev[e], ![e] = NULL]
        /\ order' = [g \in ListHead |-> Dlist!RemoveFirst(order[g], e)]
        /\ Dlist!Forget(e) /\ e \notin Dlist!Pinned
    BY <1>2 DEF Dlist!shl_dlist_unlink
  <2>4. \A g \in ListHead : g # h => order'[g] = order[g]
    <3> SUFFICES ASSUME NEW g \in ListHead, g # h PROVE Dlist!RemoveFirst(order[g], e) = order[g]
      BY <2>3
    <3>1. \A i \in 1..Len(order[g]) : order[g][i] # e
      BY <2>2 DEF ListInv, Distinct
    <3> QED BY <2>0, <3>1, RemoveFirstIs
  <2>5. PICK s : s = Dlist!RemoveFirst(order[h], e)
    OBVIOUS
  <2>6. PICK j \in 1..Len(order[h]) :
          /\ order[h][j] = e /\ s \in Seq(Elem) /\ Len(s) = Len(order[h]) - 1
          /\ \A i \in 1..(Len(order[h]) - 1) : s[i] = IF i < j THEN order[h][i] ELSE order[h][i + 1]
    <3>1. order[h] \in Seq(Elem)
      BY <2>0
    <3>2. \E j \in 1..Len(order[h]) :
            /\ order[h][j] = e /\ Dlist!RemoveFirst(order[h], e) \in Seq(Elem)
            /\ WithoutAt(Dlist!RemoveFirst(order[h], e), order[h], j)
      BY ONLY <2>2, <3>1, RemoveFirstIs
    <3> QED BY ONLY <2>5, <3>2 DEF WithoutAt
  <2>7. j = k
    BY <2>2, <2>6 DEF ListInv, Distinct
  <2>8. order'[h] = s /\ order' \in [ListHead -> Seq(Elem)]
    <3>1. order'[h] = s
      BY <2>3, <2>5
    <3>2. \A g \in ListHead : order'[g] \in Seq(Elem)
      BY <2>0, <2>4, <2>6, <3>1
    <3> QED BY <2>3, <3>1, <3>2
  <2>9. Removed(h, k)
    BY ONLY <2>4, <2>6, <2>7, <2>8 DEF Removed
  <2>10. ListInv' /\ \A g \in ListHead : \A m : InList(g, m) /\ m # e => InList(g, m)'
    BY <2>2, <2>3, <2>9, UnlinkStep
  <2>11. OrderKept(e)
    <3>1. ListInv'
      BY <2>10
    <3> QED BY ONLY ListInv, <2>2, <2>9, <3>1, UnlinkKeeps
  <2>12. CASE loop = Dlist!Idle
    BY <2>3, <2>10, <2>11, <2>12 DEF LoopInv, Dlist!Forget, Dlist!Idle
  <2>13. CASE loop # Dlist!Idle
    <3>1. loop' = [loop EXCEPT !.stay = loop.stay \ {e},
                               !.visited = Dlist!RemoveFirst(loop.visited, e)]
      BY <2>3, <2>13 DEF Dlist!Forget
    <3>2. LoopType
      BY <2>13 DEF LoopInv
    <3>3. Dlist!RemoveFirst(loop.visited, e) \in Seq(ListNode)
      <4>1. loop.visited \in Seq(ListNode)
        BY <3>2 DEF LoopType
      <4> QED BY <4>1, RemoveFirstIs
    <3>4. LoopType'
      BY <3>1, <3>2, <3>3 DEF LoopType, ListNode
    <3>5. /\ loop'.head = loop.head /\ loop'.start = loop.start /\ loop'.kind = loop.kind
          /\ loop'.tmp = loop.tmp /\ loop'.iter = loop.iter /\ loop.head \in ListHead
      BY <3>1, <3>2 DEF LoopType
    <3>6. CASE loop.kind = "safe"
      <4>1. e # loop.tmp
        BY <2>3, <2>13, <3>6 DEF Dlist!Pinned
      <4>2. loop.start = loop.head /\ InList(loop.head, loop.tmp) /\ InList(loop.head, loop.start)
        BY <2>13, <3>6 DEF LoopInv
      <4>3. e # loop.start
        BY <3>5, <4>2, Heads
      <4>4. InList(loop.head, loop.tmp)' /\ InList(loop.head, loop.start)'
        <5>1. PICK g \in ListHead : g = loop.head
          BY <3>5
        <5>2. PICK t, a : t = loop.tmp /\ a = loop.start
          OBVIOUS
        <5>3. InList(g, t)' /\ InList(g, a)'
          BY ONLY <2>10, <4>1, <4>2, <4>3, <5>1, <5>2
        <5> QED BY ONLY <3>5, <5>1, <5>2, <5>3 DEF InList, Nth
      <4> QED BY <2>10, <2>11, <3>4, <3>5, <3>6, <4>2, <4>4 DEF LoopInv
    <3>7. CASE loop.kind # "safe"
      <4>1. e # loop.iter /\ e # loop.start
        BY <2>3, <2>13, <3>7 DEF Dlist!Pinned
      <4>2. InList(loop.head, loop.iter) /\ InList(loop.head, loop.start)
        BY <2>13, <3>7 DEF LoopInv
      <4>3. InList(loop.head, loop.iter)' /\ InList(loop.head, loop.start)'
        <5>1. PICK g \in ListHead : g = loop.head
          BY <3>5
        <5>2. PICK t, a : t = loop.iter /\ a = loop.start
          OBVIOUS
        <5>3. InList(g, t)' /\ InList(g, a)'
          BY ONLY <2>10, <4>1, <4>2, <5>1, <5>2
        <5> QED BY ONLY <3>5, <5>1, <5>2, <5>3 DEF InList, Nth
      <4> QED BY <2>10, <2>11, <3>4, <3>5, <3>7, <4>3 DEF LoopInv
    <3> QED BY <3>6, <3>7
  <2> QED BY <2>12, <2>13
<1> QED BY <1>1, <1>2

(***************************************************************************)
(* The lists: steps of a loop                                              *)
(***************************************************************************)

Loops == [kind : Dlist!Kinds, rev : BOOLEAN, head : ListHead, start : ListNode,
          iter : ListNode, tmp : ListNode \cup {NULL}, stay : SUBSET Elem,
          visited : Seq(ListNode)]

\* A loop that reaches a node.
LEMMA EnterLoop ==
    ASSUME NEW l \in Loops, NEW n \in ListNode
    PROVE  /\ Dlist!Enter(l, n) \in Loops
           /\ Dlist!Enter(l, n).iter = n
           /\ Dlist!Enter(l, n).kind = l.kind /\ Dlist!Enter(l, n).head = l.head
           /\ Dlist!Enter(l, n).start = l.start /\ Dlist!Enter(l, n).tmp = l.tmp
<1>1. PICK v : v = IF n # l.start /\ n \in l.stay \cup ListHead THEN Append(l.visited, n) ELSE l.visited
  OBVIOUS
<1>2. v \in Seq(ListNode)
  <2>1. l.visited \in Seq(ListNode) /\ Append(l.visited, n) \in Seq(ListNode)
    BY DEF Loops
  <2> QED BY ONLY <1>1, <2>1
<1>3. Dlist!Enter(l, n) = [l EXCEPT !.iter = n, !.visited = v]
  BY <1>1 DEF Dlist!Enter
<1> QED BY <1>2, <1>3 DEF Loops

\* The node at which a loop begins is in the list.
LEMMA StartLoopStep ==
    ASSUME ListInv, LoopInv, NEW kind \in Dlist!Kinds, NEW rev \in BOOLEAN, NEW h \in ListHead,
           NEW s \in ListNode, Dlist!StartLoop(kind, rev, h, s)
    PROVE  /\ ListInv' /\ LoopInv' /\ order' = order
           /\ InList(h, s) /\ (kind # "but_one" => s = h)
           /\ \E l \in Loops, n \in ListNode :
                 /\ loop' = Dlist!Enter(l, n)
                 /\ n = Dlist!First(kind, rev, s, h) /\ InList(h, n)
                 /\ l.kind = kind /\ l.rev = rev /\ l.head = h /\ l.start = s
                 /\ l.tmp = IF kind = "safe" THEN Dlist!To(rev, n) ELSE NULL
                 /\ l.stay = Dlist!ToSet(order[h]) \ {s} /\ l.visited = << >>
<1>0. ListType /\ order[h] \in Seq(Elem)
  BY NthType DEF ListInv
<1>1. UNCHANGED <<next, prev, order>>
  BY DEF Dlist!StartLoop
<1>2. InList(h, s) /\ (kind # "but_one" => s = h)
  <2>1. s = h \/ (kind = "but_one" /\ s \in Dlist!ToSet(order[h]))
    BY DEF Dlist!StartLoop
  <2>2. CASE s = h
    BY <1>0, <2>2, HeadInList
  <2>3. CASE kind = "but_one" /\ s \in Dlist!ToSet(order[h])
    <3>1. PICK i \in 1..Len(order[h]) : s = order[h][i]
      BY <1>0, <2>3 DEF Dlist!ToSet
    <3>2. i \in 0..Len(order[h]) /\ i # 0
      BY <1>0
    <3> QED BY <2>3, <3>1, <3>2 DEF InList, Nth
  <2> QED BY <2>1, <2>2, <2>3
<1>3. PICK n : n = Dlist!First(kind, rev, s, h)
  OBVIOUS
<1>4. InList(h, n) /\ n \in ListNode
  <2>1. n = Dlist!To(rev, h) \/ n = Dlist!To(rev, s)
    BY <1>3 DEF Dlist!First
  <2>2. InList(h, Dlist!To(rev, h)) /\ InList(h, Dlist!To(rev, s))
    BY <1>0, <1>2, HeadInList, Follow
  <2>3. InList(h, n)
    BY <2>1, <2>2
  <2> QED BY <1>0, <2>3, InListNode
<1>5. PICK t : t = IF kind = "safe" THEN Dlist!To(rev, n) ELSE NULL
  OBVIOUS
<1>6. t \in ListNode \cup {NULL} /\ (kind = "safe" => InList(h, t))
  <2>1. InList(h, Dlist!To(rev, n))
    BY <1>4, Follow
  <2>2. Dlist!To(rev, n) \in ListNode
    BY <1>0, <2>1, InListNode
  <2> QED BY <1>5, <2>1, <2>2
<1>7. PICK y : y = Dlist!ToSet(order[h]) \ {s}
  OBVIOUS
<1>8. y \subseteq Elem
  BY <1>0, <1>7 DEF Dlist!ToSet
<1>9. PICK l : l = [kind |-> kind, rev |-> rev, head |-> h, start |-> s, iter |-> n,
                    tmp |-> t, stay |-> y, visited |-> << >>]
  OBVIOUS
<1>10. l \in Loops
  BY <1>4, <1>6, <1>8, <1>9 DEF Loops
<1>11. loop' = Dlist!Enter(l, n)
  BY <1>3, <1>5, <1>7, <1>9 DEF Dlist!StartLoop
<1>12. /\ loop' \in Loops /\ loop'.iter = n /\ loop'.kind = kind /\ loop'.head = h
       /\ loop'.start = s /\ loop'.tmp = t
  <2>1. l.kind = kind /\ l.head = h /\ l.start = s /\ l.tmp = t
    BY <1>9
  <2> QED BY <1>4, <1>10, <1>11, <2>1, EnterLoop
<1>13. InList(h, s)' /\ InList(h, n)' /\ (kind = "safe" => InList(h, t)')
  BY <1>1, <1>2, <1>4, <1>6 DEF InList, Nth
<1>14. LoopInv'
  <2>1. LoopType'
    BY <1>12 DEF LoopType, Loops, ListNode
  <2>2. InList(loop.head, loop.start)' /\ InList(loop.head, loop.iter)'
    BY <1>12, <1>13 DEF InList, Nth
  <2>3. kind = "safe" => InList(loop.head, loop.tmp)'
    BY <1>12, <1>13 DEF InList, Nth
  <2> QED BY <1>2, <1>12, <2>1, <2>2, <2>3 DEF LoopInv
<1>15. ListInv'
  BY <1>1 DEF ListInv, ListType, Distinct, Linked, Unlinked, Nth, After, ListNode
<1>16. /\ l.kind = kind /\ l.rev = rev /\ l.head = h /\ l.start = s
       /\ l.tmp = IF kind = "safe" THEN Dlist!To(rev, n) ELSE NULL
       /\ l.stay = Dlist!ToSet(order[h]) \ {s} /\ l.visited = << >>
  BY <1>5, <1>7, <1>9
<1> QED BY <1>1, <1>2, <1>3, <1>4, <1>10, <1>11, <1>14, <1>15, <1>16

\* A loop goes on from a node of the list to a node of the list.
LEMMA AdvanceStep ==
    ASSUME ListInv, LoopInv, Dlist!Advance
    PROVE  /\ ListInv' /\ LoopInv' /\ order' = order /\ loop # Dlist!Idle /\ loop \in Loops
           /\ loop.iter # loop.start
           /\ \E l \in Loops, n \in ListNode :
                 /\ loop' = Dlist!Enter(l, n) /\ InList(loop.head, n)
                 /\ loop.kind = "each" => n = Dlist!To(loop.rev, loop.iter)
                 /\ loop.kind = "safe" => n = loop.tmp
                 /\ loop.kind = "but_one" =>
                        n = Dlist!SkipHead(loop.rev, loop.start, loop.head, loop.iter)
                 /\ l.kind = loop.kind /\ l.rev = loop.rev /\ l.head = loop.head /\ l.start = loop.start
                 /\ l.tmp = IF loop.kind = "safe" THEN Dlist!To(loop.rev, n) ELSE NULL
                 /\ l.stay = loop.stay /\ l.visited = loop.visited
<1>0. ListType /\ loop # Dlist!Idle /\ UNCHANGED <<next, prev, order>>
  BY DEF ListInv, Dlist!Advance
<1>1. /\ loop \in Loops /\ InList(loop.head, loop.start) /\ loop.head \in ListHead
      /\ loop.kind \in {"each", "but_one", "safe"}
      /\ loop.kind = "safe" => loop.start = loop.head /\ InList(loop.head, loop.tmp)
      /\ loop.kind # "safe" => InList(loop.head, loop.iter)
  BY <1>0 DEF LoopInv, LoopType, Loops, Dlist!Kinds
<1>2. PICK n : n = CASE loop.kind = "each" -> Dlist!To(loop.rev, loop.iter)
                     [] loop.kind = "safe" -> loop.tmp
                     [] loop.kind = "but_one" -> Dlist!SkipHead(loop.rev, loop.start, loop.head, loop.iter)
  OBVIOUS
<1>3. InList(loop.head, n)
  <2>1. CASE loop.kind = "each"
    <3>1. n = Dlist!To(loop.rev, loop.iter)
      BY <1>2, <2>1
    <3> QED BY <1>1, <2>1, <3>1, Follow
  <2>2. CASE loop.kind = "safe"
    <3>1. n = loop.tmp
      BY <1>2, <2>2
    <3> QED BY <1>1, <2>2, <3>1
  <2>3. CASE loop.kind = "but_one"
    <3>1. n = Dlist!SkipHead(loop.rev, loop.start, loop.head, loop.iter)
      BY <1>2, <2>3
    <3>2. n = Dlist!To(loop.rev, loop.head) \/ n = Dlist!To(loop.rev, loop.iter)
      BY <3>1 DEF Dlist!SkipHead
    <3>3. InList(loop.head, Dlist!To(loop.rev, loop.head))
      BY <1>0, <1>1, HeadInList, Follow
    <3>4. InList(loop.head, Dlist!To(loop.rev, loop.iter))
      BY <1>1, <2>3, Follow
    <3> QED BY <3>2, <3>3, <3>4
  <2> QED BY <1>1, <2>1, <2>2, <2>3
<1>4. n \in ListNode
  BY <1>0, <1>1, <1>3, InListNode
<1>5. PICK t : t = IF loop.kind = "safe" THEN Dlist!To(loop.rev, n) ELSE NULL
  OBVIOUS
<1>6. t \in ListNode \cup {NULL} /\ (loop.kind = "safe" => InList(loop.head, t))
  <2>1. InList(loop.head, Dlist!To(loop.rev, n))
    BY <1>1, <1>3, Follow
  <2>2. Dlist!To(loop.rev, n) \in ListNode
    BY <1>0, <1>1, <2>1, InListNode
  <2> QED BY <1>5, <2>1, <2>2
<1>7. PICK l : l = [loop EXCEPT !.tmp = t]
  OBVIOUS
<1>8. l \in Loops /\ l.kind = loop.kind /\ l.head = loop.head /\ l.start = loop.start /\ l.tmp = t
  BY <1>1, <1>6, <1>7 DEF Loops
<1>9. loop' = Dlist!Enter(l, n)
  BY <1>2, <1>5, <1>7 DEF Dlist!Advance
<1>10. /\ loop' \in Loops /\ loop'.iter = n /\ loop'.kind = loop.kind /\ loop'.head = loop.head
       /\ loop'.start = loop.start /\ loop'.tmp = t
  BY <1>4, <1>8, <1>9, EnterLoop
<1>11. LoopInv'
  <2>1. LoopType'
    BY <1>10 DEF LoopType, Loops, ListNode
  <2>2. InList(loop.head, loop.start)' /\ InList(loop.head, loop.iter)'
    BY <1>0, <1>1, <1>3, <1>10 DEF InList, Nth
  <2>3. loop.kind = "safe" => InList(loop.head, loop.tmp)'
    BY <1>0, <1>6, <1>10 DEF InList, Nth
  <2> QED BY <1>1, <1>10, <2>1, <2>2, <2>3 DEF LoopInv
<1>12. ListInv'
  BY <1>0 DEF ListInv, ListType, Distinct, Linked, Unlinked, Nth, After, ListNode
<1>13. /\ l.kind = loop.kind /\ l.rev = loop.rev /\ l.head = loop.head /\ l.start = loop.start
       /\ l.tmp = IF loop.kind = "safe" THEN Dlist!To(loop.rev, n) ELSE NULL
       /\ l.stay = loop.stay /\ l.visited = loop.visited
  BY <1>1, <1>5, <1>7 DEF Loops
<1>14. /\ loop.kind = "each" => n = Dlist!To(loop.rev, loop.iter)
       /\ loop.kind = "safe" => n = loop.tmp
       /\ loop.kind = "but_one" => n = Dlist!SkipHead(loop.rev, loop.start, loop.head, loop.iter)
  BY <1>2
<1>15. loop.iter # loop.start
  BY DEF Dlist!Advance, Dlist!AtEnd
<1> QED BY <1>0, <1>1, <1>3, <1>4, <1>8, <1>9, <1>11, <1>12, <1>13, <1>14, <1>15

\* What the invariant says about the circles of ShlDlist.
LEMMA CircleIs ==
    ASSUME ListType, NEW h \in ListHead, NEW c, c = Dlist!Circle(h)
    PROVE  /\ Len(c) = Len(order[h]) + 1
           /\ \A i \in 1..Len(c) : i - 1 \in 0..Len(order[h]) /\ c[i] = Nth(h, i - 1)
           /\ \A i \in 1..Len(c) : c[(i % Len(c)) + 1] = After(h, i - 1)
           /\ Dlist!ToSet(c) = {Nth(h, i) : i \in 0..Len(order[h])}
<1>0. order[h] \in Seq(Elem) /\ Len(order[h]) \in Nat /\ h \in ListNode
  BY NthType, Heads
<1>1. c = <<h>> \o order[h]
  BY DEF Dlist!Circle
<1>2. PICK L \in Nat : L = Len(order[h])
  BY <1>0
<1>3. Len(c) = L + 1 /\ c[1] = h /\ \A i \in 2..(L + 1) : c[i] = order[h][i - 1]
  BY <1>0, <1>1, <1>2
<1>4. \A i \in 1..(L + 1) : i - 1 \in 0..L /\ c[i] = Nth(h, i - 1)
  <2> SUFFICES ASSUME NEW i \in 1..(L + 1) PROVE i - 1 \in 0..L /\ c[i] = Nth(h, i - 1)
    OBVIOUS
  <2>1. CASE i = 1
    <3>1. i - 1 = 0
      BY <2>1
    <3> QED BY <1>3, <2>1, <3>1 DEF Nth
  <2>2. CASE i # 1
    <3>1. i - 1 # 0 /\ i \in 2..(L + 1) /\ i - 1 \in 0..L
      BY <2>2
    <3> QED BY <1>3, <3>1 DEF Nth
  <2> QED BY <2>1, <2>2
<1>5. \A i \in 1..(L + 1) : c[(i % Len(c)) + 1] = After(h, i - 1)
  <2> SUFFICES ASSUME NEW i \in 1..(L + 1) PROVE c[(i % (L + 1)) + 1] = After(h, i - 1)
    BY <1>3
  <2>1. CASE i = L + 1
    <3>1. (i % (L + 1)) + 1 = 1 /\ i - 1 = L
      BY ONLY <2>1, L \in Nat
    <3>2. After(h, L) = h
      BY <1>2 DEF After
    <3> QED BY ONLY <1>3, <3>1, <3>2
  <2>2. CASE i # L + 1
    <3>1. i % (L + 1) = i /\ i - 1 # L /\ i + 1 \in 2..(L + 1) /\ (i + 1) - 1 = i /\ (i - 1) + 1 = i
      BY <2>2
    <3>2. c[i + 1] = order[h][i]
      BY <1>3, <3>1
    <3> QED BY <1>2, <3>1, <3>2 DEF After
  <2> QED BY <2>1, <2>2
<1>6. Dlist!ToSet(c) = {Nth(h, i) : i \in 0..L}
  <2>1. Dlist!ToSet(c) = {c[i] : i \in 1..(L + 1)}
    <3>1. DOMAIN c = 1..(L + 1)
      BY <1>0, <1>1, <1>3
    <3> QED BY <3>1 DEF Dlist!ToSet
  <2>2. \A i \in 0..L : i + 1 \in 1..(L + 1) /\ c[i + 1] = Nth(h, i)
    <3> SUFFICES ASSUME NEW i \in 0..L PROVE i + 1 \in 1..(L + 1) /\ c[i + 1] = Nth(h, i)
      OBVIOUS
    <3>1. i + 1 \in 1..(L + 1) /\ (i + 1) - 1 = i
      OBVIOUS
    <3> QED BY <1>4, <3>1
  <2> QED BY <1>4, <2>1, <2>2
<1> QED BY <1>2, <1>3, <1>4, <1>5, <1>6

\* The invariant is what ListsExact says.

(***************************************************************************)
(* The lists: what the steps of a loop visit                               *)
(***************************************************************************)

\* A step of the caller that keeps the order of what the loop knows.
LEMMA OrderVisits ==
    ASSUME NEW l, NEW o, NEW o2, NEW e, VisitOK(l, o), SameOrder(l.head, o, o2, e),
           l.rev \in BOOLEAN, e \notin l.stay, e # l.start, OnCircle(o, l.head, l.start),
           NEW c, c = IF l.kind = "safe" THEN l.tmp ELSE l.iter, c # e, OnCircle(o, l.head, c),
           \A x : OnCircle(o, l.head, x) /\ x # e => OnCircle(o2, l.head, x)
    PROVE  VisitOK(l, o2)
<1>1. PICK h, s, rev : h = l.head /\ s = l.start /\ rev = l.rev
  OBVIOUS
<1>2. VisitedOnly(l, o)
  BY DEF VisitOK
<1>3. \A x \in l.stay : x # e /\ OnCircle(o, h, x) /\ x # s
  BY <1>1, <1>2 DEF VisitedOnly
<1>4. \A a, b : /\ OnCircle(o, h, a) /\ a # e
                /\ OnCircle(o, h, b) /\ b # e
                => (Comes(o, h, rev, s, a, b) <=> Comes(o2, h, rev, s, a, b))
  BY <1>1 DEF SameOrder
<1>5. VisitedOnly(l, o2)
  <2>1. \A x \in l.stay : OnCircle(o2, l.head, x) /\ x # l.start
    BY <1>1, <1>3
  <2>2. \A i \in 1..Len(l.visited) : l.visited[i] \in l.stay
    BY <1>2 DEF VisitedOnly
  <2>3. ASSUME NEW i \in 1..Len(l.visited), NEW j \in 1..Len(l.visited), i < j
        PROVE  Comes(o2, l.head, l.rev, l.start, l.visited[i], l.visited[j])
    <3>1. Comes(o, h, rev, s, l.visited[i], l.visited[j])
      BY <1>1, <1>2, <2>3 DEF VisitedOnly
    <3> QED BY <1>1, <1>3, <1>4, <2>2, <3>1
  <2> QED BY <2>1, <2>2, <2>3 DEF VisitedOnly
<1>6. \A x \in l.stay : Comes(o, h, rev, s, x, c) <=> Comes(o2, h, rev, s, x, c)
  BY <1>1, <1>3, <1>4
<1> QED BY <1>1, <1>5, <1>6 DEF VisitOK, VisitedUpTo

\* A loop forgets an element.
LEMMA ForgetVisits ==
    ASSUME NEW l \in Loops, NEW h \in ListHead, h = l.head, NEW o, Unique(o, h), VisitOK(l, o),
           OnCircle(o, h, l.start), NEW e, NEW l2,
           l2 = [l EXCEPT !.stay = l.stay \ {e}, !.visited = Dlist!RemoveFirst(l.visited, e)]
    PROVE  VisitOK(l2, o)
<1>1. PICK v, w : v = l.visited /\ w = Dlist!RemoveFirst(v, e)
  OBVIOUS
<1>2. v \in Seq(ListNode) /\ Len(v) \in Nat /\ l.rev \in BOOLEAN
  BY <1>1 DEF Loops
<1>3. /\ l2.kind = l.kind /\ l2.rev = l.rev /\ l2.head = l.head /\ l2.start = l.start
      /\ l2.iter = l.iter /\ l2.tmp = l.tmp /\ l2.stay = l.stay \ {e} /\ l2.visited = w
  BY <1>1 DEF Loops
<1>4. /\ \A x \in l.stay : OnCircle(o, l.head, x) /\ x # l.start
      /\ \A i \in 1..Len(v) : v[i] \in l.stay
      /\ \A i, j \in 1..Len(v) : i < j => Comes(o, l.head, l.rev, l.start, v[i], v[j])
  BY <1>1 DEF VisitOK, VisitedOnly
<1>5. /\ \A i \in 1..Len(w) : w[i] # e /\ w[i] \in l.stay
      /\ \A i, j \in 1..Len(w) : i < j => Comes(o, l.head, l.rev, l.start, w[i], w[j])
      /\ \A x : x # e => (Among(x, w) <=> Among(x, v))
  <2>1. CASE (\A i \in 1..Len(v) : v[i] # e) /\ w = v
    BY <1>4, <2>1
  <2>2. CASE \E k \in 1..Len(v) : v[k] = e /\ w \in Seq(ListNode) /\ WithoutAt(w, v, k)
    <3>1. PICK k \in 1..Len(v) : v[k] = e /\ WithoutAt(w, v, k)
      BY <2>2
    <3>2. /\ Len(w) = Len(v) - 1 /\ k \in Nat
          /\ \A i \in 1..Len(w) : w[i] = IF i < k THEN v[i] ELSE v[i + 1]
      BY <1>2, <3>1 DEF WithoutAt
    <3>3. PICK f : f = [i \in 1..Len(w) |-> IF i < k THEN i ELSE i + 1]
      OBVIOUS
    <3>4. \A i \in 1..Len(w) : f[i] \in 1..Len(v) /\ f[i] # k /\ w[i] = v[f[i]]
      BY <1>2, <3>2, <3>3
    <3>5. \A i, j \in 1..Len(w) : i < j => f[i] < f[j]
      BY <1>2, <3>2, <3>3
    <3>6. \A i \in 1..Len(v) : i # k => \E j \in 1..Len(w) : f[j] = i
      <4> SUFFICES ASSUME NEW i \in 1..Len(v), i # k PROVE \E j \in 1..Len(w) : f[j] = i
        OBVIOUS
      <4>1. CASE i < k
        <5>1. i \in 1..Len(w) /\ f[i] = i
          BY <1>2, <3>2, <3>3, <4>1
        <5> QED BY <5>1
      <4>2. CASE ~(i < k)
        <5>1. i - 1 \in 1..Len(w) /\ f[i - 1] = i
          BY <1>2, <3>2, <3>3, <4>2
        <5> QED BY <5>1
      <4> QED BY <4>1, <4>2
    <3>7. \A i \in 1..Len(v) : i # k => v[i] # e
      <4> SUFFICES ASSUME NEW i \in 1..Len(v), i # k, v[i] = e PROVE FALSE
        OBVIOUS
      <4>1. Comes(o, h, l.rev, l.start, e, e)
        <5>1. i < k \/ k < i
          BY <1>2, <3>1
        <5> QED BY <1>4, <3>1, <5>1
      <4>2. OnCircle(o, h, e)
        BY <1>4, <3>1
      <4> QED BY <1>2, <4>1, <4>2, ComesLast
    <3>8. \A i \in 1..Len(w) : w[i] # e /\ w[i] \in l.stay
      BY <1>4, <3>4, <3>7
    <3>9. \A i, j \in 1..Len(w) : i < j => Comes(o, l.head, l.rev, l.start, w[i], w[j])
      BY <1>4, <3>4, <3>5
    <3>10. ASSUME NEW x, x # e PROVE Among(x, w) <=> Among(x, v)
      <4>1. ASSUME Among(x, w) PROVE Among(x, v)
        BY <3>4, <4>1 DEF Among
      <4>2. ASSUME Among(x, v) PROVE Among(x, w)
        BY <3>1, <3>4, <3>6, <3>10, <4>2 DEF Among
      <4> QED BY <4>1, <4>2
    <3> QED BY <3>8, <3>9, <3>10
  <2> QED BY <1>1, <1>2, <2>1, <2>2, RemoveFirstIs
<1>6. VisitedOnly(l2, o)
  BY <1>3, <1>4, <1>5 DEF VisitedOnly
<1>7. \A x \in l2.stay : x \in l.stay /\ (Among(x, l2.visited) <=> Among(x, l.visited))
  BY <1>1, <1>3, <1>5
<1> QED BY <1>3, <1>6, <1>7 DEF VisitOK, VisitedUpTo

\* A loop that has visited what comes before n reaches n.
LEMMA EnterVisits ==
    ASSUME NEW l \in Loops, NEW h \in ListHead, h = l.head, NEW o, Unique(o, h),
           VisitedOnly(l, o), l.kind = "each" => l.start = h, OnCircle(o, h, l.start),
           NEW n \in ListNode, VisitedUpTo(l, o, n), OnCircle(o, h, n), n \in ListHead => n = l.start,
           l.kind = "safe" /\ n # l.start =>
               \A x : Comes(o, h, l.rev, l.start, x, l.tmp) <=> x = n \/ Comes(o, h, l.rev, l.start, x, n)
    PROVE  VisitOK(Dlist!Enter(l, n), o)
<1>1. PICK v : v = IF n # l.start /\ n \in l.stay \cup ListHead THEN Append(l.visited, n) ELSE l.visited
  OBVIOUS
<1>2. PICK l2 : l2 = Dlist!Enter(l, n)
  OBVIOUS
<1>3. l2 = [l EXCEPT !.iter = n, !.visited = v]
  BY <1>1, <1>2 DEF Dlist!Enter
<1>4. /\ l2.kind = l.kind /\ l2.rev = l.rev /\ l2.head = l.head /\ l2.start = l.start
      /\ l2.iter = n /\ l2.tmp = l.tmp /\ l2.stay = l.stay /\ l2.visited = v
  BY <1>3 DEF Loops
<1>5. l.visited \in Seq(ListNode) /\ Len(l.visited) \in Nat /\ l.rev \in BOOLEAN
  BY DEF Loops
<1>6. CASE n = l.start
  <2>1. v = l.visited
    BY <1>1, <1>6
  <2>2. VisitedOnly(l2, o)
    BY <1>4, <2>1 DEF VisitedOnly
  <2>3. \A e \in l.stay : Comes(o, h, l.rev, l.start, e, n)
    BY <1>5, <1>6, ComesLast DEF VisitedOnly
  <2>4. \A e \in l2.stay : Among(e, l2.visited)
    BY <1>4, <2>1, <2>3 DEF VisitedUpTo
  <2> QED BY <1>2, <1>4, <1>6, <2>2, <2>4 DEF VisitOK
<1>7. CASE n # l.start
  <2>1. v = IF n \in l.stay THEN Append(l.visited, n) ELSE l.visited
    BY <1>1, <1>7
  <2>2. /\ VisitedOnly(l2, o)
        /\ \A e \in l.stay : Among(e, v) <=> e = n \/ Among(e, l.visited)
    <3>1. CASE n \notin l.stay
      BY <1>4, <2>1, <3>1 DEF VisitedOnly
    <3>2. CASE n \in l.stay
      <4>1. PICK u : u = l.visited
        OBVIOUS
      <4>2. /\ Len(v) = Len(u) + 1 /\ v[Len(u) + 1] = n /\ \A i \in 1..Len(u) : v[i] = u[i]
        BY <1>5, <2>1, <3>2, <4>1
      <4>3. \A i \in 1..Len(v) : i \in 1..Len(u) \/ i = Len(u) + 1
        BY <1>5, <4>1, <4>2
      <4>4. \A i \in 1..Len(u) : u[i] \in l.stay /\ Comes(o, h, l.rev, l.start, u[i], n)
        BY <4>1 DEF VisitedOnly, VisitedUpTo, Among
      <4>5. \A i \in 1..Len(v) : v[i] \in l.stay
        BY <3>2, <4>2, <4>3, <4>4
      <4>6. ASSUME NEW i \in 1..Len(v), NEW j \in 1..Len(v), i < j
            PROVE  Comes(o, h, l.rev, l.start, v[i], v[j])
        <5>1. i \in 1..Len(u)
          BY <1>5, <4>1, <4>2, <4>6
        <5>2. CASE j \in 1..Len(u)
          BY <4>1, <4>2, <4>6, <5>1, <5>2 DEF VisitedOnly
        <5>3. CASE j = Len(u) + 1
          BY <4>2, <4>4, <5>1, <5>3
        <5> QED BY <4>3, <5>2, <5>3
      <4>7. ASSUME NEW e \in l.stay PROVE Among(e, v) <=> e = n \/ Among(e, u)
        <5>1. Len(u) + 1 \in 1..Len(v) /\ \A i \in 1..Len(u) : i \in 1..Len(v)
          BY <1>5, <4>1, <4>2
        <5> QED BY <4>2, <4>3, <5>1 DEF Among
      <4>8. VisitedOnly(l2, o)
        BY <1>4, <4>5, <4>6 DEF VisitedOnly
      <4> QED BY <4>1, <4>7, <4>8
    <3> QED BY <3>1, <3>2
  <2>3. \A e \in l.stay : Among(e, v) <=> e = n \/ Comes(o, h, l.rev, l.start, e, n)
    BY <2>2 DEF VisitedUpTo
  <2>4. CASE l.kind = "safe"
    BY <1>2, <1>4, <1>7, <2>2, <2>3, <2>4 DEF VisitOK, VisitedUpTo
  <2>5. CASE l.kind # "safe"
    BY <1>2, <1>4, <1>7, <2>2, <2>3, <2>5 DEF VisitOK
  <2> QED BY <2>4, <2>5
<1> QED BY <1>6, <1>7

\* A list is what its circle is.
LEMMA InListIs ==
    ASSUME NEW h, NEW x
    PROVE  (InList(h, x) <=> OnCircle(order[h], h, x)) /\ (InList(h, x)' <=> OnCircle(order'[h], h, x))
BY DEF InList, OnCircle, Nth, NodeAt

\* There is no other head in a list.
LEMMA OneHead ==
    ASSUME ListInv, NEW h \in ListHead, NEW n \in ListHead, InList(h, n)
    PROVE  n = h
<1>1. PICK i \in 0..Len(order[h]) : n = Nth(h, i)
  BY DEF InList
<1>2. 0 \in 0..Len(order[n]) /\ Nth(n, 0) = n
  BY NthType DEF ListInv, Nth
<1> QED BY <1>1, <1>2, NthOnce DEF ListInv

\* A list with an element does not lead from its head to its head.
LEMMA HeadGoesOn ==
    ASSUME ListInv, NEW h \in ListHead, NEW rev \in BOOLEAN, NEW s, InList(h, s), s # h
    PROVE  Dlist!To(rev, h) # h
<1> SUFFICES ASSUME Dlist!To(rev, h) = h PROVE FALSE
  OBVIOUS
<1>1. InList(h, h)
  BY HeadInList DEF ListInv
<1>2. Comes(order[h], h, rev, s, h, h)
  BY <1>1, ComesNext
<1>3. Unique(order[h], h) /\ OnCircle(order[h], h, s) /\ OnCircle(order[h], h, h)
  BY <1>1, ListUnique, InListIs
<1> QED BY <1>2, <1>3, ComesLast

\* The caller links or unlinks e, and the loop holds on to others.
LEMMA CallerVisits ==
    ASSUME LoopInv, loop # Dlist!Idle, NEW e, OrderKept(e),
           NEW l \in Loops, loop' = l, l.head = loop.head, l.start = loop.start, l.kind = loop.kind,
           l.tmp = loop.tmp, l.iter = loop.iter, VisitOK(l, order[l.head]), e \notin l.stay,
           e # l.start, e # IF l.kind = "safe" THEN l.tmp ELSE l.iter,
           \A g \in ListHead : \A m : InList(g, m) /\ m # e => InList(g, m)'
    PROVE  VisitInv'
<1>1. PICK h \in ListHead : h = l.head
  BY DEF Loops
<1>2. l.rev \in BOOLEAN /\ SameOrder(h, order[h], order'[h], e)
  BY <1>1 DEF Loops, OrderKept
<1>3. PICK c : c = IF l.kind = "safe" THEN l.tmp ELSE l.iter
  OBVIOUS
<1>4. OnCircle(order[h], h, l.start) /\ OnCircle(order[h], h, c) /\ c # e
  BY <1>1, <1>3, InListIs DEF LoopInv
<1>5. \A x : OnCircle(order[h], h, x) /\ x # e => OnCircle(order'[h], h, x)
  BY InListIs
<1>6. VisitOK(l, order'[h])
  <2>1. PICK o, o2 : o = order[h] /\ o2 = order'[h]
    OBVIOUS
  <2>2. VisitOK(l, o) /\ SameOrder(l.head, o, o2, e) /\ OnCircle(o, l.head, l.start) /\ OnCircle(o, l.head, c)
        /\ \A x : OnCircle(o, l.head, x) /\ x # e => OnCircle(o2, l.head, x)
    BY <1>1, <1>2, <1>4, <1>5, <2>1
  <2> QED BY ONLY e \notin l.stay, e # l.start, <1>2, <1>3, <1>4, <2>1, <2>2, OrderVisits
<1> QED BY <1>1, <1>6 DEF VisitInv, VisitOK, VisitedOnly, VisitedUpTo

\* What is linked was in no list, and the loop does not know it.
LEMMA LinkVisits ==
    ASSUME ListInv, LoopInv, VisitInv, NEW n \in Elem, ~Dlist!shl_dlist_linked(n), loop' = loop,
           OrderKept(n), \A g \in ListHead : \A m : InList(g, m) => InList(g, m)'
    PROVE  VisitInv'
<1>1. CASE loop = Dlist!Idle
  BY <1>1 DEF VisitInv, Dlist!Idle
<1>2. CASE loop # Dlist!Idle
  <2>1. loop \in Loops /\ loop.head \in ListHead
    BY <1>2 DEF LoopInv, LoopType, Loops
  <2>2. VisitOK(loop, order[loop.head])
    BY <1>2 DEF VisitInv
  <2>3. \A x : InList(loop.head, x) => x # n
    BY <2>1, LinkedElem DEF InList
  <2>4. \A x \in loop.stay : x # n
    BY <2>2, <2>3, InListIs DEF VisitOK, VisitedOnly
  <2>5. n # loop.start /\ n # IF loop.kind = "safe" THEN loop.tmp ELSE loop.iter
    BY <1>2, <2>3 DEF LoopInv
  <2> QED BY <1>2, <2>1, <2>2, <2>4, <2>5, CallerVisits
<1> QED BY <1>1, <1>2

\* What is unlinked is forgotten.
LEMMA UnlinkVisits ==
    ASSUME ListInv, LoopInv, VisitInv, NEW e \in Elem, Dlist!shl_dlist_unlink(e)
    PROVE  VisitInv'
<1>0. OrderKept(e) /\ \A g \in ListHead : \A m : InList(g, m) /\ m # e => InList(g, m)'
  BY UnlinkElem
<1>1. CASE loop = Dlist!Idle
  <2>1. loop' = Dlist!Idle
    BY <1>1 DEF Dlist!shl_dlist_unlink, Dlist!Forget, Dlist!vars
  <2> QED BY <2>1 DEF VisitInv, Dlist!Idle
<1>2. CASE loop # Dlist!Idle /\ ~Dlist!shl_dlist_linked(e)
  <2>1. UNCHANGED <<order, loop>>
    BY <1>2 DEF Dlist!shl_dlist_unlink, Dlist!vars
  <2> QED BY <2>1 DEF VisitInv, VisitOK, VisitedOnly, VisitedUpTo, OnCircle, Comes, Dlist!Idle
<1>3. CASE loop # Dlist!Idle /\ Dlist!shl_dlist_linked(e)
  <2>1. loop \in Loops /\ loop.head \in ListHead
    BY <1>3 DEF LoopInv, LoopType, Loops
  <2>2. PICK h \in ListHead : h = loop.head
    BY <2>1
  <2>3. VisitOK(loop, order[h]) /\ Unique(order[h], h) /\ OnCircle(order[h], h, loop.start)
    BY <1>3, <2>2, ListUnique, InListIs DEF VisitInv, LoopInv
  <2>4. PICK l : l = [loop EXCEPT !.stay = loop.stay \ {e},
                                  !.visited = Dlist!RemoveFirst(loop.visited, e)]
    OBVIOUS
  <2>5. loop' = l /\ e \notin Dlist!Pinned
    BY <1>3, <2>4 DEF Dlist!shl_dlist_unlink, Dlist!Forget
  <2>6. l \in Loops
    <3>1. loop.visited \in Seq(ListNode)
      BY <2>1 DEF Loops
    <3>2. Dlist!RemoveFirst(loop.visited, e) \in Seq(ListNode)
      BY <3>1, RemoveFirstIs
    <3> QED BY <2>1, <2>4, <3>2 DEF Loops
  <2>7. /\ l.head = loop.head /\ l.start = loop.start /\ l.kind = loop.kind /\ l.tmp = loop.tmp
        /\ l.iter = loop.iter /\ l.stay = loop.stay \ {e}
    BY <2>1, <2>4 DEF Loops
  <2>8. VisitOK(l, order[h])
    BY ONLY <2>1, <2>2, <2>3, <2>4, ForgetVisits
  <2>9. e # l.start /\ e # IF l.kind = "safe" THEN l.tmp ELSE l.iter
    <3>1. CASE loop.kind = "safe"
      BY <1>3, <2>1, <2>5, <2>7, <3>1, Heads DEF Dlist!Pinned, LoopInv
    <3>2. CASE loop.kind # "safe"
      BY <1>3, <2>5, <2>7, <3>2 DEF Dlist!Pinned
    <3> QED BY <3>1, <3>2
  <2>10. e \notin l.stay
    BY <2>7
  <2> QED BY <1>0, <1>3, <2>2, <2>5, <2>6, <2>7, <2>8, <2>9, <2>10, CallerVisits
<1> QED BY <1>1, <1>2, <1>3

\* No element comes before the node at which a loop begins.
LEMMA StartVisits ==
    ASSUME ListInv, LoopInv, NEW kind \in Dlist!Kinds, NEW rev \in BOOLEAN, NEW h \in ListHead,
           NEW s \in ListNode, Dlist!StartLoop(kind, rev, h, s)
    PROVE  VisitInv'
<1>1. order' = order /\ InList(h, s) /\ (kind # "but_one" => s = h)
  BY StartLoopStep
<1>2. PICK l \in Loops, n \in ListNode :
         /\ loop' = Dlist!Enter(l, n)
         /\ n = Dlist!First(kind, rev, s, h) /\ InList(h, n)
         /\ l.kind = kind /\ l.rev = rev /\ l.head = h /\ l.start = s
         /\ l.tmp = IF kind = "safe" THEN Dlist!To(rev, n) ELSE NULL
         /\ l.stay = Dlist!ToSet(order[h]) \ {s} /\ l.visited = << >>
  BY StartLoopStep
<1>3. PICK o : o = order[h]
  OBVIOUS
<1>4. Unique(o, h) /\ OnCircle(o, h, s) /\ OnCircle(o, h, n)
  BY <1>1, <1>2, <1>3, ListUnique, InListIs
<1>5. \A e \in l.stay : OnCircle(o, h, e) /\ e # s /\ e # h
  <2> SUFFICES ASSUME NEW e \in l.stay PROVE OnCircle(o, h, e) /\ e # s /\ e # h
    OBVIOUS
  <2>1. o \in Seq(Elem) /\ Len(o) \in Nat
    BY <1>3, NthType DEF ListInv
  <2>2. PICK i \in 1..Len(o) : e = o[i]
    BY <1>2, <1>3, <2>1 DEF Dlist!ToSet
  <2>3. i \in 0..Len(o) /\ i # 0 /\ e \in Elem
    BY <2>1, <2>2
  <2> QED BY <1>2, <2>2, <2>3, Heads DEF OnCircle, NodeAt
<1>6. VisitedOnly(l, o)
  BY <1>2, <1>5 DEF VisitedOnly
<1>7. ASSUME NEW e, e # s, e # h PROVE ~Comes(o, h, rev, s, e, n)
  <2>1. CASE n = Dlist!To(rev, s)
    <3>1. \A x : x # s => ~Comes(order[h], h, rev, s, x, n)
      <4>1. PICK m : m = s
        OBVIOUS
      <4>2. InList(h, s) /\ InList(h, m) /\ n = Dlist!To(rev, m)
        BY <1>1, <2>1, <4>1
      <4>3. m = s => \A x : x # s => ~Comes(order[h], h, rev, s, x, n)
        BY ONLY ListInv, h \in ListHead, rev \in BOOLEAN, <4>2, ComesNext
      <4> QED BY <4>1, <4>3
    <3> QED BY <1>3, <1>7, <3>1
  <2>2. CASE n # Dlist!To(rev, s)
    <3>1. n = Dlist!To(rev, h) /\ Dlist!To(rev, s) = h /\ s # h
      BY <1>2, <2>2 DEF Dlist!First
    <3>2. InList(h, h)
      BY HeadInList DEF ListInv
    <3>3. ~Comes(o, h, rev, s, e, h)
      BY <1>1, <1>3, <1>7, <3>1, ComesNext
    <3>4. Comes(o, h, rev, s, e, n) <=> e = h \/ Comes(o, h, rev, s, e, h)
      BY <1>1, <1>3, <3>1, <3>2, ComesNext
    <3> QED BY <1>7, <3>3, <3>4
  <2> QED BY <2>1, <2>2
<1>8. VisitedUpTo(l, o, n)
  <2>1. \A e \in l.stay : ~Among(e, l.visited)
    BY <1>2 DEF Among
  <2> QED BY <1>2, <1>5, <1>7, <2>1 DEF VisitedUpTo
<1>9. n \in ListHead => n = s
  <2> SUFFICES ASSUME n \in ListHead, n # s PROVE FALSE
    OBVIOUS
  <2>1. n = h
    BY <1>2, OneHead
  <2>2. s # h /\ kind = "but_one"
    BY <1>1, <2>1
  <2>3. Dlist!To(rev, h) # h
    BY <1>1, <2>2, HeadGoesOn
  <2> QED BY <1>2, <2>1, <2>2, <2>3 DEF Dlist!First
<1>10. ASSUME kind = "safe", n # s, NEW x
       PROVE  Comes(o, h, rev, s, x, l.tmp) <=> x = n \/ Comes(o, h, rev, s, x, n)
  BY <1>1, <1>2, <1>3, <1>10, ComesNext
<1>11. kind = "each" => s = h
  BY <1>1
<1>12. VisitOK(Dlist!Enter(l, n), o)
  BY <1>2, <1>4, <1>6, <1>8, <1>9, <1>10, <1>11, EnterVisits
<1>13. loop'.head = h
  BY <1>2, EnterLoop
<1> QED BY <1>1, <1>2, <1>3, <1>12, <1>13 DEF VisitInv, VisitOK, VisitedOnly, VisitedUpTo

\* A loop goes on to a node before which come the ones it has visited.
LEMMA AdvanceVisits ==
    ASSUME ListInv, LoopInv, VisitInv, Dlist!Advance
    PROVE  VisitInv'
<1>1. order' = order /\ loop # Dlist!Idle /\ loop \in Loops /\ loop.iter # loop.start
  BY AdvanceStep
<1>2. PICK l \in Loops, n \in ListNode :
         /\ loop' = Dlist!Enter(l, n) /\ InList(loop.head, n)
         /\ loop.kind = "each" => n = Dlist!To(loop.rev, loop.iter)
         /\ loop.kind = "safe" => n = loop.tmp
         /\ loop.kind = "but_one" =>
                n = Dlist!SkipHead(loop.rev, loop.start, loop.head, loop.iter)
         /\ l.kind = loop.kind /\ l.rev = loop.rev /\ l.head = loop.head /\ l.start = loop.start
         /\ l.tmp = IF loop.kind = "safe" THEN Dlist!To(loop.rev, n) ELSE NULL
         /\ l.stay = loop.stay /\ l.visited = loop.visited
  BY AdvanceStep
<1>3. PICK h \in ListHead, s \in ListNode, rev \in BOOLEAN : h = l.head /\ s = l.start /\ rev = l.rev
  BY DEF Loops
<1>4. PICK o : o = order[h]
  OBVIOUS
<1>5. VisitOK(loop, o) /\ InList(h, s) /\ Unique(o, h) /\ OnCircle(o, h, s) /\ OnCircle(o, h, n)
  BY <1>1, <1>2, <1>3, <1>4, ListUnique, InListIs DEF VisitInv, LoopInv
<1>6. VisitedOnly(l, o) /\ (l.kind = "each" => s = h) /\ (l.kind = "safe" => s = h)
  BY <1>1, <1>2, <1>3, <1>5 DEF VisitOK, VisitedOnly, LoopInv
<1>7. \A e \in l.stay : e # h
  BY <1>3, Heads DEF Loops
<1>8. CASE l.kind = "safe"
  <2>1. VisitedUpTo(l, o, n)
    BY <1>1, <1>2, <1>3, <1>5, <1>8 DEF VisitOK, VisitedUpTo
  <2>2. n \in ListHead => n = s
    BY <1>2, <1>3, <1>6, <1>8, OneHead
  <2>3. ASSUME n # s, NEW x
        PROVE  Comes(o, h, rev, s, x, l.tmp) <=> x = n \/ Comes(o, h, rev, s, x, n)
    <3>1. InList(h, s) /\ InList(h, n) /\ l.tmp = Dlist!To(rev, n)
      BY <1>2, <1>3, <1>5, <1>8
    <3>2. n # s => \A y : Comes(order[h], h, rev, s, y, l.tmp) <=> y = n \/ Comes(order[h], h, rev, s, y, n)
      BY ONLY ListInv, h \in ListHead, rev \in BOOLEAN, <3>1, ComesNext
    <3> QED BY <1>4, <2>3, <3>2
  <2>4. VisitOK(Dlist!Enter(l, n), o)
    BY <1>3, <1>5, <1>6, <1>8, <2>1, <2>2, <2>3, EnterVisits
  <2>5. loop'.head = h
    BY <1>2, <1>3, EnterLoop
  <2> QED BY <1>1, <1>2, <1>4, <2>4, <2>5 DEF VisitInv, VisitOK, VisitedOnly, VisitedUpTo
<1>9. CASE l.kind # "safe"
  <2>1. InList(h, loop.iter) /\ loop.iter # s
    BY <1>1, <1>2, <1>3, <1>9 DEF LoopInv
  <2>2. l.kind \in {"each", "but_one"}
    BY <1>9 DEF Loops, Dlist!Kinds
  <2>3. \A e \in l.stay : Among(e, l.visited) <=>
                              e = loop.iter \/ Comes(o, h, rev, s, e, loop.iter)
    BY <1>1, <1>2, <1>3, <1>5, <1>9 DEF VisitOK
  <2>4. PICK m : m = Dlist!To(rev, loop.iter)
    OBVIOUS
  <2>5. \A e \in l.stay : Among(e, l.visited) <=> Comes(o, h, rev, s, e, m)
    BY <1>4, <1>5, <2>1, <2>3, <2>4, ComesNext
  <2>6. n = m \/ (n = Dlist!To(rev, h) /\ m = h /\ s # h)
    BY <1>2, <1>3, <2>2, <2>4 DEF Dlist!SkipHead
  <2>7. VisitedUpTo(l, o, n)
    <3>1. CASE n = m
      BY <1>3, <2>5, <3>1 DEF VisitedUpTo
    <3>2. CASE n = Dlist!To(rev, h) /\ m = h /\ s # h
      <4>1. InList(h, h)
        BY HeadInList DEF ListInv
      <4>2. \A e : Comes(o, h, rev, s, e, n) <=> e = h \/ Comes(o, h, rev, s, e, h)
        BY <1>4, <1>5, <3>2, <4>1, ComesNext
      <4> QED BY <1>3, <1>7, <2>5, <3>2, <4>2 DEF VisitedUpTo
    <3> QED BY <2>6, <3>1, <3>2
  <2>8. n \in ListHead => n = s
    <3> SUFFICES ASSUME n \in ListHead, n # s PROVE FALSE
      OBVIOUS
    <3>1. n = h
      BY <1>2, <1>3, OneHead
    <3>2. s # h /\ l.kind = "but_one"
      BY <1>6, <2>2, <3>1
    <3>3. Dlist!To(rev, h) # h
      BY <1>5, <3>2, HeadGoesOn
    <3> QED BY <1>2, <1>3, <3>1, <3>2, <3>3 DEF Dlist!SkipHead
  <2>9. VisitOK(Dlist!Enter(l, n), o)
    BY <1>3, <1>5, <1>6, <1>9, <2>7, <2>8, EnterVisits
  <2>10. loop'.head = h
    BY <1>2, <1>3, EnterLoop
  <2> QED BY <1>1, <1>2, <1>4, <2>9, <2>10 DEF VisitInv, VisitOK, VisitedOnly, VisitedUpTo
<1> QED BY <1>8, <1>9

LEMMA ListInvSuffices ==
    ASSUME ListInv, LoopInv
    PROVE  ListsExact /\ Dlist!LoopStaysInList
<1>0. ListType /\ Distinct
  BY DEF ListInv
<1>1. Dlist!TypeOK
  BY <1>0 DEF Dlist!TypeOK, ListType, LoopInv, LoopType, ListNode
<1>2. ASSUME NEW h \in ListHead, NEW i \in 1..Len(Dlist!Circle(h))
      PROVE  /\ next[Dlist!Circle(h)[i]] = Dlist!Circle(h)[(i % Len(Dlist!Circle(h))) + 1]
             /\ prev[Dlist!Circle(h)[(i % Len(Dlist!Circle(h))) + 1]] = Dlist!Circle(h)[i]
             /\ \A g \in ListHead : \A j \in 1..Len(Dlist!Circle(g)) :
                   Dlist!Circle(g)[j] = Dlist!Circle(h)[i] => g = h /\ j = i
  <2>0. PICK c : c = Dlist!Circle(h)
    OBVIOUS
  <2>1. /\ i \in 1..Len(c) /\ i - 1 \in 0..Len(order[h]) /\ c[i] = Nth(h, i - 1)
        /\ c[(i % Len(c)) + 1] = After(h, i - 1)
    BY <1>0, <2>0, CircleIs
  <2>2. next[Nth(h, i - 1)] = After(h, i - 1) /\ prev[After(h, i - 1)] = Nth(h, i - 1)
    BY <2>1 DEF ListInv, Linked
  <2>3. ASSUME NEW g \in ListHead, NEW j \in 1..Len(Dlist!Circle(g)), Dlist!Circle(g)[j] = c[i]
        PROVE  g = h /\ j = i
    <3>0. PICK d : d = Dlist!Circle(g)
      OBVIOUS
    <3>1. j \in 1..Len(d) /\ j - 1 \in 0..Len(order[g]) /\ d[j] = Nth(g, j - 1)
      BY <1>0, <3>0, CircleIs
    <3>2. Nth(g, j - 1) = Nth(h, i - 1)
      BY ONLY <2>1, <2>3, <3>0, <3>1
    <3>3. g = h /\ j - 1 = i - 1
      <4>1. PICK a \in 0..Len(order[h]) : a = i - 1
        BY ONLY <2>1
      <4>2. PICK b \in 0..Len(order[g]) : b = j - 1
        BY ONLY <3>1
      <4>3. Nth(g, b) = Nth(h, a)
        BY ONLY <3>2, <4>1, <4>2
      <4>4. g = h /\ b = a
        BY <1>0, <4>3, NthOnce
      <4> QED BY ONLY <4>1, <4>2, <4>4
    <3>4. Len(d) = Len(order[g]) + 1 /\ Len(order[g]) \in Nat
      BY <1>0, <3>0, CircleIs, NthType
    <3>5. Len(c) = Len(order[h]) + 1 /\ Len(order[h]) \in Nat
      BY <1>0, <2>0, CircleIs, NthType
    <3>6. i \in Nat /\ j \in Nat
      BY ONLY <2>1, <3>1, <3>4, <3>5
    <3> QED BY ONLY <3>3, <3>6
  <2>4. next[c[i]] = c[(i % Len(c)) + 1] /\ prev[c[(i % Len(c)) + 1]] = c[i]
    BY ONLY <2>1, <2>2
  <2> QED BY ONLY <2>0, <2>3, <2>4
<1>3. ASSUME NEW h \in ListHead PROVE Dlist!shl_dlist_empty(h) <=> order[h] = << >>
  <2>1. 0 \in 0..Len(order[h]) /\ Nth(h, 0) = h /\ order[h] \in Seq(Elem) /\ Len(order[h]) \in Nat
    BY <1>0, NthType DEF Nth
  <2>2. next[h] = After(h, 0)
    BY <2>1 DEF ListInv, Linked
  <2>3. CASE Len(order[h]) = 0
    <3>1. order[h] = << >> /\ After(h, 0) = h
      BY <2>1, <2>3 DEF After
    <3> QED BY <2>2, <3>1 DEF Dlist!shl_dlist_empty
  <2>4. CASE Len(order[h]) # 0
    <3>1. order[h] # << >> /\ 1 \in 1..Len(order[h])
      BY <2>1, <2>4
    <3>2. After(h, 0) = order[h][1] /\ order[h][1] \in Elem
      BY <2>1, <2>4, <3>1 DEF After
    <3> QED BY <2>2, <3>1, <3>2, Heads DEF Dlist!shl_dlist_empty
  <2> QED BY <2>3, <2>4
<1>4. ASSUME NEW e \in Elem, \A h \in ListHead : e \notin Dlist!ToSet(order[h])
      PROVE  next[e] = NULL /\ prev[e] = NULL
  <2>1. \A h \in ListHead : \A i \in 1..Len(order[h]) : order[h][i] # e
    <3> SUFFICES ASSUME NEW h \in ListHead, NEW i \in 1..Len(order[h]) PROVE order[h][i] # e
      OBVIOUS
    <3>1. DOMAIN order[h] = 1..Len(order[h])
      BY <1>0, NthType
    <3> QED BY <1>4, <3>1 DEF Dlist!ToSet
  <2> QED BY <2>1 DEF ListInv, Unlinked
<1>5. Dlist!ListsExact
  BY <1>2, <1>3, <1>4 DEF Dlist!ListsExact
<1>6. Dlist!LoopStaysInList
  <2> SUFFICES ASSUME loop # Dlist!Idle
               PROVE  /\ (IF loop.kind = "safe" THEN loop.tmp ELSE loop.iter) \in Dlist!ToSet(Dlist!Circle(loop.head))
                      /\ loop.start \in Dlist!ToSet(Dlist!Circle(loop.head))
    BY DEF Dlist!LoopStaysInList
  <2>1. loop.head \in ListHead /\ InList(loop.head, loop.start)
        /\ InList(loop.head, IF loop.kind = "safe" THEN loop.tmp ELSE loop.iter)
    BY DEF LoopInv, LoopType
  <2>2. Dlist!ToSet(Dlist!Circle(loop.head)) = {Nth(loop.head, i) : i \in 0..Len(order[loop.head])}
    BY <1>0, <2>1, CircleIs
  <2> QED BY <2>1, <2>2 DEF InList
<1> QED BY <1>1, <1>5, <1>6 DEF ListsExact

\* The invariant is inductive, and every behaviour has it.
LEMMA ListInvHolds == Spec => [](ListInv /\ LoopInv)
<1>1. Init => ListInv /\ LoopInv
  <2> SUFFICES ASSUME Init PROVE ListInv /\ LoopInv
    OBVIOUS
  <2>1. /\ next = [n \in ListNode |-> IF n \in ListHead THEN n ELSE NULL]
        /\ prev = [n \in ListNode |-> IF n \in ListHead THEN n ELSE NULL]
        /\ order = [h \in ListHead |-> << >>] /\ loop = Dlist!Idle
    BY DEF Init, Dlist!Init, ListNode
  <2>2. \A h \in ListHead : order[h] = << >> /\ Len(order[h]) = 0
    BY <2>1
  <2>3. ListType
    BY <2>1, Heads DEF ListType
  <2>4. Distinct
    BY <2>2 DEF Distinct
  <2>5. Linked
    <3> SUFFICES ASSUME NEW h \in ListHead, NEW i \in 0..Len(order[h])
                 PROVE  next[Nth(h, i)] = After(h, i) /\ prev[After(h, i)] = Nth(h, i)
      BY DEF Linked
    <3>1. i = 0 /\ Len(order[h]) = 0
      BY <2>2
    <3> QED BY <2>1, <3>1, Heads DEF Nth, After
  <2>6. Unlinked
    BY <2>1, Heads DEF Unlinked
  <2> QED BY <2>1, <2>3, <2>4, <2>5, <2>6 DEF ListInv, LoopInv
<1>2. ListInv /\ LoopInv /\ [Next]_vars => (ListInv /\ LoopInv)'
  <2> SUFFICES ASSUME ListInv, LoopInv, [Next]_vars PROVE ListInv' /\ LoopInv'
    OBVIOUS
  <2>1. CASE UNCHANGED dlistVars
    BY <2>1 DEF dlistVars, ListInv, LoopInv, ListType, Distinct, Linked, Unlinked, LoopType, InList,
                Nth, After, ListNode, Dlist!Idle
  <2>2. CASE Dlist!Next
    <3>1. ASSUME NEW h \in ListHead, NEW e \in Elem, Dlist!shl_dlist_link(h, e)
          PROVE  ListInv' /\ LoopInv'
      BY <3>1, LinkFirst
    <3>2. ASSUME NEW h \in ListHead, NEW e \in Elem, Dlist!shl_dlist_link_tail(h, e)
          PROVE  ListInv' /\ LoopInv'
      BY <3>2, LinkLast
    <3>3. ASSUME NEW e \in Elem, Dlist!shl_dlist_unlink(e) PROVE ListInv' /\ LoopInv'
      BY <3>3, UnlinkElem
    <3>4. CASE Dlist!Body
      BY <3>1, <3>2, <3>3, <3>4 DEF Dlist!Body
    <3>5. ASSUME NEW kind \in Dlist!Kinds, NEW rev \in BOOLEAN, NEW h \in ListHead,
                 NEW s \in ListNode, Dlist!StartLoop(kind, rev, h, s)
          PROVE  ListInv' /\ LoopInv'
      BY <3>5, StartLoopStep
    <3>6. CASE Dlist!Advance
      BY <3>6, AdvanceStep
    <3>7. CASE Dlist!EndLoop
      <4>1. loop' = Dlist!Idle /\ UNCHANGED <<next, prev, order>>
        BY <3>7 DEF Dlist!EndLoop
      <4>2. LoopInv'
        BY <4>1 DEF LoopInv, Dlist!Idle
      <4> QED BY <4>1, <4>2 DEF ListInv, ListType, Distinct, Linked, Unlinked, Nth, After, ListNode
    <3> QED BY <2>2, <3>4, <3>5, <3>6, <3>7 DEF Dlist!Next, ListNode
  <2> QED BY <2>1, <2>2 DEF Next, RunDlist, RunNumbers, RunStrings, RunBuf, RunRatelimit,
                           RunDirectories, vars
<1> QED BY <1>1, <1>2, PTL DEF Spec

\* For any number of lists and elements: the pointers of every list run through
\* exactly what shl_dlist_link() and its relatives have linked and
\* shl_dlist_unlink() has not taken out, in both directions, whatever the
\* bodies of loops do.
THEOREM ListsAreExact == Spec => []ListsExact
<1>1. ListInv /\ LoopInv => ListsExact
  BY ListInvSuffices
<1> QED BY <1>1, ListInvHolds, PTL

\* The place of a position.
LEMMA PlaceIs ==
    ASSUME ListInv, NEW h \in ListHead, NEW i \in 0..Len(order[h])
    PROVE  Dlist!Place(h, NodeAt(order[h], h, i)) = i + 1
<1>1. PICK c : c = Dlist!Circle(h)
  OBVIOUS
<1>2. /\ Len(c) = Len(order[h]) + 1 /\ Len(order[h]) \in Nat
      /\ \A j \in 1..Len(c) : j - 1 \in 0..Len(order[h]) /\ c[j] = Nth(h, j - 1)
  BY <1>1, CircleIs, NthType DEF ListInv
<1>3. i + 1 \in 1..Len(c) /\ (i + 1) - 1 = i
  BY <1>2
<1>4. c[i + 1] = NodeAt(order[h], h, i)
  BY <1>2, <1>3 DEF Nth, NodeAt
<1>5. ASSUME NEW j \in 1..Len(c), c[j] = NodeAt(order[h], h, i) PROVE j = i + 1
  <2>1. j - 1 \in 0..Len(order[h]) /\ NodeAt(order[h], h, j - 1) = NodeAt(order[h], h, i)
    BY <1>2, <1>5 DEF Nth, NodeAt
  <2>2. Unique(order[h], h)
    BY ListUnique
  <2>3. j - 1 = i
    BY <2>1, <2>2 DEF Unique
  <2> QED BY <1>2, <2>3
<1> QED BY <1>1, <1>3, <1>4, <1>5 DEF Dlist!Place

\* What the invariant says about a loop that has ended.
LEMMA VisitInvSuffices ==
    ASSUME ListInv, LoopInv, VisitInv
    PROVE  Dlist!LoopVisitsAll
<1> SUFFICES ASSUME loop # Dlist!Idle, loop.iter = loop.start
             PROVE  /\ Dlist!ToSet(loop.visited) = loop.stay
                    /\ \A i, j \in 1..Len(loop.visited) :
                          i < j => Dlist!Sooner(loop.rev, Dlist!Place(loop.head, loop.start),
                                                Dlist!Place(loop.head, loop.visited[i]),
                                                Dlist!Place(loop.head, loop.visited[j]))
  BY DEF Dlist!LoopVisitsAll, Dlist!AtEnd
<1>1. loop \in Loops
  BY DEF LoopInv, LoopType, Loops
<1>2. PICK h \in ListHead, v \in Seq(ListNode), rev \in BOOLEAN :
         h = loop.head /\ v = loop.visited /\ rev = loop.rev
  BY <1>1 DEF Loops
<1>3. PICK o : o = order[h]
  OBVIOUS
<1>4. /\ \A e \in loop.stay : Among(e, v)
      /\ \A i \in 1..Len(v) : v[i] \in loop.stay
      /\ \A i, j \in 1..Len(v) : i < j => Comes(o, h, rev, loop.start, v[i], v[j])
  BY <1>2, <1>3 DEF VisitInv, VisitOK, VisitedOnly
<1>5. Dlist!ToSet(v) = loop.stay
  <2>1. Dlist!ToSet(v) = {v[i] : i \in 1..Len(v)}
    BY DEF Dlist!ToSet
  <2>2. \A e \in loop.stay : \E i \in 1..Len(v) : v[i] = e
    BY <1>4 DEF Among
  <2>3. \A i \in 1..Len(v) : v[i] \in loop.stay
    BY <1>4
  <2> QED BY ONLY <2>1, <2>2, <2>3, Zenon
<1>6. ASSUME NEW i \in 1..Len(v), NEW j \in 1..Len(v), i < j
      PROVE  Dlist!Sooner(rev, Dlist!Place(h, loop.start), Dlist!Place(h, v[i]), Dlist!Place(h, v[j]))
  <2>1. PICK k, a, b \in 0..Len(o) :
           /\ loop.start = NodeAt(o, h, k) /\ v[i] = NodeAt(o, h, a) /\ v[j] = NodeAt(o, h, b)
           /\ Dlist!Sooner(rev, k, a, b)
    BY <1>4, <1>6 DEF Comes
  <2>2. /\ Dlist!Place(h, loop.start) = k + 1 /\ Dlist!Place(h, v[i]) = a + 1
        /\ Dlist!Place(h, v[j]) = b + 1
    BY <1>3, <2>1, PlaceIs
  <2>3. Dlist!Sooner(rev, k + 1, a + 1, b + 1)
    <3>1. k \in Nat /\ a \in Nat /\ b \in Nat
      BY <1>3, NthType DEF ListInv
    <3> QED BY ONLY <2>1, <3>1, SoonerMoves, rev \in BOOLEAN DEF Dlist!Sooner
  <2> QED BY <2>2, <2>3
<1> QED BY <1>2, <1>5, <1>6

\* The invariant of the visits, too.
LEMMA VisitInvHolds == Spec => []VisitInv
<1>1. Init => VisitInv
  BY DEF Init, Dlist!Init, VisitInv
<1>2. ListInv /\ LoopInv /\ VisitInv /\ [Next]_vars => VisitInv'
  <2> SUFFICES ASSUME ListInv, LoopInv, VisitInv, [Next]_vars PROVE VisitInv'
    OBVIOUS
  <2>1. CASE UNCHANGED dlistVars
    BY <2>1 DEF dlistVars, VisitInv, VisitOK, VisitedOnly, VisitedUpTo, OnCircle, Comes, Dlist!Idle
  <2>2. CASE Dlist!Next
    <3>1. ASSUME NEW h \in ListHead, NEW e \in Elem, Dlist!shl_dlist_link(h, e) PROVE VisitInv'
      <4>1. ~Dlist!shl_dlist_linked(e) /\ loop' = loop
        BY <3>1 DEF Dlist!shl_dlist_link
      <4> QED BY <3>1, <4>1, LinkFirst, LinkVisits
    <3>2. ASSUME NEW h \in ListHead, NEW e \in Elem, Dlist!shl_dlist_link_tail(h, e) PROVE VisitInv'
      <4>1. ~Dlist!shl_dlist_linked(e) /\ loop' = loop
        BY <3>2 DEF Dlist!shl_dlist_link_tail
      <4> QED BY <3>2, <4>1, LinkLast, LinkVisits
    <3>3. ASSUME NEW e \in Elem, Dlist!shl_dlist_unlink(e) PROVE VisitInv'
      BY <3>3, UnlinkVisits
    <3>4. CASE Dlist!Body
      BY <3>1, <3>2, <3>3, <3>4 DEF Dlist!Body
    <3>5. ASSUME NEW kind \in Dlist!Kinds, NEW rev \in BOOLEAN, NEW h \in ListHead,
                 NEW s \in ListNode, Dlist!StartLoop(kind, rev, h, s)
          PROVE  VisitInv'
      BY <3>5, StartVisits
    <3>6. CASE Dlist!Advance
      BY <3>6, AdvanceVisits
    <3>7. CASE Dlist!EndLoop
      BY <3>7 DEF Dlist!EndLoop, VisitInv, Dlist!Idle
    <3> QED BY <2>2, <3>4, <3>5, <3>6, <3>7 DEF Dlist!Next, ListNode
  <2> QED BY <2>1, <2>2 DEF Next, RunDlist, RunNumbers, RunStrings, RunBuf, RunRatelimit,
                           RunDirectories, vars
<1> QED BY <1>1, <1>2, ListInvHolds, PTL DEF Spec

\* A loop of shl_dlist.h that has ended has visited every element that was in
\* its list all the time, once and in the order of the list, and nothing else;
\* and until then it has never left the list.
THEOREM LoopsAreExact == Spec => []LoopExact
<1>1. ListInv /\ LoopInv /\ VisitInv => LoopExact
  BY ListInvSuffices, VisitInvSuffices DEF LoopExact
<1> QED BY <1>1, ListInvHolds, VisitInvHolds, PTL

(***************************************************************************)
(* Rate limits                                                             *)
(***************************************************************************)

\* The clock, the fields of the limit, and the times of the calls, which are
\* in order.
RateType ==
    /\ now \in Nat \ {0} /\ begin \in Nat /\ num \in Nat /\ granted \in Seq(Nat)
    /\ \A i \in 1..Len(granted) : granted[i] >= 1 /\ granted[i] <= now
    /\ \A i, j \in 1..Len(granted) : i <= j => granted[i] <= granted[j]

\* Every call is one of the burst that began with a call at one of the
\* starts, and these are more than an interval apart.
Windows(starts) ==
    /\ starts \subseteq 1..Len(granted)
    /\ \A i \in 1..Len(granted) : \E s \in starts :
           s <= i /\ i < s + Burst /\ granted[i] <= granted[s] + Interval
    /\ \A s, t \in starts : s < t => granted[t] > granted[s] + Interval

\* r->begin is the last start, and r->num counts the calls since then.
Current(starts) ==
    IF granted = << >> THEN begin = 0 /\ num = 0
    ELSE /\ num \in 1..Burst /\ num <= Len(granted)
         /\ Len(granted) - num + 1 \in starts
         /\ begin = granted[Len(granted) - num + 1]
         /\ \A s \in starts : s <= Len(granted) - num + 1

RateInv == RateType /\ \E starts : Windows(starts) /\ Current(starts)

\* What is known of the sequence after a call was granted.
LEMMA OneMoreCall ==
    ASSUME NEW s \in Seq(Nat), NEW t \in Nat, NEW r, r = Append(s, t)
    PROVE  /\ r \in Seq(Nat) /\ Len(r) = Len(s) + 1 /\ r[Len(s) + 1] = t /\ r # << >>
           /\ \A i \in 1..Len(s) : r[i] = s[i]
BY AppendProperties

\* shl_ratelimit_test() starts a new window, or the call joins the current one.
LEMMA RatelimitStep ==
    ASSUME RateInv, Ratelimit!shl_ratelimit_test
    PROVE  RateInv'
<1>1. PICK starts : Windows(starts) /\ Current(starts)
  BY DEF RateInv
<1>2. PICK n : n = Len(granted)
  OBVIOUS
<1>3. /\ n \in Nat /\ now \in Nat \ {0} /\ now' = now /\ granted' = Append(granted, now)
      /\ granted \in Seq(Nat) /\ Burst \in Nat \ {0} /\ Interval \in Nat \ {0} /\ num \in Nat
      /\ begin \in Nat
  BY <1>2, HelpersAssumption DEF RateInv, RateType, Ratelimit!shl_ratelimit_test
<1>4. PICK r : r = granted'
  OBVIOUS
<1>5. /\ r \in Seq(Nat) /\ Len(r) = n + 1 /\ r[n + 1] = now /\ r # << >>
      /\ \A i \in 1..n : r[i] = granted[i]
  <2>1. granted \in Seq(Nat) /\ now \in Nat /\ r = Append(granted, now)
    BY <1>3, <1>4
  <2> QED BY ONLY <1>2, <2>1, OneMoreCall
<1>6. /\ \A i \in 1..(n + 1) : r[i] >= 1 /\ r[i] <= now
      /\ \A i, j \in 1..(n + 1) : i <= j => r[i] <= r[j]
  <2>1. \A i \in 1..(n + 1) : i \in 1..n \/ i = n + 1
    BY <1>3
  <2>2. \A i \in 1..n : r[i] >= 1 /\ r[i] <= now /\ r[i] \in Nat
    BY <1>2, <1>3, <1>5 DEF RateInv, RateType
  <2>3. \A i, j \in 1..n : i <= j => r[i] <= r[j]
    BY <1>2, <1>5 DEF RateInv, RateType
  <2>4. \A i \in 1..n : ~(n + 1 <= i)
    BY <1>3
  <2>5. \A i \in 1..(n + 1) : r[i] >= 1 /\ r[i] <= now
    BY ONLY <1>3, <1>5, <2>1, <2>2
  <2>6. ASSUME NEW i \in 1..(n + 1), NEW j \in 1..(n + 1), i <= j PROVE r[i] <= r[j]
    <3>1. CASE j \in 1..n
      <4>1. i \in 1..n
        BY <2>1, <2>4, <2>6, <3>1
      <4> QED BY ONLY <2>3, <2>6, <3>1, <4>1
    <3>2. CASE j = n + 1
      BY ONLY <1>5, <2>5, <2>6, <3>2
    <3> QED BY <2>1, <3>1, <3>2
  <2> QED BY <2>5, <2>6
<1>7. CASE Ratelimit!Expired
  <2>1. begin' = now /\ num' = 1
    BY <1>7 DEF Ratelimit!shl_ratelimit_test, Ratelimit!Counted
  <2>2. PICK more : more = starts \cup {n + 1}
    OBVIOUS
  <2>3. starts \subseteq 1..n /\ more \subseteq 1..(n + 1)
    <3>1. starts \subseteq 1..n
      BY <1>1, <1>2 DEF Windows
    <3> QED BY ONLY <1>3, <2>2, <3>1
  <2>4. \A s \in starts : r[s] \in Nat /\ now > r[s] + Interval
    <3> SUFFICES ASSUME NEW s \in starts PROVE r[s] \in Nat /\ now > r[s] + Interval
      OBVIOUS
    <3>1. s \in 1..n /\ granted # << >> /\ r[s] = granted[s]
      BY <1>2, <1>5, <2>3
    <3>2. PICK b \in starts : b = n - num + 1 /\ begin = granted[b] /\ s <= b
      BY <1>1, <1>2, <3>1 DEF Current
    <3>3. granted[s] <= begin /\ begin >= 1 /\ granted[s] \in Nat
      <4>1. RateType /\ s \in 1..Len(granted) /\ b \in 1..Len(granted)
        BY <1>2, <2>3, <3>1, <3>2 DEF RateInv, Windows
      <4> QED BY ONLY <3>2, <4>1 DEF RateType
    <3>4. begin + Interval < now
      BY <1>7, <3>3 DEF Ratelimit!Expired
    <3> QED BY <1>3, <3>1, <3>3, <3>4
  <2>5. Windows(more)'
    <3>1. \A i \in 1..(n + 1) : \E s \in more :
              s <= i /\ i < s + Burst /\ r[i] <= r[s] + Interval
      <4> SUFFICES ASSUME NEW i \in 1..(n + 1)
                   PROVE  \E s \in more : s <= i /\ i < s + Burst /\ r[i] <= r[s] + Interval
        OBVIOUS
      <4>1. CASE i = n + 1
        <5>1. n + 1 \in more
          BY <2>2
        <5>2. r[i] <= r[n + 1] + Interval
          BY <1>3, <1>5, <4>1
        <5>3. n + 1 <= i /\ i < n + 1 + Burst
          BY ONLY <1>3, <4>1
        <5> QED BY <5>1, <5>2, <5>3
      <4>2. CASE i # n + 1
        <5>1. i \in 1..n
          BY <1>3, <4>2
        <5>2. PICK s \in starts : s <= i /\ i < s + Burst /\ granted[i] <= granted[s] + Interval
          BY <1>1, <1>2, <5>1 DEF Windows
        <5> QED BY <1>5, <2>2, <2>3, <5>1, <5>2
      <4> QED BY <4>1, <4>2
    <3>2. \A s, t \in more : s < t => r[t] > r[s] + Interval
      <4> SUFFICES ASSUME NEW s \in more, NEW t \in more, s < t PROVE r[t] > r[s] + Interval
        OBVIOUS
      <4>1. s \in starts
        BY <1>3, <2>2, <2>3
      <4>2. CASE t = n + 1
        BY <1>5, <2>4, <4>1, <4>2
      <4>3. CASE t \in starts
        BY <1>1, <1>5, <2>3, <4>1, <4>3 DEF Windows
      <4> QED BY <2>2, <4>2, <4>3
    <3> QED BY <1>4, <1>5, <2>3, <3>1, <3>2 DEF Windows
  <2>6. Current(more)'
    <3>1. num' \in 1..Burst /\ num' <= n + 1 /\ (n + 1) - num' + 1 = n + 1
      BY <1>3, <2>1
    <3>2. \A s \in more : s <= n + 1
      BY <1>3, <2>3
    <3> QED BY <1>4, <1>5, <2>1, <2>2, <3>1, <3>2 DEF Current
  <2>7. RateType'
    BY <1>3, <1>4, <1>5, <1>6, <2>1 DEF RateType
  <2> QED BY <2>5, <2>6, <2>7 DEF RateInv
<1>8. CASE ~Ratelimit!Expired
  <2>1. begin' = begin /\ num' = num + 1 /\ num < Burst
    BY <1>3, <1>8 DEF Ratelimit!shl_ratelimit_test, Ratelimit!Counted, Ratelimit!Refused
  <2>2. granted # << >> /\ now <= begin + Interval
    BY <1>1, <1>3, <1>8 DEF Current, Ratelimit!Expired
  <2>3. PICK b \in starts : /\ b = n - num + 1 /\ begin = granted[b] /\ num \in 1..Burst
                            /\ num <= n /\ \A s \in starts : s <= b
    BY <1>1, <1>2, <2>2 DEF Current
  <2>4. starts \subseteq 1..n /\ \A s \in starts : r[s] = granted[s]
    BY <1>1, <1>2, <1>5 DEF Windows
  <2>5. Windows(starts)'
    <3>1. \A i \in 1..(n + 1) : \E s \in starts :
              s <= i /\ i < s + Burst /\ r[i] <= r[s] + Interval
      <4> SUFFICES ASSUME NEW i \in 1..(n + 1)
                   PROVE  \E s \in starts : s <= i /\ i < s + Burst /\ r[i] <= r[s] + Interval
        OBVIOUS
      <4>1. CASE i = n + 1
        <5>1. b <= i /\ i < b + Burst
          BY <1>3, <2>1, <2>3, <4>1
        <5>2. r[i] <= r[b] + Interval
          BY <1>5, <2>2, <2>3, <2>4, <4>1
        <5> QED BY <5>1, <5>2
      <4>2. CASE i # n + 1
        <5>1. i \in 1..n
          BY <1>3, <4>2
        <5>2. PICK s \in starts : s <= i /\ i < s + Burst /\ granted[i] <= granted[s] + Interval
          BY <1>1, <1>2, <5>1 DEF Windows
        <5> QED BY <1>5, <2>4, <5>1, <5>2
      <4> QED BY <4>1, <4>2
    <3>2. \A s, t \in starts : s < t => r[t] > r[s] + Interval
      BY <1>1, <2>4 DEF Windows
    <3>3. starts \subseteq 1..(n + 1)
      BY <1>3, <2>4
    <3> QED BY <1>4, <1>5, <3>1, <3>2, <3>3 DEF Windows
  <2>6. Current(starts)'
    <3>1. num' \in 1..Burst /\ num' <= n + 1 /\ (n + 1) - num' + 1 = b
      BY <1>3, <2>1, <2>3
    <3> QED BY <1>4, <1>5, <2>1, <2>3, <2>4, <3>1 DEF Current
  <2>7. RateType'
    BY <1>3, <1>4, <1>5, <1>6, <2>1 DEF RateType
  <2> QED BY <2>5, <2>6, <2>7 DEF RateInv
<1> QED BY <1>7, <1>8

\* 2 * Burst + 1 calls in a row are of three windows, so that a whole window
\* lies between the first and the last of them.
LEMMA RateInvSuffices == RateInv => RateLimited
<1> SUFFICES ASSUME RateInv PROVE RateLimited
  OBVIOUS
<1>1. PICK starts : Windows(starts) /\ Current(starts)
  BY DEF RateInv
<1>2. /\ granted \in Seq(Nat) /\ Burst \in Nat \ {0} /\ Interval \in Nat \ {0}
      /\ now \in Nat /\ begin \in Nat /\ num \in Nat
  BY HelpersAssumption DEF RateInv, RateType
<1>3. PICK n \in Nat : n = Len(granted)
  BY <1>2
<1>4. starts \subseteq 1..n /\ \A i \in 1..n : granted[i] \in Nat
  <2>1. starts \subseteq 1..n
    BY <1>1, <1>3 DEF Windows
  <2>2. \A i \in 1..n : granted[i] \in Nat
    BY ONLY <1>2, <1>3, ElementOfSeq
  <2> QED BY <2>1, <2>2
<1>5. ASSUME NEW i \in 1..n, NEW j \in 1..n, j - i >= 2 * Burst
      PROVE  granted[j] - granted[i] > Interval
  <2>1. i + Burst \in 1..n
    BY <1>2, <1>3, <1>5
  <2>2. PICK s \in starts : s <= i /\ i < s + Burst /\ granted[i] <= granted[s] + Interval
    BY <1>1, <1>3 DEF Windows
  <2>3. PICK t \in starts : t <= i + Burst /\ i + Burst < t + Burst
    BY <1>1, <1>3, <2>1 DEF Windows
  <2>4. PICK u \in starts : u <= j /\ j < u + Burst
    BY <1>1, <1>3 DEF Windows
  <2>5. s < t /\ t < u
    BY <1>2, <1>3, <1>4, <1>5, <2>2, <2>3, <2>4
  <2>6. granted[t] > granted[s] + Interval /\ granted[u] > granted[t] + Interval
    BY <1>1, <2>5 DEF Windows
  <2>7. granted[u] <= granted[j]
    BY <1>3, <1>4, <2>4 DEF RateInv, RateType
  <2>8. /\ granted[i] \in Nat /\ granted[j] \in Nat /\ granted[s] \in Nat /\ granted[t] \in Nat
        /\ granted[u] \in Nat
    BY <1>4
  <2>9. \A a, b, c, d, e, l \in Nat :
            a <= b + l /\ c > b + l /\ d > c + l /\ d <= e => e - a > l
    OBVIOUS
  <2> QED BY ONLY <1>2, <2>2, <2>6, <2>7, <2>8, <2>9
<1>6. ASSUME Ratelimit!Refused
      PROVE  n >= Burst /\ granted[n - Burst + 1] >= now - Interval
  <2>1. ~Ratelimit!Expired /\ num >= Burst
    BY <1>2, <1>6 DEF Ratelimit!Refused, Ratelimit!Counted
  <2>2. begin # 0 /\ now <= begin + Interval
    BY <1>2, <2>1 DEF Ratelimit!Expired
  <2>3. num \in 1..Burst /\ num <= n /\ begin = granted[n - num + 1]
    BY <1>1, <1>3, <2>2 DEF Current
  <2>4. num = Burst
    BY <1>2, <2>1, <2>3
  <2> QED BY <1>2, <2>2, <2>3, <2>4
<1> QED BY <1>3, <1>5, <1>6 DEF RateLimited, Ratelimit!RateLimited

\* For all intervals and bursts and however long the clock runs:
\* shl_ratelimit_test() returns true at most two bursts of times in an
\* interval, and returns false only after a burst within the last interval.
THEOREM RateIsLimited == Spec => []RateLimited
<1>1. Init => RateInv
  <2> SUFFICES ASSUME Init PROVE RateInv
    OBVIOUS
  <2>1. now = 1 /\ begin = 0 /\ num = 0 /\ granted = << >> /\ Len(granted) = 0
    BY DEF Init, Ratelimit!Init
  <2>2. RateType
    BY <2>1 DEF RateType
  <2>3. Windows({}) /\ Current({})
    BY <2>1 DEF Windows, Current
  <2> QED BY <2>2, <2>3 DEF RateInv
<1>2. RateInv /\ [Next]_vars => RateInv'
  <2> SUFFICES ASSUME RateInv, [Next]_vars PROVE RateInv'
    OBVIOUS
  <2>1. CASE UNCHANGED rateVars
    BY <2>1 DEF rateVars, RateInv, RateType, Windows, Current
  <2>2. CASE Ratelimit!Tick
    <3>1. now' = now + 1 /\ UNCHANGED <<begin, num, granted>>
      BY <2>2 DEF Ratelimit!Tick
    <3>2. RateType'
      BY <3>1 DEF RateInv, RateType
    <3>3. \A starts : Windows(starts)' = Windows(starts) /\ Current(starts)' = Current(starts)
      BY <3>1 DEF Windows, Current
    <3> QED BY <3>2, <3>3 DEF RateInv
  <2>3. CASE Ratelimit!shl_ratelimit_test
    BY <2>3, RatelimitStep
  <2>4. CASE Ratelimit!SHL_RATELIMIT_RESET
    <3>1. begin' = 0 /\ num' = 0 /\ granted' = << >> /\ now' = now /\ Len(granted') = 0
      BY <2>4 DEF Ratelimit!SHL_RATELIMIT_RESET
    <3>2. RateType'
      BY <3>1 DEF RateInv, RateType
    <3>3. (Windows({}) /\ Current({}))'
      BY <3>1 DEF Windows, Current
    <3> QED BY <3>2, <3>3 DEF RateInv
  <2> QED BY <2>1, <2>2, <2>3, <2>4 DEF Next, RunDlist, RunNumbers, RunStrings, RunBuf,
             RunRatelimit, RunDirectories, Ratelimit!Next, vars
<1> QED BY <1>1, <1>2, RateInvSuffices, PTL DEF Spec
=============================================================================
