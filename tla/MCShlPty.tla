------------------------------ MODULE MCShlPty ------------------------------
(***************************************************************************)
(* Small instances of ShlPty for TLC.                                      *)
(***************************************************************************)
EXTENDS ShlPty, TLC

CONSTANT Busy    \* the pty whose child writes more than one dispatch reads

BusyIn  == [p \in Pty |-> IF p = Busy THEN 3 ELSE 0]
BusyOut == [p \in Pty |-> IF p = Busy THEN 2 ELSE 0]
BusyRef == [p \in Pty |-> IF p = Busy THEN 2 ELSE 1]
=============================================================================
