--------------------------- MODULE MCShlPtyOpen ---------------------------
(***************************************************************************)
(* An instance of ShlPtyOpen for TLC: callers with all three standard files  *)
(* open, and callers with any of them closed.                              *)
(***************************************************************************)
EXTENDS ShlPtyOpen

AllStdOpen == {{0, 1, 2} \cup more : more \in SUBSET (3..6)}
AnyStdOpen == SUBSET {0, 1, 2}
AnyCaller  == AllStdOpen \cup AnyStdOpen
=============================================================================
