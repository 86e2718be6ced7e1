---------------------------- MODULE MCPtyRing ----------------------------
(***************************************************************************)
(* Small instances of PtyRing for TLC.                                     *)
(***************************************************************************)
EXTENDS PtyRing
=============================================================================
