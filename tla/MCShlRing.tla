---------------------------- MODULE MCShlRing ----------------------------
(***************************************************************************)
(* Small instances of ShlRing for TLC.                                     *)
(***************************************************************************)
EXTENDS ShlRing
=============================================================================
