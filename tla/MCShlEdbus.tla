----------------------------- MODULE MCShlEdbus -----------------------------
(***************************************************************************)
(* Small instances of ShlEdbus for TLC.                                    *)
(***************************************************************************)
EXTENDS ShlEdbus
=============================================================================
