----------------------------- MODULE MCRealtime -----------------------------
EXTENDS Realtime
(***************************************************************************)
(* Small instances of Realtime for TLC.                                    *)
(***************************************************************************)
CONSTANTS s1, s2, o1, o2, a1, a2
=============================================================================
