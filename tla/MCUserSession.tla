--------------------------- MODULE MCUserSession ---------------------------
EXTENDS UserSession
(***************************************************************************)
(* Small instances of UserSession for TLC.                                 *)
(***************************************************************************)
CONSTANTS b1, k1, k2
=============================================================================
