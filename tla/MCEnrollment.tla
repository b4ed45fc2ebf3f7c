---------------------------- MODULE MCEnrollment ----------------------------
EXTENDS Enrollment
(***************************************************************************)
(* Small instances of Enrollment for TLC.                                  *)
(***************************************************************************)
CONSTANTS m1, m2, r1, r2, i1, i2, i3, i4
=============================================================================
