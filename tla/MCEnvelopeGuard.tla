--------------------------- MODULE MCEnvelopeGuard ---------------------------
EXTENDS EnvelopeGuard, TLC
(***************************************************************************)
(* Small instances of EnvelopeGuard for TLC.                               *)
(***************************************************************************)
CONSTANTS e1, e2, c1, c2, c3

\* Deliveries are interchangeable.
Symmetry == Permutations({c1, c2, c3})
=============================================================================
