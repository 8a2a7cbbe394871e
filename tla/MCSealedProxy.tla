--------------------------- MODULE MCSealedProxy ---------------------------
(***************************************************************************)
(* SealedProxy with a small set of connections for TLC.  Safety is checked *)
(* with the connections interchangeable; liveness without symmetry.        *)
(***************************************************************************)
EXTENDS SealedProxy, TLC

ConnSymmetry == Permutations(Conns)
=============================================================================
