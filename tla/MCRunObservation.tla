-------------------------- MODULE MCRunObservation --------------------------
(***************************************************************************)
(* RunObservation on small instances for TLC.                              *)
(***************************************************************************)
EXTENDS RunObservation, TLC

ConnSymmetry == Permutations(Conns)

(* The hooks of three packages, the first and the last of one name. *)
KeysOfCopies == <<1, 2, 1>>

KeysOfOne == <<1>>
NoKeys == <<>>
=============================================================================
