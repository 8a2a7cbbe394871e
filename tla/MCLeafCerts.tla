---------------------------- MODULE MCLeafCerts ----------------------------
(***************************************************************************)
(* Hosts for LeafCerts: two whose names leaf_for maps to one file, as      *)
(* "a*b" and "a_b", and one with a file of its own.                        *)
(***************************************************************************)
EXTENDS LeafCerts, TLC

CONSTANTS x, y, z

MCFileOf == (x :> "f") @@ (y :> "f") @@ (z :> "g")
HandlerSymmetry == Permutations(Handlers)
=============================================================================
