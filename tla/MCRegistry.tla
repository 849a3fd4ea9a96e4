----------------------------- MODULE MCRegistry -----------------------------
(***************************************************************************)
(* Model-checking instance of Registry: two servers, each in its folder.   *)
(***************************************************************************)
EXTENDS Registry, TLC

MCHome == [s \in Servers |-> IF s = "a" THEN "A" ELSE "B"]
Symmetry == Permutations(Slots)
=============================================================================
