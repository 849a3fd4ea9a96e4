--------------------------- MODULE MCProvisioning ---------------------------
(***************************************************************************)
(* Model-checking instance of Provisioning: an account, an administrator,  *)
(* and three creations, enough for one to be registered, one under way and *)
(* one being placed.                                                       *)
(***************************************************************************)
EXTENDS Provisioning, TLC

CONSTANTS u1, admin, unset, n1, n2

MCAccounts == {u1}
MCNames == {n1, n2}
MCPorts == 1 .. 2
MCChosenPorts == {1}

\* Nothing tells one name from another.
MCSymmetry == Permutations(MCNames)
=============================================================================
