----------------------------- MODULE MCAccounts -----------------------------
(***************************************************************************)
(* Model-checking instance of Accounts: an administrator, another account  *)
(* that owns the server, and room for a third one.  Two of the names       *)
(* differ only by their case.                                              *)
(***************************************************************************)
EXTENDS Accounts, TLC

MCFold(name) == IF name = "Ana" THEN "ana" ELSE name 
MCFirst == <<"ana", "bob">>
Symmetry == Permutations(Users) \cup Permutations(Slots)
=============================================================================
