-------------------------- MODULE MCServerRuntime --------------------------
(***************************************************************************)
(* Model-checking instance of ServerRuntime: two clients are enough for    *)
(* one to hold the lock, one to wait behind it and the automatic restart   *)
(* to come in between.                                                     *)
(***************************************************************************)
EXTENDS ServerRuntime

CONSTANTS c1, c2, auto, nobody

MCClients == {c1, c2}
=============================================================================
