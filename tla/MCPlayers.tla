----------------------------- MODULE MCPlayers -----------------------------
(***************************************************************************)
(* Players for TLC: two names, one of which may be a pattern of the other. *)
(***************************************************************************)
EXTENDS Players

\* Of the two players one, and a name with its UUID.
MCLookalikes == { {"axb", "?"} }

MCAlikePairs == { {}, {<<"a_b", "axb">>} }
=============================================================================
