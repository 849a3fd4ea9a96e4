--------------------------- MODULE MCLauncherSync ---------------------------
(***************************************************************************)
(* Model-checking instance of LauncherSync: a jar of unknown side, and a   *)
(* file of a folder that is synchronised only when the settings extend to  *)
(* it.  The second manifest updates the one and drops the other, the third *)
(* is empty.                                                               *)
(***************************************************************************)
EXTENDS LauncherSync, TLC

CONSTANTS mod, conf

MCPaths == {mod, conf}
MCEntry(v, side) == [v |-> v, side |-> side]
MCManifests == {
    (mod :> MCEntry(1, "unknown") @@ conf :> MCEntry(1, "both")),
    (mod :> MCEntry(2, "unknown") @@ conf :> None),
    (mod :> None @@ conf :> None)}
MCRequests == {
    [wide |-> TRUE, enabled |-> TRUE, token |-> "keep", move |-> FALSE],
    [wide |-> FALSE, enabled |-> FALSE, token |-> "new", move |-> FALSE],
    [wide |-> FALSE, enabled |-> TRUE, token |-> "keep", move |-> TRUE]}
MCClientSide == {}
=============================================================================
