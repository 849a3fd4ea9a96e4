----------------------------- MODULE MCNotices -----------------------------
(***************************************************************************)
(* Model-checking instance of Notices: a policy of each mode, delays below *)
(* and above the cap, constant and doubling.                               *)
(***************************************************************************)
EXTENDS Notices

MCPolicies ==
    { [mode |-> ON_CRASH, max |-> 3, delay |-> 10, factor |-> 2, cap |-> 15],
      [mode |-> ON_CRASH, max |-> 1, delay |-> 40, factor |-> 2, cap |-> 30],
      [mode |-> ALWAYS, max |-> 2, delay |-> 10, factor |-> 1, cap |-> 30],
      [mode |-> NEVER, max |-> 2, delay |-> 10, factor |-> 2, cap |-> 30] }
=============================================================================
