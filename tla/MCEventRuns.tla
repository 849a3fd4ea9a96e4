---------------------------- MODULE MCEventRuns ----------------------------
(***************************************************************************)
(* EventRuns for TLC: a harmless sequence, a title and a pause, and one    *)
(* that ends with a dangerous action, which the first may be edited into.  *)
(***************************************************************************)
EXTENDS EventRuns

MCSequences == { <<"title", "delay">>, <<"title", "kill">> }
=============================================================================
