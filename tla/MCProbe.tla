------------------------------ MODULE MCProbe ------------------------------
(* Four probe steps as in the code, a chunk of four actions and a horizon  *)
(* of six: the trigger can come at every place of a chunk, long before,    *)
(* just before and at the horizon, and the episode can end inside the      *)
(* probe, at its last step and after it.                                   *)
EXTENDS DiagnosticProbe

TwoLatencies == {1, 2}
=============================================================================
