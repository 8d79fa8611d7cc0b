------------------------------ MODULE MCRunner ------------------------------
(***************************************************************************)
(* Instances of ExperimentRunner.  Two faults in a horizon of three steps  *)
(* can share a step or a phase, overlap in their windows, come too late to *)
(* be matched or never come due; a chunk of two actions is completed, and  *)
(* interrupted, within the horizon.                                        *)
(***************************************************************************)
EXTENDS ExperimentRunner

TwoFaults == {1, 2}
OneFault == {1}
QuietOrAlarm == {"quiet", "alarm"}
=============================================================================
