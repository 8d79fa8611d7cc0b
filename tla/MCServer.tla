------------------------------ MODULE MCServer ------------------------------
(***************************************************************************)
(* Instances of PolicyServer: two runs on one port, one after the other,   *)
(* each of two episodes of up to two actions, with up to three crashes,    *)
(* kills, errors or exceptions besides the time limits, which may pass     *)
(* wherever there is one.                                                  *)
(***************************************************************************)
EXTENDS PolicyServer
=============================================================================
