---------------------------- MODULE MCWireFrames ----------------------------
(***************************************************************************)
(* WireFrames for TLC: the sizes are scaled down and keep their order,     *)
(* header < default buffer < MTU < the longest message of a driver.        *)
(***************************************************************************)
EXTENDS WireFrames

=============================================================================
