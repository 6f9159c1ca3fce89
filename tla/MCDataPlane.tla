---------------------------- MODULE MCDataPlane ----------------------------
(***************************************************************************)
(* Instances of DataPlane for TLC.                                         *)
(***************************************************************************)
EXTENDS DataPlane

NoLinks == {}
=============================================================================
