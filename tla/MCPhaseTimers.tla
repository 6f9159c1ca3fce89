--------------------------- MODULE MCPhaseTimers ---------------------------
(***************************************************************************)
(* Instances of PhaseTimers for TLC.                                       *)
(***************************************************************************)
EXTENDS PhaseTimers

NoLinks  == {}
AllLinks == {l \in Links : l[1] # l[2]}
=============================================================================
