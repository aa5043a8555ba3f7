---------------------------- MODULE MCTpAllocation ----------------------------
(* Up to 5 targets and 31 steps; a step that rounds odd volumes and minima    *)
(* down; custom lists with a zero, a negative and too few or too many entries.*)
EXTENDS TpAllocation
MCVolumes == 1..31
MCMinima == 1..3
MCSteps == {1, 2}
MCCounts == 0..5
MCCustoms == {<<>>, <<1, 2, 3>>, <<50, 50>>, <<0, -1>>, <<0, 0, 7, 3, 1, 1>>}
=============================================================================
