--------------------------- MODULE MCOrchestrator ---------------------------
(***************************************************************************)
(* The pipeline on two CVEs.                                               *)
(***************************************************************************)
EXTENDS Workflow, TLC

CONSTANTS c1, c2

MCCve == {c1, c2}
Symmetry == Permutations(MCCve)

AllSteps == {"read", "accept"} \cup Steps
=============================================================================
