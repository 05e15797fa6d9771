------------------------- MODULE MCJobDependencies -------------------------
(* Model-checking instance of JobDependencies: model values for the nodes *)
(* and sentinels, given in the .cfg files.                                *)
EXTENDS JobDependencies

CONSTANTS n1, n2

OneNode == {n1}
TwoNodes == {n1, n2}
AllInterrupts == {"FAILED", "CANCELLED", "TIMEOUT"}
NoInterrupts == {}

=============================================================================
