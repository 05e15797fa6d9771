-------------------------- MODULE MCMultiNodeSuite --------------------------
EXTENDS MultiNodeSuite

CONSTANTS n1, n2

TwoNodes == {n1, n2}

=============================================================================
