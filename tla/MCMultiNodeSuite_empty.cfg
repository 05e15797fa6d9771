\* sinfo may list no node at all: node discovery then passes with no ping.
\* (The second half of PeersReached, the network check's self-ssh, is
\* shown on its own by MCMultiNodeSuite_selfssh.cfg.)
CONSTANTS
    n1 = n1
    n2 = n2
    Nodes <- TwoNodes
    Host = n1

SPECIFICATION Spec

CHECK_DEADLOCK FALSE

INVARIANT PeersReached
