------------------------- MODULE MCJupyterHubServers -------------------------
(* Small instances of JupyterHubServers for TLC. *)
EXTENDS JupyterHubServers, TLC

CONSTANTS u1, u2, a, b, c, d, n1, n2

TwoUsers == {u1, u2}
OneUser == {u1}
OneName == {a}
TwoNames == {a, b}
FourNames == {a, b, c, d}
TwoNodes == {n1, n2}

\* Named servers are interchangeable, and so are the nodes: the settings
\* treat every name and every node alike.
Symmetry == Permutations(FourNames) \cup Permutations(TwoNodes)
=============================================================================
