\* Activity between the culler's scan and its DELETE: an active server is culled.
CONSTANTS
    u1 = u1
    u2 = u2
    a = a
    b = b
    c = c
    d = d
    n1 = n1
    n2 = n2
    Default = Default
    NoPod = NoPod
    Unbound = Unbound
    Users <- OneUser
    Named <- OneName
    Nodes <- TwoNodes
    NodeMem = 2
    NodesMayFail = FALSE
    NfsMayFail = FALSE
SPECIFICATION Spec
PROPERTY CullsOnlyIdle
