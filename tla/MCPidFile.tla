----------------------------- MODULE MCPidFile -----------------------------
EXTENDS PidFile, TLC

CONSTANTS i1, i2, i3, p1, p2, p3, p4

TwoInstances == {i1, i2}
ThreeInstances == {i1, i2, i3}
ThreePids == {p1, p2, p3}
FourPids == {p1, p2, p3, p4}

Symmetry == Permutations(ThreeInstances) \cup Permutations(FourPids)
=============================================================================
