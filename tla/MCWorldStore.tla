--------------------------- MODULE MCWorldStore ---------------------------
EXTENDS WorldStore
CONSTANTS p1, p2, w1, w2
PeerSymmetry == Permutations({p1, p2})
=============================================================================
