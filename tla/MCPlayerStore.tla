--------------------------- MODULE MCPlayerStore ---------------------------
EXTENDS PlayerStore, TLC
CONSTANTS p1, p2, a1, a2
PeerSymmetry == Permutations({p1, p2})
=============================================================================
