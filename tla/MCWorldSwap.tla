---------------------------- MODULE MCWorldSwap ----------------------------
EXTENDS WorldSwap
CONSTANTS p1, p2, w1, w2
PeerSymmetry == Permutations({p1, p2})
=============================================================================
