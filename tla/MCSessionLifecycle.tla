------------------------- MODULE MCSessionLifecycle -------------------------
EXTENDS SessionLifecycle, TLC

Symmetry == Permutations(Workers)
=============================================================================
