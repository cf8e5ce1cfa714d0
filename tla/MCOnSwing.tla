------------------------------ MODULE MCOnSwing ------------------------------
EXTENDS OnSwing, TLC

MCSymmetry == Permutations(Spells)
==============================================================================
