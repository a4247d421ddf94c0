---------------------------- MODULE MCBruteForce ----------------------------
EXTENDS BruteForce, TLC

MCSymmetry == Permutations(Callers)
=============================================================================
