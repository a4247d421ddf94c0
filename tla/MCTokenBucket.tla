---------------------------- MODULE MCTokenBucket ----------------------------
EXTENDS TokenBucket, TLC

MCSymmetry == Permutations(Callers)
=============================================================================
