------------------------------- MODULE MCZset -------------------------------
EXTENDS Zset, TLC
Symmetric == Permutations(Key)
=============================================================================
