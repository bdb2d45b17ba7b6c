-------------------------- MODULE MCConnectionPool --------------------------
EXTENDS ConnectionPool, TLC

PoolSymmetry == Permutations(Workers) \union Permutations(Sessions)
=============================================================================
