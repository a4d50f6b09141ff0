-------------------------- MODULE MCApiCredentials --------------------------
EXTENDS ApiCredentials, TLC
Interchangeable == Permutations(Request) \cup Permutations(Owner)
=============================================================================
