---------------------------- MODULE MCLlmAccess ----------------------------
EXTENDS LlmAccess, TLC
Interchangeable == Permutations(Task) \cup Permutations(Key)
=============================================================================
