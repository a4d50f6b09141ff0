---------------------------- MODULE MCLlmModels ----------------------------
EXTENDS LlmModels, TLC

Interchangeable == Permutations(Task) \cup Permutations(Model)

\* At most three requests, failed commands and restarts altogether.
Few == calls + faults + crashes <= 3
=============================================================================
