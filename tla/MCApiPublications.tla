------------------------- MODULE MCApiPublications -------------------------
EXTENDS ApiPublications, TLC
=============================================================================
