------------------------- MODULE MCReleasePromotion -------------------------
EXTENDS ReleasePromotion, TLC

Commits == Permutations(Sources)
=============================================================================
