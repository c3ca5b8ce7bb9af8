---------------------------- MODULE MCCatalogStore ----------------------------
EXTENDS CatalogStore, TLC

CONSTANTS r1, r2, app, group, x, y

MCTexts == {<<x>>, <<x, y>>, <<y, x>>}
MCRequests == {r1, r2}
RequestSymmetry == Permutations(MCRequests)
MCMembers == {<<>>, <<app>>}
=============================================================================
