---------------------------- MODULE MCClusterEdits ----------------------------
EXTENDS ClusterEdits, TLC

CONSTANTS r1, r2

MCRequests == {r1, r2}
MCChoices == {{}, Optional}
RequestSymmetry == Permutations(MCRequests)
=============================================================================
