---------------------------- MODULE MCRegistryStore ----------------------------
EXTENDS RegistryStore, TLC

CONSTANTS r1, r2, r3, a, b, c

Brought(id, isDefault) == [id |-> id, isDefault |-> isDefault]

MCRequests == {r1, r2, r3}
MCIds == {a, b, c}
MCShipped == <<a, b>>
MCImports ==
    {<<Brought(b, FALSE), Brought(None, TRUE), Brought(a, FALSE)>>,
     <<Brought(None, TRUE)>>,
     <<Brought(c, TRUE)>>,
     <<Brought(a, FALSE), Brought(b, TRUE), Brought(a, TRUE)>>}
RequestSymmetry == Permutations(MCRequests)
=============================================================================
