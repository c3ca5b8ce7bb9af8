------------------------- MODULE MCNamespaceTeardown -------------------------
EXTENDS NamespaceTeardown

CONSTANTS n1, n2, team, teamEu

\* team-eu is a sibling whose objects pass for team's.
MCClusters == {team, teamEu}
MCSweeps == [c \in MCClusters |-> IF c = team THEN {team, teamEu} ELSE {c}]
Virtual(n) == [home |-> n, targets |-> {}, admins |-> FALSE]
Governs(n, t, a) == [home |-> n, targets |-> t, admins |-> a]

MCPlans == [c \in MCClusters |->
    IF c = team THEN {Virtual(n1), Governs(n1, {n1, n2}, TRUE), Governs(n1, {n2}, FALSE)}
                ELSE {Virtual(n1), Virtual(n2), Governs(n2, {n2}, TRUE), Governs(n1, {n2}, TRUE)}]
=============================================================================
