----------------------------- MODULE ChosenDefault -----------------------------
(***************************************************************************)
(* What a registry of the web application promises the administrators who  *)
(* edit it: a list of entries that has a default as long as there is any   *)
(* entry.  It has one default, unless an imported list brings several or   *)
(* repeats the id that is chosen.                                          *)
(***************************************************************************)
EXTENDS Naturals, Sequences, Lists

CONSTANTS
    Ids,
    Imports  \* the lists that may be imported

VARIABLE list  \* the entries, in order, each with its id and whether it is a default

Plain(id, isDefault) == [id |-> id, isDefault |-> isDefault]
HasDefault(l) == \E k \in DOMAIN l : l[k].isDefault

\* The first entry becomes a default, if need be.
Promoted(l) == [k \in DOMAIN l |-> Plain(l[k].id, l[k].isDefault \/ k = 1)]
Led(l) == IF HasDefault(l) THEN l ELSE Promoted(l)
Unset(l) == [k \in DOMAIN l |-> Plain(l[k].id, FALSE)]

Init == list \in Seq([id : Ids, isDefault : BOOLEAN]) /\ Led(list) = list

Save(id) == list' = Led(Placed(list, Plain(id, FALSE)))

SaveAsDefault(id) == list' = Placed(Unset(list), Plain(id, TRUE))

Choose(id) ==
    /\ id \in IdsOf(list)
    /\ list' = [k \in DOMAIN list |-> Plain(list[k].id, list[k].id = id)]

\* The first takes over from a default that goes.
Remove(id) ==
    /\ id \in IdsOf(list)
    /\ LET wasDefault == \E k \in DOMAIN list : IsFirst(list, k, id) /\ list[k].isDefault
       IN  list' = IF wasDefault THEN Promoted(WithoutFirst(list, id)) ELSE WithoutFirst(list, id)

Import(l) == list' = Led(l)

Clear == list' = <<>>

Next ==
    \/ \E id \in Ids : Save(id) \/ SaveAsDefault(id) \/ Choose(id) \/ Remove(id)
    \/ \E l \in Imports : Import(l)
    \/ Clear

Spec == Init /\ [][Next]_list
=============================================================================
