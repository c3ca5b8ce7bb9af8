--------------------------------- MODULE Lists ---------------------------------
(***************************************************************************)
(* Filters of lists: Array.prototype.filter of the web application, grep   *)
(* in the scripts.  They are recursive functions, so that theorems can be  *)
(* proved about them, which the provers cannot about SelectSeq.            *)
(*                                                                         *)
(* And lists of entries with an id and an isDefault, where an id may come  *)
(* more than once: what findIndex finds is the first entry of an id.       *)
(***************************************************************************)
EXTENDS Naturals, Sequences

\* The elements of s that are in kept, in their order.
Filtered(s, kept) ==
    LET upTo[k \in 0..Len(s)] ==
            IF k = 0 THEN <<>>
            ELSE IF s[k] \in kept THEN Append(upTo[k - 1], s[k]) ELSE upTo[k - 1]
    IN  upTo[Len(s)]

IdsOf(list) == {list[k].id : k \in DOMAIN list}
IsFirst(list, k, id) == list[k].id = id /\ \A i \in 1..(k - 1) : list[i].id # id

\* The entry takes the place of the first one of its id, or comes to the end.
Placed(list, entry) ==
    IF entry.id \in IdsOf(list)
    THEN [k \in DOMAIN list |-> IF IsFirst(list, k, entry.id) THEN entry ELSE list[k]]
    ELSE Append(list, entry)

\* The first entry of the id goes, and those after it move up.
WithoutFirst(list, id) ==
    [k \in 1..(Len(list) - 1) |->
        IF \E i \in 1..k : list[i].id = id THEN list[k + 1] ELSE list[k]]
=============================================================================
