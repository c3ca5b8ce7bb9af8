--------------------------- MODULE VersionedCatalog ---------------------------
(***************************************************************************)
(* What the application catalog promises the people who edit it: a saved   *)
(* item is the current one, each save is recorded as the next revision of  *)
(* its item, and what is recorded is never rewritten, only marked as       *)
(* working and, past a limit, dropped from the far end.                    *)
(***************************************************************************)
EXTENDS Naturals, Sequences

CONSTANTS Items, Bodies, Absent, MaxRevisions

VARIABLES
    current,    \* the body each item has, or Absent
    log,        \* the revisions of each item, newest first
    unrecorded  \* the items saved whose revision is still to come

vars == <<current, log, unrecorded>>

Init ==
    /\ current \in [Items -> Bodies \cup {Absent}]
    /\ DOMAIN log = Items
    /\ \A i \in Items :
          /\ log[i] \in Seq([num : Nat, body : Bodies, working : BOOLEAN])
          /\ Len(log[i]) <= MaxRevisions
    /\ unrecorded = {}

Save(i, body) ==
    /\ unrecorded = {}
    /\ current' = [current EXCEPT ![i] = body]
    /\ unrecorded' = {i}
    /\ UNCHANGED log

\* An import replaces every item by the one it brings.
Import(i, body) ==
    /\ unrecorded = {}
    /\ current' = [[j \in Items |-> Absent] EXCEPT ![i] = body]
    /\ unrecorded' = {i}
    /\ UNCHANGED log

Record(i) ==
    /\ i \in unrecorded
    /\ unrecorded' = {}
    /\ \E working \in BOOLEAN :
          LET next == [num |-> IF log[i] = <<>> THEN 1 ELSE Head(log[i]).num + 1,
                       body |-> current[i], working |-> working]
              all == <<next>> \o log[i]
          IN  log' = [log EXCEPT ![i] =
                        SubSeq(all, 1, IF Len(all) > MaxRevisions THEN MaxRevisions ELSE Len(all))]
    /\ UNCHANGED current

\* Removing an item may change the groups it belongs to, and leaves the log alone.
Remove(i) ==
    /\ unrecorded = {}
    /\ current' \in [Items -> Bodies \cup {Absent}]
    /\ current'[i] = Absent
    /\ \A j \in Items \ {i} : (current[j] = Absent) <=> (current'[j] = Absent)
    /\ UNCHANGED <<log, unrecorded>>

Clear ==
    /\ unrecorded = {}
    /\ current' = [i \in Items |-> Absent]
    /\ UNCHANGED <<log, unrecorded>>

Mark(i, k) ==
    /\ k \in DOMAIN log[i]
    /\ \E working \in BOOLEAN : log' = [log EXCEPT ![i][k].working = working]
    /\ UNCHANGED <<current, unrecorded>>

Next ==
    \/ \E i \in Items :
          \/ \E body \in Bodies : Save(i, body) \/ Import(i, body)
          \/ Record(i)
          \/ Remove(i)
          \/ \E k \in 1..MaxRevisions : Mark(i, k)
    \/ Clear

Spec == Init /\ [][Next]_vars
=============================================================================
