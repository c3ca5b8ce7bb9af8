----------------------------- MODULE RegistryStore -----------------------------
(***************************************************************************)
(* A registry of the web application: a list of entries, with a default,   *)
(* in a ConfigMap that is read through a cache and written back whole.     *)
(* Sizing tiers and cluster baselines are edited in a new list, whose      *)
(* entries may be those of the old one; versions are edited in place, and  *)
(* imported, with whatever ids and defaults the manifest has.  Where there *)
(* is no ConfigMap, as far as a read can tell, the list the program ships  *)
(* with is written.                                                        *)
(*                                                                         *)
(* An entry is an object: lists that share it see its isDefault change.    *)
(* Objects are told apart by who made them, and where in a list.  Requests *)
(* interleave at their awaits, which are the calls to the Kubernetes API.  *)
(***************************************************************************)
EXTENDS Integers, Sequences, FiniteSets, Functions, Lists

CONSTANTS
    Requests,   \* API requests, each made once
    Ids,        \* tiers, baselines or versions
    Shipped,    \* the ids of DEFAULT_SIZING_TIERS, the first is the default
    Imports,    \* the lists that version manifests bring, some entries without an id
    None,       \* no ConfigMap, no id
    MaxRough,   \* bound: requests in a behaviour that is not calm
    MaxFaults   \* bound: refused and failed calls, restarts of the process

ASSUME ListAssumption ==
    /\ Shipped \in Seq(Ids) \ {<<>>} /\ IsInjective(Shipped)
    /\ \A list \in Imports : list \in Seq([id : Ids \cup {None}, isDefault : BOOLEAN])
ASSUME NoneAssumption ==
    /\ None \notin Ids /\ None \notin Seq([id : Ids, isDefault : BOOLEAN])
ASSUME BoundAssumption == MaxRough \in Nat /\ MaxFaults \in Nat

Ask(kind, id, list) == [kind |-> kind, id |-> id, list |-> list]
Operation ==
    {Ask(kind, id, <<>>) : kind \in {"save", "saveDefault", "choose", "remove"}, id \in Ids}
    \cup {Ask("read", None, <<>>)}
VersionOperation ==
    Operation \cup {Ask(kind, None, <<>>) : kind \in {"keep", "clear"}}
    \cup {Ask("import", None, list) : list \in Imports}

VARIABLES
    calm,     \* no overlapping requests and no faults in this behaviour
    inPlace,  \* versions, edited in place
    stored,   \* the ConfigMap: ids and which are defaults, or None
    shipped,  \* the list the program ships with, as it is in memory
    cache,    \* the cached list; isShipped: it is that very list
    req,      \* the requests
    faults

vars == <<calm, inPlace, stored, shipped, cache, req, faults>>

\* at: where in the list it was made with, 0 for a single entry.
Entry(id, isDefault, maker, at) ==
    [id |-> id, isDefault |-> isDefault, maker |-> maker, at |-> at]
Object(e) == <<e.maker, e.at>>
Objects(list) == {Object(list[k]) : k \in DOMAIN list}
HasDefault(list) == \E k \in DOMAIN list : list[k].isDefault
NoneTwice(list) == \A i, k \in DOMAIN list : list[i].id = list[k].id => i = k

\* JSON keeps what the objects say, not which they are.
Text(list) == [k \in DOMAIN list |-> [id |-> list[k].id, isDefault |-> list[k].isDefault]]
Made(text, maker) == [k \in DOMAIN text |-> Entry(text[k].id, text[k].isDefault, maker, k)]
Parsed(text, r) == Made(text, <<r, "read">>)

\* id becomes the default, if it is there, and the others do not stay it.
OnlyDefault(list, id) ==
    [k \in DOMAIN list |-> [id |-> list[k].id, isDefault |-> list[k].id = id]]

ShippedText == [k \in DOMAIN Shipped |-> [id |-> Shipped[k], isDefault |-> k = 1]]
ShippedList(versions) == IF versions THEN <<>> ELSE Made(ShippedText, <<"shipped">>)
NoCache == [list |-> <<>>, fresh |-> FALSE, isShipped |-> FALSE]

\* known: whether there was a ConfigMap when the request began.
Idle == [step |-> "idle", op |-> Ask("read", None, <<>>), known |-> FALSE, got |-> None,
         put |-> FALSE, restores |-> FALSE, list |-> <<>>, text |-> <<>>, thrown |-> FALSE]
Done == [Idle EXCEPT !.step = "done"]
Rough == {r \in Requests : req[r].step # "idle"}
Under == {r \in Requests : req[r].step \notin {"idle", "done"}}

Fault == ~calm /\ faults < MaxFaults /\ faults' = faults + 1
NoFault == UNCHANGED faults
Goes(r, q) == req' = [req EXCEPT ![r] = q]

-------------------------------------------------------------------------------
(* Edits: the new list, and the objects they turn off and on. *)

Edit(list, off, on) == [list |-> list, off |-> off, on |-> on]
Marked(list, e) ==
    [k \in DOMAIN list |->
        [list[k] EXCEPT !.isDefault =
            Object(list[k]) \in e.on \/ (@ /\ Object(list[k]) \notin e.off)]]

\* The first entry becomes a default: if need be, if there is one.
First(list) == IF list = <<>> THEN {} ELSE {Object(list[1])}
FirstIfNone(list) == IF HasDefault(list) THEN {} ELSE First(list)

New(r, op, isDefault) == Entry(op.id, isDefault, <<r, "new">>, 0)
Anew(list, default, r) == Made(OnlyDefault(list, default), <<r, "new">>)

\* Mutant: the others are not unset.
SaveTierKeepingOthers(base, r, op) ==
    LET list == Placed(base, New(r, op, op.kind = "saveDefault"))
    IN  Edit(list, {}, FirstIfNone(list))

SaveTier(base, r, op) ==
    LET list == Placed(base, New(r, op, FALSE))
    IN  IF op.kind = "saveDefault" THEN Edit(Anew(list, op.id, r), {}, {})
        ELSE Edit(list, {}, FirstIfNone(list))

SaveVersion(base, r, op) ==
    LET isDefault == op.kind = "saveDefault"
        list == Placed(base, New(r, op, isDefault))
    IN  Edit(list, IF isDefault THEN Objects(base) ELSE {}, FirstIfNone(list))

\* An id that no tier has leaves none the default.
ChooseTier(base, r, op) == Edit(Anew(base, op.id, r), {}, {})

ChooseVersion(base, op) ==
    LET chosen == {Object(base[k]) : k \in {k \in DOMAIN base : base[k].id = op.id}}
    IN  Edit(base, Objects(base) \ chosen, chosen)

\* Mutant: the default goes without a successor.
RemoveDefault(base, op) == Edit(WithoutFirst(base, op.id), {}, {})

\* Of versions, the first with the id goes; tiers are filtered, and have each id once.
Remove(base, op) ==
    LET rest == WithoutFirst(base, op.id)
        wasDefault == \E k \in DOMAIN base : IsFirst(base, k, op.id) /\ base[k].isDefault
    IN  Edit(rest, {}, IF wasDefault THEN First(rest) ELSE {})

Named(list) == Filtered(list, {e \in Range(list) : e.id # None})

\* Mutant: entries without a version are kept.
ImportNameless(r, op) ==
    LET list == Made(op.list, <<r, "new">>)
    IN  Edit(list, {}, FirstIfNone(list))

ImportVersions(r, op) ==
    LET list == Made(Named(op.list), <<r, "new">>)
    IN  Edit(list, {}, FirstIfNone(list))

\* The manifest has no such list: the current one is written again.
KeepVersions(base) == Edit(base, {}, FirstIfNone(base))

Edited(base, r, op) ==
    CASE op.kind \in {"save", "saveDefault"} ->
            IF inPlace THEN SaveVersion(base, r, op) ELSE SaveTier(base, r, op)
      [] op.kind = "choose" -> IF inPlace THEN ChooseVersion(base, op) ELSE ChooseTier(base, r, op)
      [] op.kind = "remove" -> Remove(base, op)
      [] op.kind = "import" -> ImportVersions(r, op)
      [] op.kind = "keep" -> KeepVersions(base)

\* Mutant: any tier may go.
RefusedIfMissing(base, op) ==
    op.kind \in {"choose", "remove"} /\ (inPlace \/ op.kind = "remove") /\ op.id \notin IdsOf(base)

\* The last tier stays, and what is not there is not removed.
Refused(base, op) ==
    \/ op.kind = "remove" /\ (op.id \notin IdsOf(base) \/ (~inPlace /\ Len(base) <= 1))
    \/ op.kind = "choose" /\ inPlace /\ op.id \notin IdsOf(base)

Saves(q, list, restores) ==
    [q EXCEPT !.step = "check", !.restores = restores, !.list = list, !.text = Text(list)]

\* The list of c is at hand, and edited up to the first call of the save.
WithList(r, q, c) ==
    \/ /\ q.op.kind = "read" \/ Refused(c.list, q.op)
       /\ Goes(r, Done)
       /\ cache' = c
       /\ UNCHANGED shipped
    \/ /\ q.op.kind # "read" /\ ~Refused(c.list, q.op)
       /\ LET e == Edited(c.list, r, q.op)
              new == Marked(e.list, e)
              replaced == inPlace /\ q.op.kind \notin {"import", "keep"}
          IN  /\ cache' = [c EXCEPT !.list = IF replaced THEN new ELSE Marked(@, e)]
              /\ shipped' = IF replaced /\ c.isShipped THEN new ELSE Marked(shipped, e)
              /\ req' = [s \in Requests |->
                            IF s = r THEN Saves(q, new, FALSE)
                            ELSE [req[s] EXCEPT !.list = Marked(@, e)]]

-------------------------------------------------------------------------------
(* Requests *)

\* The cached list is used, or found to have outlived its time; a clearing needs none.
Begin(r, op) ==
    /\ req[r].step = "idle"
    /\ IF calm THEN Under = {} ELSE Cardinality(Rough) < MaxRough
    /\ calm /\ op.kind = "choose" =>
          op.id \in IF stored = None THEN IdsOf(ShippedList(inPlace)) ELSE IdsOf(stored)
    /\ LET q == [Idle EXCEPT !.op = op, !.known = (stored # None)]
       IN  \/ /\ op.kind # "clear" /\ cache.fresh
              /\ WithList(r, q, cache)
           \/ /\ op.kind # "clear"
              /\ Goes(r, [q EXCEPT !.step = "read"])
              /\ cache' = [cache EXCEPT !.fresh = FALSE]
              /\ UNCHANGED shipped
           \/ /\ op.kind = "clear"
              /\ Goes(r, Saves(q, <<>>, FALSE))
              /\ UNCHANGED <<cache, shipped>>
    /\ UNCHANGED <<calm, inPlace, stored, faults>>

\* An error status or an exception looks like a ConfigMap that does not exist.
ServeRead(r) ==
    /\ req[r].step = "read"
    /\ \/ Goes(r, [req[r] EXCEPT !.step = "answered", !.got = stored]) /\ NoFault
       \/ Goes(r, [req[r] EXCEPT !.step = "answered", !.got = None]) /\ Fault
    /\ UNCHANGED <<calm, inPlace, stored, shipped, cache>>

\* Mutant: a list of one counts as none.
InitializedIfMore(got) == got # None /\ (inPlace \/ Len(got) > 1)

\* An empty list of tiers counts as none.
Initialized(got) == got # None /\ (inPlace \/ Len(got) > 0)

Read(r) ==
    /\ req[r].step = "answered"
    /\ LET q == [req[r] EXCEPT !.got = None]
           got == req[r].got
       IN  \/ /\ Initialized(got)
              /\ WithList(r, q, [list |-> Parsed(got, r), fresh |-> TRUE, isShipped |-> FALSE])
           \/ /\ ~Initialized(got)
              /\ Goes(r, Saves(q, shipped, TRUE))
              /\ UNCHANGED <<cache, shipped>>
    /\ UNCHANGED <<calm, inPlace, stored, faults>>

\* PUT if the ConfigMap is found, else POST.
ServeCheck(r) ==
    /\ req[r].step = "check"
    /\ LET next(put, thrown) ==
               Goes(r, [req[r] EXCEPT !.step = IF thrown THEN "saved" ELSE "write",
                                      !.put = put, !.thrown = thrown])
       IN  \/ next(stored # None, FALSE) /\ NoFault
           \/ \E thrown \in BOOLEAN : next(FALSE, thrown) /\ Fault
    /\ UNCHANGED <<calm, inPlace, stored, shipped, cache>>

\* A POST is refused, with a status nobody looks at, if there is a ConfigMap.
Applied(q) == IF q.put = (stored # None) THEN q.text ELSE stored

ServeWrite(r) ==
    /\ req[r].step = "write"
    /\ \/ /\ stored' = Applied(req[r])
          /\ Goes(r, [req[r] EXCEPT !.step = "saved"])
          /\ NoFault
       \/ /\ stored' \in {stored, Applied(req[r])}
          /\ \E thrown \in BOOLEAN : Goes(r, [req[r] EXCEPT !.step = "saved", !.thrown = thrown])
          /\ Fault
    /\ UNCHANGED <<calm, inPlace, shipped, cache>>

\* After an exception the shipped list is used all the same, but the time of the read
\* is not noted.
Restored(r) ==
    /\ req[r].step = "saved" /\ req[r].restores
    /\ WithList(r, [req[r] EXCEPT !.thrown = FALSE],
                [list |-> shipped, fresh |-> req[r].thrown => cache.fresh, isShipped |-> TRUE])
    /\ UNCHANGED <<calm, inPlace, stored, faults>>

\* Mutant: the cache is left alone.
SavedUncached(r) ==
    /\ req[r].step = "saved" /\ ~req[r].restores
    /\ Goes(r, Done)
    /\ UNCHANGED <<calm, inPlace, stored, shipped, cache, faults>>

Saved(r) ==
    /\ req[r].step = "saved" /\ ~req[r].restores
    /\ cache' = IF req[r].thrown THEN cache
                ELSE [list |-> req[r].list, fresh |-> TRUE, isShipped |-> FALSE]
    /\ Goes(r, Done)
    /\ UNCHANGED <<calm, inPlace, stored, shipped, faults>>

Restart ==
    /\ Fault
    /\ shipped' = ShippedList(inPlace) /\ cache' = NoCache
    /\ req' = [r \in Requests |-> IF r \in Under THEN Done ELSE req[r]]
    /\ UNCHANGED <<calm, inPlace, stored>>

-------------------------------------------------------------------------------
\* A new installation, or one in use: a list that was imported, tiers each of which was
\* saved once.
Init ==
    /\ calm \in BOOLEAN /\ inPlace \in BOOLEAN
    /\ \/ stored = None
       \/ inPlace /\ stored = <<>>
       \/ inPlace /\ \E list \in Imports :
                        stored = Named(list) /\ (Named(list) = <<>> \/ HasDefault(Named(list)))
       \/ ~inPlace /\ \E list \in Imports :
                         /\ NoneTwice(Named(list))
                         /\ \E id \in IdsOf(Named(list)) : stored = OnlyDefault(Named(list), id)
    /\ shipped = ShippedList(inPlace)
    /\ cache = NoCache
    /\ req = [r \in Requests |-> Idle]
    /\ faults = 0

Next ==
    \/ \E r \in Requests :
          \/ \E op \in IF inPlace THEN VersionOperation ELSE Operation : Begin(r, op)
          \/ ServeRead(r) \/ Read(r)
          \/ ServeCheck(r) \/ ServeWrite(r)
          \/ Restored(r) \/ Saved(r)
    \/ Restart

Spec == Init /\ [][Next]_vars

-------------------------------------------------------------------------------
(* Properties *)

\* Type correctness; the cache that is the shipped list says what that list says.
TypeOK ==
    /\ calm \in BOOLEAN /\ inPlace \in BOOLEAN /\ faults \in 0..MaxFaults
    /\ stored = None \/ stored \in Seq([id : Ids, isDefault : BOOLEAN])
    /\ cache.isShipped => cache.list = shipped
    /\ \A r \in Requests :
          /\ req[r].step \in {"idle", "read", "answered", "check", "write", "saved", "done"}
          /\ req[r].step \in {"check", "write", "saved"} =>
                IdsOf(req[r].list) = IdsOf(req[r].text)
          /\ req[r].step \in {"idle", "done"} => req[r].list = <<>>

\* Whatever overlaps, fails or restarts, the last tier stays, although the check
\* (sizing-tiers.ts:171) looks at a cached list, and no tier is stored twice: without a
\* tier, clusters could not be sized, and the shipped list would come back.
NeverEmptied == stored # None /\ ~inPlace => stored # <<>> /\ NoneTwice(stored)

\* The shipped list is written "if uninitialized" (sizing-tiers.ts:19): unless a call
\* failed, a request never writes it over a list that was there when the request began.
InitializedOnce ==
    [][\A r \in Requests :
          req[r].step = "write" /\ req[r].restores /\ req[r].known /\ faults = 0 =>
              stored' = stored \/ req'[r] = req[r]]_vars

\* Between requests that neither overlap nor fail, the cache says what is stored.
CacheAgrees == calm /\ Under = {} /\ cache.fresh => Text(cache.list) = stored

\* Between such requests, what is stored has a default as long as it has an entry, and
\* tiers have just one.
OneDefault ==
    calm /\ stored \notin {None, <<>>} =>
        /\ HasDefault(stored)
        /\ ~inPlace => \A i, k \in DOMAIN stored :
                           stored[i].isDefault /\ stored[k].isDefault => i = k

\* Such requests implement the promise, although entries and lists are shared with
\* the cache and with the shipped list (a refinement mapping onto the stored list,
\* constant in the other behaviours).
Value == IF stored = None THEN Text(ShippedList(inPlace)) ELSE stored

Promise == INSTANCE ChosenDefault WITH
    list <- IF calm THEN Value ELSE <<>>,
    Imports <- {Named(list) : list \in Imports}

CalmKeepsPromise == Promise!Spec
=============================================================================
