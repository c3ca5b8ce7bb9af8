----------------------------- MODULE CatalogStore -----------------------------
(***************************************************************************)
(* The application catalog and its version history in the web application: *)
(* two ConfigMaps without a common transaction, each read through a cache  *)
(* that hands out its object by reference, edited in place and written     *)
(* back whole.  Requests interleave at their awaits, which are the calls   *)
(* to the Kubernetes API.                                                  *)
(*                                                                         *)
(* An object is a cell of the heap.  The copy saveEntireCatalog caches has *)
(* the arrays of its original, hence the original's cell, until a deletion *)
(* gives the original new arrays, hence a new cell.                        *)
(***************************************************************************)
EXTENDS Integers, FiniteSets, Sequences, FiniteSetsExt, Functions, Lists

CONSTANTS
    Requests,      \* API requests, each made once
    Apps, Groups,  \* ids of catalog items
    Texts,         \* the manifests an application may have, as sequences of lines
    Members,       \* the sequences of applications a group may have
    Asked,         \* bound: the revision numbers requests name
    Absent,        \* no such item
    NoDoc,         \* no such ConfigMap
    MaxRevisions,  \* MAX_REVISIONS_PER_ITEM
    MaxCommits,    \* MAX_GLOBAL_COMMITS
    MaxFaults      \* bound: refused and failed calls, restarts of the process

ASSUME LimitAssumption == MaxRevisions \in Nat \ {0} /\ MaxCommits \in Nat \ {0}
ASSUME FaultAssumption == MaxFaults \in Nat
ASSUME ItemAssumption ==
    Apps \cap Groups = {} /\ Apps \cup Groups # {} /\ Absent \notin Texts \cup Members
Items == Apps \cup Groups
ASSUME BodyAssumption ==
    /\ \A s \in Texts : s \in Seq(Range(s))
    /\ Members \subseteq Seq(Apps)
    \* A group may lose any of its applications.
    /\ \A s \in Members, i \in Items : Filtered(s, Range(s) \ {i}) \in Members

\* An application is told apart by its manifest, a group by its members.
Body(i) == IF i \in Apps THEN Texts ELSE Members
Bodies == Texts \cup Members

First == "first"  \* the request that made the initial revision
ASSUME FirstAssumption == First \notin Requests
Rev == [num : Nat \ {0}, id : Requests \cup {First}, body : Bodies, working : BOOLEAN,
        added : Nat, removed : Nat]
Maps == {"catalog", "history"}
EmptyCatalog == [i \in Items |-> Absent]
EmptyHistory == [revs |-> [i \in Items |-> <<>>], commits |-> <<>>]
ASSUME NoDocAssumption ==
    /\ NoDoc \notin [Items -> Bodies \cup {Absent}]
    /\ NoDoc \notin [revs : [Items -> Seq(Rev)],
                    commits : Seq([item : Items, id : Requests \cup {First}])]

\* What a request asks for; clearing names no item, and gets any.
AnItem == CHOOSE i \in Items : TRUE
Ask(kind, i, body, num) == [kind |-> kind, item |-> i, body |-> body, num |-> num]
SaveApp == {Ask("save", i, body, 0) : i \in Apps, body \in Texts}
SaveGroup == {Ask("save", i, body, 0) : i \in Groups, body \in Members}
DeleteApp == {Ask("delete", i, Absent, 0) : i \in Apps}
DeleteGroup == {Ask("delete", i, Absent, 0) : i \in Groups}
AppHistory == {Ask(kind, i, Absent, n) : kind \in {"rollback", "toggle"}, i \in Apps, n \in Asked}
GroupHistory ==
    {Ask(kind, i, Absent, n) : kind \in {"rollback", "toggle"}, i \in Groups, n \in Asked}
Clear == {Ask("clear", AnItem, Absent, 0)}
\* An import brings one item; the route records one revision per item it brings.
Import == UNION {{Ask("import", i, body, 0) : body \in Body(i)} : i \in Items}
Operation == SaveApp \cup SaveGroup \cup DeleteApp \cup DeleteGroup \cup AppHistory
             \cup GroupHistory \cup Clear \cup Import

VARIABLES
    calm,    \* no overlapping requests and no faults in this behaviour
    stored,  \* the two ConfigMaps
    heap,    \* the objects of this process
    dflt,    \* the cell of DEFAULT_CATALOG
    catalogCache, \* memoryCatalogCache: its cell, 0 for null, whether it is
                  \* DEFAULT_CATALOG itself, and whether its five seconds last
    vcsCache, \* vcsCache, for four seconds
    req,     \* the requests
    faults

vars == <<calm, stored, heap, dflt, catalogCache, vcsCache, req, faults>>
memory == <<heap, dflt, catalogCache, vcsCache>>

\* A request waits for the answer of one call; todo says what is left to do with
\* the history once the catalog is saved.
Idle == [step |-> "idle", call |-> "none", map |-> "catalog", cell |-> 0,
         text |-> NoDoc, answer |-> "none", got |-> NoDoc,
         op |-> Ask("clear", AnItem, Absent, 0)]

-------------------------------------------------------------------------------
(* Line differences *)

\* computeTextDiff: the lines of both texts in order, each marked.
IndexFrom(s, x, k) ==
    LET hits == {n \in k..Len(s) : s[n] = x} IN IF hits = {} THEN 0 ELSE Min(hits)

Mark(kind, line) == [type |-> kind, line |-> line]

\* Mutant: a changed line takes the place of one line on either side.
TextDiffInPlace(old, new) ==
    [k \in 1..IF Len(old) > Len(new) THEN Len(old) ELSE Len(new) |->
        IF k > Len(old) THEN Mark("added", new[k])
        ELSE IF k <= Len(new) /\ old[k] = new[k] THEN Mark("unchanged", old[k])
             ELSE Mark("removed", old[k])]

\* Lines were added when the old line comes back soon enough in the new text.
Added(old, new, i, j) ==
    LET inNew == IndexFrom(new, old[i], j)
        inOld == IndexFrom(old, new[j], i)
    IN  inNew # 0 /\ (inOld = 0 \/ inNew - j < inOld - i)

Kind(old, new, i, j) ==
    IF i <= Len(old) /\ j <= Len(new)
    THEN IF old[i] = new[j] THEN "unchanged" ELSE IF Added(old, new, i, j) THEN "added" ELSE "removed"
    ELSE IF j <= Len(new) THEN "added" ELSE "removed"

MarkAt(old, new, i, j) ==
    LET kind == Kind(old, new, i, j) IN Mark(kind, IF kind = "added" THEN new[j] ELSE old[i])
After(kind, i, j) ==
    <<IF kind = "added" THEN i ELSE i + 1, IF kind = "removed" THEN j ELSE j + 1>>

TextDiff(old, new) ==
    LET diff[p \in (1..Len(old) + 1) \X (1..Len(new) + 1)] ==
            IF p[1] > Len(old) /\ p[2] > Len(new) THEN <<>>
            ELSE <<MarkAt(old, new, p[1], p[2])>> \o diff[After(Kind(old, new, p[1], p[2]), p[1], p[2])]
    IN  diff[<<1, 1>>]

Of(diff, kinds) == Filtered(diff, {d \in Range(diff) : d.type \in kinds})

\* What a revision records of its difference from the one before it.
TextChange(old, new) ==
    LET diff == TextDiff(old, new)
    IN  [added |-> Len(Of(diff, {"added"})), removed |-> Len(Of(diff, {"removed"}))]

MemberChange(old, new) ==
    LET others(s, t) == Filtered(s, Range(s) \ Range(t))
    IN  [added |-> Len(others(new, old)), removed |-> Len(others(old, new))]

Change(i, old, new) == IF i \in Apps THEN TextChange(old, new) ELSE MemberChange(old, new)

-------------------------------------------------------------------------------
(* Edits of the objects *)

\* Mutant: the newest is pruned.
UpDroppingNewest(s, n) == SubSeq(s, IF Len(s) > n THEN Len(s) - n + 1 ELSE 1, Len(s))

Up(s, n) == SubSeq(s, 1, IF Len(s) > n THEN n ELSE Len(s))

\* Mutants: the list of commits grows at its other end; the difference is taken to the
\* oldest revision.
RecordedAtEnd(doc, r, i, body, kind) ==
    LET revs == doc.revs[i]
        rev == [num |-> IF revs = <<>> THEN 1 ELSE Head(revs).num + 1, id |-> r, body |-> body,
                working |-> kind = "create" \/ revs = <<>>, added |-> 0, removed |-> 0]
    IN  [revs |-> [doc.revs EXCEPT ![i] = Up(<<rev>> \o revs, MaxRevisions)],
         commits |-> Up(doc.commits \o <<[item |-> i, id |-> r]>>, MaxCommits)]
RecordedAgainstOldest(doc, r, i, body, kind) ==
    LET revs == doc.revs[i]
        change == Change(i, IF revs = <<>> THEN <<>> ELSE revs[Len(revs)].body, body)
        rev == [num |-> IF revs = <<>> THEN 1 ELSE Head(revs).num + 1,
                id |-> r, body |-> body, working |-> kind = "create" \/ revs = <<>>,
                added |-> change.added, removed |-> change.removed]
    IN  [revs |-> [doc.revs EXCEPT ![i] = Up(<<rev>> \o revs, MaxRevisions)],
         commits |-> Up(<<[item |-> i, id |-> r]>> \o doc.commits, MaxCommits)]

\* recordAppCommit and recordGroupCommit, with the pruning of the save that follows.
Recorded(doc, r, i, body, kind) ==
    LET revs == doc.revs[i]
        change == Change(i, IF revs = <<>> THEN <<>> ELSE Head(revs).body, body)
        rev == [num |-> IF revs = <<>> THEN 1 ELSE Head(revs).num + 1,
                id |-> r, body |-> body, working |-> kind = "create" \/ revs = <<>>,
                added |-> change.added, removed |-> change.removed]
    IN  [revs |-> [doc.revs EXCEPT ![i] = Up(<<rev>> \o revs, MaxRevisions)],
         commits |-> Up(<<[item |-> i, id |-> r]>> \o doc.commits, MaxCommits)]

FindRev(doc, op) == {k \in DOMAIN doc.revs[op.item] : doc.revs[op.item][k].num = op.num}

Toggled(doc, i, k) ==
    LET revs == doc.revs[i]
        rev == [revs[k] EXCEPT !.working = ~revs[k].working]
    IN  [doc EXCEPT !.revs = [@ EXCEPT ![i] = [revs EXCEPT ![k] = rev]]]

\* deleteAppDefinition takes the application out of every group.
Stripped(doc, i) ==
    [j \in Items |-> IF j \in Groups /\ doc[j] # Absent
                     THEN Filtered(doc[j], Range(doc[j]) \ {i}) ELSE doc[j]]
Without(doc, i) == [Stripped(doc, i) EXCEPT ![i] = Absent]

-------------------------------------------------------------------------------
(* Calls *)

Call(q, call, map) == [q EXCEPT !.call = call, !.map = map, !.answer = "none", !.got = NoDoc]
Done == [Idle EXCEPT !.step = "done"]

Waiting(r) == req[r].call # "none" /\ req[r].answer = "none"
Answered(r, step, map) == req[r].step = step /\ req[r].map = map /\ req[r].answer # "none"

Answer(q, answer) ==
    IF q.call = "check" /\ answer # "thrown"
    THEN Call(q, IF answer = "ok" THEN "put" ELSE "post", q.map)
    ELSE [q EXCEPT !.answer = answer]

\* The API server answers; after the check that opens a save, the object is put or
\* posted.  Nothing carries a resourceVersion: the last write stays.
Serve(r) ==
    /\ Waiting(r)
    /\ LET q == req[r]
           exists == stored[q.map] # NoDoc
           ok == IF q.call = "post" THEN ~exists ELSE exists
       IN  /\ req' = [req EXCEPT ![r] = [Answer(q, IF ok THEN "ok" ELSE "refused")
                         EXCEPT !.got = IF q.call = "get" THEN stored[q.map] ELSE NoDoc]]
           /\ stored' = IF ok /\ q.call \in {"put", "post"}
                        THEN [stored EXCEPT ![q.map] = q.text] ELSE stored
    /\ UNCHANGED <<calm, faults, memory>>

\* A status of 4xx or 5xx, or an exception, with or without effect.
Fail(r) ==
    /\ ~calm /\ faults < MaxFaults /\ Waiting(r)
    /\ faults' = faults + 1
    /\ \/ /\ \E answer \in {"refused", "thrown"} : req' = [req EXCEPT ![r] = Answer(@, answer)]
          /\ UNCHANGED stored
       \/ /\ \/ req[r].call = "put"
             \/ req[r].call = "post" /\ stored[req[r].map] = NoDoc
          /\ req' = [req EXCEPT ![r].answer = "thrown"]
          /\ stored' = [stored EXCEPT ![req[r].map] = req[r].text]
    /\ UNCHANGED <<calm, memory>>

-------------------------------------------------------------------------------
(* Where a request goes on *)

\* saveEntireCatalog, saveCatalogVCSStore: the text is fixed before the first await.
Saving(r, q, map, cell, h) ==
    /\ heap' = h
    /\ req' = [req EXCEPT ![r] = Call([q EXCEPT !.step = "check", !.cell = cell,
                                                !.text = h[cell]], "check", map)]

CacheOf(cell, isDefault, isFresh) ==
    [cell |-> cell, isDefault |-> isDefault, fresh |-> isFresh]

\* The catalog's object o is at hand and cached: it is edited in place.
Editing(r, q, o, isDefault, isFresh, h) ==
    LET op == q.op
        kind == IF h[o][op.item] = Absent /\ op.kind = "save" THEN "create" ELSE op.kind
    IN  /\ op.kind \in {"save", "rollback"}
        /\ Saving(r, [q EXCEPT !.op.kind = kind], "catalog", o,
                  [h EXCEPT ![o] = [@ EXCEPT ![op.item] = op.body]])
        /\ catalogCache' = CacheOf(o, isDefault, isFresh)
        /\ UNCHANGED dflt

\* A deletion gives it new arrays, but alters the groups it keeps.
Deleting(r, q, o, isDefault, isFresh, h) ==
    LET new == Len(h) + 1
        kept == IF q.op.item \in Apps THEN [h EXCEPT ![o] = Stripped(@, q.op.item)] ELSE h
    IN  /\ q.op.kind = "delete"
        /\ Saving(r, q, "catalog", new, Append(kept, Without(h[o], q.op.item)))
        /\ catalogCache' = CacheOf(new, isDefault, isFresh)
        /\ dflt' = IF isDefault THEN new ELSE dflt

WithCatalog(r, q, o, isDefault, isFresh, h) ==
    \/ Editing(r, q, o, isDefault, isFresh, h)
    \/ Deleting(r, q, o, isDefault, isFresh, h)

Usable(cache) == cache.cell # 0 /\ cache.fresh

\* getAppStoreCatalog: the cached object is used, or found to have outlived its time.
NeedCatalog(r, q, h) ==
    \/ /\ Usable(catalogCache)
       /\ WithCatalog(r, q, catalogCache.cell, catalogCache.isDefault, TRUE, h)
    \/ /\ heap' = h
       /\ req' = [req EXCEPT ![r] = Call([q EXCEPT !.step = "read"], "get", "catalog")]
       /\ catalogCache' = [catalogCache EXCEPT !.fresh = FALSE]
       /\ UNCHANGED dflt

\* The history's object o is at hand: a rollback goes on to save the revision it finds,
\* a toggle marks it, ...
RollingBack(r, q, o, h) ==
    LET op == q.op
        found == FindRev(h[o], op)
        body == h[o].revs[op.item][Min(found)].body
    IN  /\ op.kind = "rollback" /\ found # {}
        /\ NeedCatalog(r, [q EXCEPT !.op.body = body], h)

Toggling(r, q, o, h) ==
    LET op == q.op
        found == FindRev(h[o], op)
    IN  /\ op.kind = "toggle" /\ found # {}
        /\ Saving(r, q, "history", o, [h EXCEPT ![o] = Toggled(@, op.item, Min(found))])
        /\ UNCHANGED <<catalogCache, dflt>>

NotFound(r, q, o, h) ==
    /\ FindRev(h[o], q.op) = {}
    /\ heap' = h
    /\ req' = [req EXCEPT ![r] = Done]
    /\ UNCHANGED <<catalogCache, dflt>>

WithHistory(r, q, o, h) ==
    RollingBack(r, q, o, h) \/ Toggling(r, q, o, h) \/ NotFound(r, q, o, h)

\* ... or to record what was saved.
Record(r, q, o, h) ==
    Saving(r, q, "history", o, [h EXCEPT ![o] = Recorded(@, r, q.op.item, q.op.body, q.op.kind)])

Fetch(r, q, step) ==
    /\ req' = [req EXCEPT ![r] = Call([q EXCEPT !.step = step], "get", "history")]
    /\ vcsCache' = [vcsCache EXCEPT !.fresh = FALSE]

-------------------------------------------------------------------------------
(* Requests *)

Begin(r, op) ==
    /\ req[r].step = "idle"
    /\ calm => \A s \in Requests : req[s].step \in {"idle", "done"}
    /\ LET q == [req[r] EXCEPT !.op = op]
           doc == IF op.kind = "clear" THEN EmptyCatalog
                  ELSE [EmptyCatalog EXCEPT ![op.item] = op.body]
       IN  \/ /\ op.kind \in {"save", "delete"}
              /\ NeedCatalog(r, q, heap)
              /\ UNCHANGED vcsCache
           \/ /\ op.kind \in {"rollback", "toggle"} /\ Usable(vcsCache)
              /\ WithHistory(r, q, vcsCache.cell, heap)
              /\ UNCHANGED vcsCache
           \/ /\ op.kind \in {"rollback", "toggle"}
              /\ Fetch(r, q, "look")
              /\ UNCHANGED <<heap, catalogCache, dflt>>
           \/ /\ op.kind \in {"clear", "import"}
              /\ Saving(r, q, "catalog", Len(heap) + 1, Append(heap, doc))
              /\ UNCHANGED <<catalogCache, dflt, vcsCache>>
    /\ UNCHANGED <<calm, stored, faults>>

\* Anything but a document makes the default one be written over the stored one.
CatalogRead(r) ==
    /\ Answered(r, "read", "catalog")
    /\ LET q == req[r]
       IN  \/ /\ q.got # NoDoc
              /\ WithCatalog(r, q, Len(heap) + 1, FALSE, TRUE, Append(heap, q.got))
           \/ /\ q.got = NoDoc
              /\ req' = [req EXCEPT ![r] = Call([q EXCEPT !.step = "default", !.cell = dflt,
                                                          !.text = heap[dflt]], "check", "catalog")]
              /\ UNCHANGED <<heap, catalogCache, dflt>>
    /\ UNCHANGED <<calm, stored, vcsCache, faults>>

\* After an exception the time of the fetch is not noted.
DefaultSaved(r) ==
    /\ Answered(r, "default", "catalog")
    /\ WithCatalog(r, req[r], dflt, TRUE, req[r].answer = "thrown" => catalogCache.fresh, heap)
    /\ UNCHANGED <<calm, stored, vcsCache, faults>>

\* Mutant: the call of a failed request is left open.
CatalogFailedOpen(r) ==
    /\ Answered(r, "check", "catalog") /\ req[r].answer = "thrown"
    /\ req' = [req EXCEPT ![r].step = "done"]
    /\ UNCHANGED <<calm, stored, faults, memory>>

\* Only an exception fails the request, whatever the status; then nothing is recorded.
CatalogFailed(r) ==
    /\ Answered(r, "check", "catalog") /\ req[r].answer = "thrown"
    /\ req' = [req EXCEPT ![r] = Done]
    /\ UNCHANGED <<calm, stored, faults, memory>>

CatalogSaved(r) ==
    /\ Answered(r, "check", "catalog") /\ req[r].answer # "thrown"
    /\ catalogCache' = [cell |-> req[r].cell, isDefault |-> FALSE, fresh |-> TRUE]
    /\ LET q == req[r]
       IN  \/ /\ q.op.kind \in {"delete", "clear"}
              /\ req' = [req EXCEPT ![r] = Done]
              /\ UNCHANGED <<heap, vcsCache>>
           \/ /\ q.op.kind \notin {"delete", "clear"} /\ Usable(vcsCache)
              /\ Record(r, q, vcsCache.cell, heap)
              /\ UNCHANGED vcsCache
           \/ /\ q.op.kind \notin {"delete", "clear"}
              /\ Fetch(r, q, "record")
              /\ UNCHANGED heap
    /\ UNCHANGED <<calm, stored, dflt, faults>>

\* Anything but a document counts as an empty history.
HistoryRead(r) ==
    LET q == req[r]
        new == Len(heap) + 1
        h == Append(heap, IF q.got = NoDoc THEN EmptyHistory ELSE q.got)
    IN  /\ \/ /\ Answered(r, "look", "history")
              /\ WithHistory(r, q, new, h)
           \/ /\ Answered(r, "record", "history")
              /\ Record(r, q, new, h)
              /\ UNCHANGED <<catalogCache, dflt>>
        /\ vcsCache' = [cell |-> new, fresh |-> TRUE]
        /\ UNCHANGED <<calm, stored, faults>>

\* Exceptions are caught here: the object is cached all the same.
HistorySaved(r) ==
    /\ Answered(r, "check", "history")
    /\ vcsCache' = [cell |-> req[r].cell, fresh |-> TRUE]
    /\ req' = [req EXCEPT ![r] = Done]
    /\ UNCHANGED <<calm, stored, heap, dflt, catalogCache, faults>>

NoCatalog == [cell |-> 0, isDefault |-> FALSE, fresh |-> FALSE]
NoHistory == [cell |-> 0, fresh |-> FALSE]

\* The requests under way end without an answer.
Restart ==
    /\ ~calm /\ faults < MaxFaults
    /\ faults' = faults + 1
    /\ heap' = <<EmptyCatalog>> /\ dflt' = 1
    /\ catalogCache' = NoCatalog /\ vcsCache' = NoHistory
    /\ req' = [r \in Requests |-> IF req[r].step = "idle" THEN Idle ELSE Done]
    /\ UNCHANGED <<calm, stored>>

-------------------------------------------------------------------------------
\* A new installation, or one in use: an application saved once.
Init ==
    /\ calm \in BOOLEAN
    /\ \/ stored = [map \in Maps |-> NoDoc]
       \/ \E i \in Apps, body \in Texts :
            stored = [map \in Maps |->
                IF map = "catalog" THEN [EmptyCatalog EXCEPT ![i] = body]
                ELSE Recorded(EmptyHistory, First, i, body, "create")]
    /\ heap = <<EmptyCatalog>> /\ dflt = 1
    /\ catalogCache = NoCatalog /\ vcsCache = NoHistory
    /\ req = [r \in Requests |-> Idle]
    /\ faults = 0

Step(r) ==
    \/ Serve(r)
    \/ CatalogRead(r) \/ DefaultSaved(r) \/ CatalogFailed(r) \/ CatalogSaved(r)
    \/ HistoryRead(r) \/ HistorySaved(r)

Next ==
    \/ \E r \in Requests :
          \/ \E op \in Operation : Begin(r, op)
          \/ Step(r)
          \/ Fail(r)
    \/ Restart

Spec == Init /\ [][Next]_vars

-------------------------------------------------------------------------------
(* Properties *)

\* Type correctness; an open call of a request is one of its step.
TypeOK ==
    /\ calm \in BOOLEAN
    /\ faults \in 0..MaxFaults
    /\ dflt \in DOMAIN heap
    /\ catalogCache \in [cell : 0..Len(heap), isDefault : BOOLEAN, fresh : BOOLEAN]
    /\ vcsCache \in [cell : 0..Len(heap), fresh : BOOLEAN]
    /\ \A r \in Requests :
          /\ req[r].step \in {"idle", "look", "read", "default", "check", "record", "done"}
          /\ req[r].cell \in 0..Len(heap)
          /\ (req[r].step \in {"idle", "done"}) <=> (req[r].call = "none")
    /\ \A i \in Apps : stored["catalog"] # NoDoc =>
          stored["catalog"][i] \in Texts \cup {Absent}

\* Whatever overlaps, fails or restarts (catalog-vcs.ts:280), the history that is
\* stored is one somebody could have made alone: the revisions of an item count up
\* without a gap, no commit is in it twice, and the list of all commits tells the
\* same story, in the same order, as each item's own list.
HistoryWellFormed ==
    LET doc == stored["history"] IN
    doc # NoDoc =>
        \A i \in Items :
            LET revs == doc.revs[i]
                commits == Filtered(doc.commits, {c \in Range(doc.commits) : c.item = i})
            IN  /\ \A k \in 1..Len(revs) - 1 : revs[k].num = revs[k + 1].num + 1
                /\ \A k, l \in DOMAIN revs : revs[k].id = revs[l].id => k = l
                /\ \A k \in DOMAIN revs \cap DOMAIN commits : revs[k].id = commits[k].id

\* The lines, or members, a revision says were added and removed (catalog-vcs.ts:271)
\* account for the difference to the revision before it in the stored history,
\* although it was computed against whatever copy the request had.  (For a group that
\* names an application twice, which nothing refuses, both are counted by list entries
\* and need not.)
ChangesAccountFor ==
    stored["history"] # NoDoc =>
        \A i \in Items :
            LET revs == stored["history"].revs[i]
            IN  \A k \in 1..Len(revs) - 1 :
                    i \in Apps \/ (IsInjective(revs[k].body) /\ IsInjective(revs[k + 1].body)) =>
                        Len(revs[k + 1].body) - revs[k].removed + revs[k].added
                            = Len(revs[k].body)

\* Of any two revisions of an application in the stored history, the difference shown
\* (vcs/diff.ts:7) tells both manifests: its lines without those added are the one,
\* without those removed the other (computeTextDiff, catalog-vcs.ts:31).
DiffTellsBothTexts ==
    stored["history"] # NoDoc =>
        \A i \in Apps : \A old, new \in Range(stored["history"].revs[i]) :
            LET diff == TextDiff(old.body, new.body)
                lines(kinds) ==
                    LET part == Of(diff, kinds) IN [k \in DOMAIN part |-> part[k].line]
            IN  /\ lines({"unchanged", "removed"}) = old.body
                /\ lines({"unchanged", "added"}) = new.body

\* Requests that neither overlap nor fail implement the promise: a refinement
\* mapping onto the two stored documents, constant in the other behaviours.
CatalogOf(doc) == IF calm /\ doc # NoDoc THEN doc ELSE EmptyCatalog
LogOf(doc) ==
    [i \in Items |->
        IF calm /\ doc # NoDoc
        THEN [k \in DOMAIN doc.revs[i] |-> [num |-> doc.revs[i][k].num, body |-> doc.revs[i][k].body,
                                           working |-> doc.revs[i][k].working]]
        ELSE <<>>]
Unrecorded ==
    IF calm
    THEN {req[r].op.item : r \in {s \in Requests :
            /\ req[s].op.kind \in {"save", "create", "rollback", "import"}
            /\ \/ req[s].step = "check" /\ req[s].map = "catalog" /\ req[s].answer = "ok"
               \/ req[s].step = "record"
               \/ req[s].step = "check" /\ req[s].map = "history" /\ req[s].answer # "ok"}}
    ELSE {}

Promise == INSTANCE VersionedCatalog WITH
    current <- CatalogOf(stored["catalog"]), log <- LogOf(stored["history"]),
    unrecorded <- Unrecorded

CalmKeepsPromise == Promise!Spec
=============================================================================
