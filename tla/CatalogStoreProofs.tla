-------------------------- MODULE CatalogStoreProofs --------------------------
(***************************************************************************)
(* Theorems about the application catalog and its history: whatever        *)
(* overlaps, fails or restarts, nothing leaves its type, the history that  *)
(* is stored is one somebody could have made alone, and the differences it *)
(* tells are those between its revisions.  Requests that neither overlap   *)
(* nor fail keep what VersionedCatalog promises.                           *)
(***************************************************************************)
EXTENDS CatalogStore, ListFacts

-------------------------------------------------------------------------------
(* The inductive invariant. *)

Values == Bodies \cup {Absent}
Commit == [item : Items, id : Requests \cup {First}]
RevOf(i) == [num : Nat \ {0}, id : Requests \cup {First}, body : Body(i), working : BOOLEAN,
             added : Nat, removed : Nat]
Docs == {NoDoc} \cup [Items -> Values] \cup [revs : [Items -> Seq(Rev)], commits : Seq(Commit)]

IsCatalog(d) ==
    /\ d \in [Items -> Values]
    /\ \A i \in Apps : d[i] \in Texts \cup {Absent}
    /\ \A i \in Groups : d[i] \in Members \cup {Absent}

\* The revisions of an item, alone and beside the list of all commits.
Counted(revs) == \A k \in 1..Len(revs) - 1 : revs[k].num = revs[k + 1].num + 1
Once(revs) == \A k, l \in 1..Len(revs) : revs[k].id = revs[l].id => k = l
Accounts(i, old, rev) ==
    i \in Apps \/ (IsInjective(rev.body) /\ IsInjective(old.body)) =>
        Len(old.body) - rev.removed + rev.added = Len(rev.body)
Accounted(i, revs) == \A k \in 1..Len(revs) - 1 : Accounts(i, revs[k + 1], revs[k])
CommitsOf(i, commits) == Filtered(commits, {c \in Range(commits) : c.item = i})
Agree(revs, commits) == \A k \in 1..Len(revs) : k <= Len(commits) => revs[k].id = commits[k].id

IsHistory(d) ==
    /\ d \in [revs : [Items -> Seq(Rev)], commits : Seq(Commit)]
    /\ \A i \in Items :
          /\ d.revs[i] \in Seq(RevOf(i))
          /\ Counted(d.revs[i]) /\ Once(d.revs[i]) /\ Accounted(i, d.revs[i])
          /\ Agree(d.revs[i], CommitsOf(i, d.commits))

NotIn(r, d) == \A i \in Items : \A k \in 1..Len(d.revs[i]) : d.revs[i][k].id # r

\* A document that no request of a set has recorded anything in.
Sound(map, d, set) ==
    IF map = "catalog" THEN IsCatalog(d) ELSE IsHistory(d) /\ \A r \in set : NotIn(r, d)
Kept(map, d, set) == d = NoDoc \/ Sound(map, d, set)

\* The requests that have yet to record what they do.
Silent(q) ==
    \/ q.step \in {"idle", "look", "read", "default", "record"}
    \/ q.step = "check" /\ q.map = "catalog"
Silents == {r \in Requests : Silent(req[r])}

Kinds == {"save", "create", "delete", "rollback", "toggle", "clear", "import"}
Bringing == {"save", "create", "rollback", "import"}
Request ==
    [step : {"idle", "look", "read", "default", "check", "record", "done"},
     call : {"none", "get", "check", "put", "post"}, map : Maps, cell : Nat, text : Docs,
     answer : {"none", "ok", "refused", "thrown"}, got : Docs,
     op : [kind : Kinds, item : Items, body : Bodies \cup {Absent}, num : Asked \cup {0}]]

\* What a request carries, at each of its steps.
Calls(q) ==
    /\ q.step \in {"idle", "done"} <=> q.call = "none"
    /\ q.step \in {"look", "read", "record"} <=> q.call = "get"
    /\ q.step \in {"read", "default"} => q.map = "catalog"
    /\ q.step \in {"look", "record"} => q.map = "history"
    /\ q.step = "look" => q.op.kind \in {"rollback", "toggle"}
    /\ q.step \in {"read", "default"} => q.op.kind \in {"save", "delete", "rollback"}
    /\ q.step = "check" /\ q.map = "catalog" => q.op.kind # "toggle"
    /\ q.step = "record" => q.op.kind \in Bringing
Brings(q) ==
    /\ q.step \in {"read", "default", "record"} \/ (q.step = "check" /\ q.map = "catalog")
    /\ q.op.kind \in Bringing
    => q.op.body \in Body(q.op.item)
Carries(q, set) ==
    /\ Calls(q) /\ Brings(q)
    /\ q.step \in {"default", "check"} => Sound(q.map, q.text, set)
    /\ Kept(q.map, q.got, set)

\* The cells that are, or are to be, cached as a catalog or as a history.
Saves(q, map) == q.step = "check" /\ q.map = map
CatalogCells ==
    {dflt} \cup ({catalogCache.cell} \ {0})
    \cup {req[r].cell : r \in {s \in Requests : Saves(req[s], "catalog")}}
HistoryCells ==
    ({vcsCache.cell} \ {0}) \cup {req[r].cell : r \in {s \in Requests : Saves(req[s], "history")}}
Cells(map) == IF map = "catalog" THEN CatalogCells ELSE HistoryCells

Typed ==
    /\ calm \in BOOLEAN /\ faults \in 0..MaxFaults
    /\ heap \in Seq(Docs)
    /\ catalogCache \in [cell : 0..Len(heap), isDefault : BOOLEAN, fresh : BOOLEAN]
    /\ vcsCache \in [cell : 0..Len(heap), fresh : BOOLEAN]
    /\ req \in [Requests -> Request]
    /\ \A r \in Requests : req[r].cell <= Len(heap)
    /\ stored \in [Maps -> Docs]
Held ==
    /\ \A map \in Maps : \A c \in Cells(map) : c \in 1..Len(heap) /\ Sound(map, heap[c], Silents)
    /\ CatalogCells \cap HistoryCells = {}
Inv ==
    /\ Typed
    /\ \A map \in Maps : Kept(map, stored[map], Silents)
    /\ \A r \in Requests : Carries(req[r], Silents)
    /\ Held

-------------------------------------------------------------------------------
(* Line differences. *)

\* The function that TextDiff evaluates, at any place in both texts.
Diffs(old, new) ==
    CHOOSE diff : diff = [p \in (1..Len(old) + 1) \X (1..Len(new) + 1) |->
        IF p[1] > Len(old) /\ p[2] > Len(new) THEN <<>>
        ELSE <<MarkAt(old, new, p[1], p[2])>> \o diff[After(Kind(old, new, p[1], p[2]), p[1], p[2])]]

LEMMA TextDiffIs == \A old, new : TextDiff(old, new) = Diffs(old, new)[<<1, 1>>]
BY DEF TextDiff, Diffs

Marks(T) == [type : {"unchanged", "added", "removed"}, line : T]
Places(old, new) == (1..Len(old) + 1) \X (1..Len(new) + 1)
Ends(old, new, p) == p[1] > Len(old) /\ p[2] > Len(new)
Mark1(old, new, p) == MarkAt(old, new, p[1], p[2])
Next1(old, new, p) == After(Kind(old, new, p[1], p[2]), p[1], p[2])
Left(old, new, p) == (Len(old) + 1 - p[1]) + (Len(new) + 1 - p[2])

\* Each place but the last has a mark and a next place, nearer to the end.
LEMMA PlaceIs ==
    ASSUME NEW T, NEW old \in Seq(T), NEW new \in Seq(T), NEW p \in Places(old, new)
    PROVE  /\ p[1] \in 1..Len(old) + 1 /\ p[2] \in 1..Len(new) + 1 /\ p = <<p[1], p[2]>>
           /\ Len(old) \in Nat /\ Len(new) \in Nat /\ Left(old, new, p) \in Nat
           /\ Ends(old, new, p) <=> Left(old, new, p) = 0
           /\ ~Ends(old, new, p) =>
                 /\ Mark1(old, new, p) \in Marks(T)
                 /\ Next1(old, new, p) \in Places(old, new)
                 /\ Left(old, new, Next1(old, new, p)) < Left(old, new, p)
                 /\ \/ /\ Mark1(old, new, p).type = "unchanged"
                       /\ p[1] <= Len(old) /\ Mark1(old, new, p).line = old[p[1]]
                       /\ p[2] <= Len(new) /\ Mark1(old, new, p).line = new[p[2]]
                       /\ Next1(old, new, p) = <<p[1] + 1, p[2] + 1>>
                    \/ /\ Mark1(old, new, p).type = "added"
                       /\ p[2] <= Len(new) /\ Mark1(old, new, p).line = new[p[2]]
                       /\ Next1(old, new, p) = <<p[1], p[2] + 1>>
                    \/ /\ Mark1(old, new, p).type = "removed"
                       /\ p[1] <= Len(old) /\ Mark1(old, new, p).line = old[p[1]]
                       /\ Next1(old, new, p) = <<p[1] + 1, p[2]>>
<1> DEFINE i == p[1]
           j == p[2]
           kind == Kind(old, new, i, j)
<1>1. /\ i \in 1..Len(old) + 1 /\ j \in 1..Len(new) + 1 /\ p = <<i, j>>
      /\ Len(old) \in Nat /\ Len(new) \in Nat
  BY DEF Places
<1>2. Left(old, new, p) \in Nat /\ (Ends(old, new, p) <=> Left(old, new, p) = 0)
  BY <1>1 DEF Left, Ends
<1>3. ASSUME ~Ends(old, new, p)
      PROVE  \/ kind = "unchanged" /\ i <= Len(old) /\ j <= Len(new) /\ old[i] = new[j]
             \/ kind = "added" /\ j <= Len(new)
             \/ kind = "removed" /\ i <= Len(old)
  BY <1>1, <1>3 DEF Kind, Ends
<1>4. /\ Mark1(old, new, p) = [type |-> kind, line |-> IF kind = "added" THEN new[j] ELSE old[i]]
      /\ Next1(old, new, p) =
            <<IF kind = "added" THEN i ELSE i + 1, IF kind = "removed" THEN j ELSE j + 1>>
  BY DEF Mark1, MarkAt, Mark, Next1, After
<1> HIDE DEF kind, i, j
<1>5. /\ i <= Len(old) => i \in 1..Len(old) /\ old[i] \in T /\ i + 1 \in 1..Len(old) + 1
      /\ j <= Len(new) => j \in 1..Len(new) /\ new[j] \in T /\ j + 1 \in 1..Len(new) + 1
  BY <1>1
<1>6. \A q : Left(old, new, q) = (Len(old) + 1 - q[1]) + (Len(new) + 1 - q[2])
  BY DEF Left
<1>7. Left(old, new, p) = (Len(old) + 1 - i) + (Len(new) + 1 - j)
  BY <1>6 DEF i, j
<1>8. CASE Ends(old, new, p)
  BY <1>1, <1>2, <1>8 DEF i, j
<1>9. CASE ~Ends(old, new, p)
  <2> DEFINE mark == Mark1(old, new, p)
             next == Next1(old, new, p)
  <2>1. CASE kind = "unchanged" /\ i <= Len(old) /\ j <= Len(new) /\ old[i] = new[j]
    <3>1. mark = [type |-> "unchanged", line |-> old[i]] /\ next = <<i + 1, j + 1>>
      BY <1>4, <2>1
    <3>2. mark \in Marks(T) /\ mark.type = "unchanged" /\ mark.line = old[i] /\ mark.line = new[j]
      BY <1>5, <2>1, <3>1 DEF Marks
    <3>3. next \in Places(old, new) /\ Left(old, new, next) < Left(old, new, p)
      <4>1. i + 1 \in 1..Len(old) + 1 /\ j + 1 \in 1..Len(new) + 1
        BY <1>5, <2>1
      <4>2. Left(old, new, next) = (Len(old) + 1 - (i + 1)) + (Len(new) + 1 - (j + 1))
        BY <1>6, <3>1
      <4>3. i \in Nat /\ j \in Nat
        BY <1>1 DEF i, j
      <4>4. Left(old, new, next) < Left(old, new, p)
        BY <1>1, <1>7, <4>2, <4>3
      <4> QED
        BY <3>1, <4>1, <4>4 DEF Places
    <3> QED
      BY <1>1, <1>2, <2>1, <3>1, <3>2, <3>3 DEF i, j
  <2>2. CASE kind = "added" /\ j <= Len(new)
    <3>1. mark = [type |-> "added", line |-> new[j]] /\ next = <<i, j + 1>>
      BY <1>4, <2>2
    <3>2. mark \in Marks(T) /\ mark.type = "added" /\ mark.line = new[j]
      BY <1>5, <2>2, <3>1 DEF Marks
    <3>3. next \in Places(old, new) /\ Left(old, new, next) < Left(old, new, p)
      <4>1. i \in 1..Len(old) + 1 /\ j + 1 \in 1..Len(new) + 1
        BY <1>1, <1>5, <2>2 DEF i
      <4>2. Left(old, new, next) = (Len(old) + 1 - i) + (Len(new) + 1 - (j + 1))
        BY <1>6, <3>1
      <4>3. Left(old, new, next) < Left(old, new, p)
        BY <1>1, <1>7, <4>2 DEF i, j
      <4> QED
        BY <3>1, <4>1, <4>3 DEF Places
    <3> QED
      BY <1>1, <1>2, <2>2, <3>1, <3>2, <3>3 DEF i, j
  <2>3. CASE kind = "removed" /\ i <= Len(old)
    <3>1. mark = [type |-> "removed", line |-> old[i]] /\ next = <<i + 1, j>>
      BY <1>4, <2>3
    <3>2. mark \in Marks(T) /\ mark.type = "removed" /\ mark.line = old[i]
      BY <1>5, <2>3, <3>1 DEF Marks
    <3>3. next \in Places(old, new) /\ Left(old, new, next) < Left(old, new, p)
      <4>1. i + 1 \in 1..Len(old) + 1 /\ j \in 1..Len(new) + 1
        BY <1>1, <1>5, <2>3 DEF j
      <4>2. Left(old, new, next) = (Len(old) + 1 - (i + 1)) + (Len(new) + 1 - j)
        BY <1>6, <3>1
      <4>3. Left(old, new, next) < Left(old, new, p)
        BY <1>1, <1>7, <4>2 DEF i, j
      <4> QED
        BY <3>1, <4>1, <4>3 DEF Places
    <3> QED
      BY <1>1, <1>2, <2>3, <3>1, <3>2, <3>3 DEF i, j
  <2> QED
    BY <1>3, <1>9, <2>1, <2>2, <2>3
<1> QED
  BY <1>8, <1>9

At(old, new, n) == {p \in Places(old, new) : Left(old, new, p) <= n}
One(diff, old, new, p) ==
    diff[p] = IF Ends(old, new, p) THEN <<>>
              ELSE <<Mark1(old, new, p)>> \o diff[Next1(old, new, p)]

LEMMA DiffExists ==
    ASSUME NEW T, NEW old \in Seq(T), NEW new \in Seq(T)
    PROVE  /\ Diffs(old, new) \in [Places(old, new) -> Seq(Marks(T))]
           /\ \A p \in Places(old, new) : One(Diffs(old, new), old, new, p)
<1> DEFINE Good(f, n) == /\ f \in [At(old, new, n) -> Seq(Marks(T))]
                         /\ \A p \in At(old, new, n) : One(f, old, new, p)
           S == {n \in Nat : \E f : Good(f, n)}
<1>1. ASSUME NEW p \in Places(old, new)
      PROVE  /\ Left(old, new, p) \in 0..Len(old) + Len(new)
             /\ Ends(old, new, p) <=> Left(old, new, p) = 0
             /\ ~Ends(old, new, p) =>
                   /\ Mark1(old, new, p) \in Marks(T)
                   /\ Next1(old, new, p) \in Places(old, new)
                   /\ Left(old, new, Next1(old, new, p)) \in Nat
                   /\ Left(old, new, Next1(old, new, p)) < Left(old, new, p)
  <2>1. /\ p[1] \in 1..Len(old) + 1 /\ p[2] \in 1..Len(new) + 1
        /\ Len(old) \in Nat /\ Len(new) \in Nat /\ Left(old, new, p) \in Nat
        /\ Ends(old, new, p) <=> Left(old, new, p) = 0
        /\ ~Ends(old, new, p) =>
              /\ Mark1(old, new, p) \in Marks(T)
              /\ Next1(old, new, p) \in Places(old, new)
              /\ Left(old, new, Next1(old, new, p)) < Left(old, new, p)
    BY PlaceIs
  <2>2. ~Ends(old, new, p) => Left(old, new, Next1(old, new, p)) \in Nat
    BY <2>1, PlaceIs
  <2>3. Left(old, new, p) <= Len(old) + Len(new)
    <3> DEFINE i == p[1]
               j == p[2]
               l == Len(old)
               k == Len(new)
    <3>1. i \in 1..l + 1 /\ j \in 1..k + 1 /\ l \in Nat /\ k \in Nat
      BY <2>1
    <3>2. Left(old, new, p) = (l + 1 - i) + (k + 1 - j)
      BY DEF Left
    <3> HIDE DEF i, j, l, k
    <3>3. (l + 1 - i) + (k + 1 - j) <= l + k
      BY <3>1
    <3> QED
      BY <3>2, <3>3 DEF l, k
  <2> QED
    BY <2>1, <2>2, <2>3
<1>2. 0 \in S
  <2> DEFINE f == [p \in At(old, new, 0) |-> <<>>]
  <2>1. \A p \in At(old, new, 0) : p \in Places(old, new) /\ Ends(old, new, p)
    BY <1>1 DEF At
  <2>2. \A p \in At(old, new, 0) : One(f, old, new, p)
    BY <2>1 DEF One
  <2>3. f \in [At(old, new, 0) -> Seq(Marks(T))]
    OBVIOUS
  <2> HIDE DEF f
  <2>4. Good(f, 0)
    BY <2>2, <2>3
  <2> HIDE DEF Good
  <2> QED
    BY <2>4
<1>3. ASSUME NEW n \in Nat, n \in S
      PROVE  n + 1 \in S
  <2>1. PICK f : Good(f, n)
    <3> HIDE DEF Good
    <3> QED
      BY <1>3
  <2> DEFINE new1(p) == <<Mark1(old, new, p)>> \o f[Next1(old, new, p)]
             g == [p \in At(old, new, n + 1) |-> IF p \in At(old, new, n) THEN f[p] ELSE new1(p)]
  <2>2. ASSUME NEW p \in At(old, new, n + 1), p \notin At(old, new, n)
        PROVE  /\ ~Ends(old, new, p) /\ Next1(old, new, p) \in At(old, new, n)
               /\ new1(p) \in Seq(Marks(T))
    <3>1. p \in Places(old, new) /\ Left(old, new, p) = n + 1
      BY <1>1, <2>2 DEF At
    <3>2. /\ ~Ends(old, new, p) /\ Mark1(old, new, p) \in Marks(T)
          /\ Next1(old, new, p) \in Places(old, new) /\ Left(old, new, Next1(old, new, p)) \in Nat
          /\ Left(old, new, Next1(old, new, p)) < n + 1
      BY <1>1, <3>1
    <3>3. Next1(old, new, p) \in At(old, new, n)
      BY <3>2 DEF At
    <3>4. f[Next1(old, new, p)] \in Seq(Marks(T))
      BY <2>1, <3>3
    <3> QED
      BY <3>2, <3>3, <3>4
  <2>3. ASSUME NEW p \in At(old, new, n)
        PROVE  /\ p \in At(old, new, n + 1) /\ f[p] \in Seq(Marks(T)) /\ One(f, old, new, p)
               /\ ~Ends(old, new, p) => Next1(old, new, p) \in At(old, new, n)
    <3>1. p \in Places(old, new) /\ Left(old, new, p) <= n /\ Left(old, new, p) \in Nat
      BY <1>1 DEF At
    <3>2. p \in At(old, new, n + 1)
      BY <3>1 DEF At
    <3>3. ~Ends(old, new, p) => Next1(old, new, p) \in At(old, new, n)
      BY <1>1, <3>1 DEF At
    <3> QED
      BY <2>1, <3>2, <3>3
  <2>4. g \in [At(old, new, n + 1) -> Seq(Marks(T))]
    <3> HIDE DEF new1
    <3> QED
      BY <2>2, <2>3
  <2>5. /\ \A p \in At(old, new, n) : g[p] = f[p]
        /\ \A p \in At(old, new, n + 1) : p \notin At(old, new, n) => g[p] = new1(p)
    BY <2>3
  <2> HIDE DEF g
  <2>6. ASSUME NEW p \in At(old, new, n + 1)
        PROVE  One(g, old, new, p)
    <3>1. CASE p \in At(old, new, n)
      BY <2>3, <2>5, <3>1 DEF One
    <3>2. CASE p \notin At(old, new, n)
      BY <2>2, <2>5, <3>2 DEF One
    <3> QED
      BY <3>1, <3>2
  <2>7. Good(g, n + 1)
    BY <2>4, <2>6
  <2> HIDE DEF Good
  <2> QED
    BY <2>7
<1>4. PICK f : Good(f, Len(old) + Len(new))
  <2> HIDE DEF S
  <2>1. Nat \subseteq S
    BY <1>2, <1>3, Induct
  <2>2. Len(old) + Len(new) \in S
    BY <2>1
  <2> HIDE DEF Good
  <2> QED
    BY <2>2 DEF S
<1>5. At(old, new, Len(old) + Len(new)) = Places(old, new)
  BY <1>1 DEF At
<1> DEFINE Whole(d) == [p \in (1..Len(old) + 1) \X (1..Len(new) + 1) |->
        IF p[1] > Len(old) /\ p[2] > Len(new) THEN <<>>
        ELSE <<MarkAt(old, new, p[1], p[2])>> \o d[After(Kind(old, new, p[1], p[2]), p[1], p[2])]]
<1>6. ASSUME NEW d
      PROVE  d = Whole(d) <=> /\ d = [p \in Places(old, new) |-> d[p]]
                              /\ \A p \in Places(old, new) : One(d, old, new, p)
  <2>1. Whole(d) = [p \in Places(old, new) |->
            IF Ends(old, new, p) THEN <<>> ELSE <<Mark1(old, new, p)>> \o d[Next1(old, new, p)]]
    BY DEF Places, Ends, Mark1, Next1
  <2> HIDE DEF Whole
  <2> QED
    BY <2>1 DEF One
<1>7. f = Whole(f)
  <2>1. f = [p \in Places(old, new) |-> f[p]]
    BY <1>4, <1>5
  <2>2. \A p \in Places(old, new) : One(f, old, new, p)
    BY <1>4, <1>5
  <2> HIDE DEF Whole
  <2> QED
    BY <1>6, <2>1, <2>2
<1>8. Diffs(old, new) = CHOOSE d : d = Whole(d)
  BY DEF Diffs
<1> HIDE DEF Whole
<1>9. Diffs(old, new) = Whole(Diffs(old, new))
  BY <1>7, <1>8
<1> DEFINE D == Diffs(old, new)
<1> HIDE DEF D
<1>10. /\ D = [p \in Places(old, new) |-> D[p]]
       /\ \A p \in Places(old, new) : One(D, old, new, p)
  BY <1>6, <1>9 DEF D
<1> DEFINE U == {n \in Nat : \A p \in At(old, new, n) : D[p] \in Seq(Marks(T))}
<1>11. <<>> \in Seq(Marks(T))
  OBVIOUS
<1>12. 0 \in U
  <2>1. \A p \in At(old, new, 0) : p \in Places(old, new) /\ Ends(old, new, p)
    BY <1>1 DEF At
  <2>2. \A p \in At(old, new, 0) : D[p] = <<>>
    BY <1>10, <2>1 DEF One
  <2>3. \A p \in At(old, new, 0) : D[p] \in Seq(Marks(T))
    BY <1>11, <2>2
  <2> QED
    BY <2>3
<1>13. ASSUME NEW n \in Nat, n \in U
       PROVE  n + 1 \in U
  <2> SUFFICES ASSUME NEW p \in At(old, new, n + 1) PROVE D[p] \in Seq(Marks(T))
    OBVIOUS
  <2>1. p \in Places(old, new) /\ Left(old, new, p) <= n + 1
    BY DEF At
  <2>2. CASE Ends(old, new, p)
    <3>1. D[p] = <<>>
      BY <1>10, <2>1, <2>2 DEF One
    <3> QED
      BY <1>11, <3>1
  <2>3. CASE ~Ends(old, new, p)
    <3>1. /\ Mark1(old, new, p) \in Marks(T) /\ Next1(old, new, p) \in At(old, new, n)
      BY <1>1, <2>1, <2>3 DEF At
    <3>2. D[Next1(old, new, p)] \in Seq(Marks(T))
      BY <1>13, <3>1
    <3>3. D[p] = <<Mark1(old, new, p)>> \o D[Next1(old, new, p)]
      BY <1>10, <2>1, <2>3 DEF One
    <3> QED
      BY <3>1, <3>2, <3>3
  <2> QED
    BY <2>2, <2>3
<1>14. \A p \in Places(old, new) : D[p] \in Seq(Marks(T))
  <2> HIDE DEF U
  <2>1. Nat \subseteq U
    BY <1>12, <1>13, Induct
  <2>2. Len(old) + Len(new) \in U
    BY <2>1
  <2> QED
    BY <1>5, <2>2 DEF U
<1> QED
  BY <1>10, <1>14 DEF D

\* The marks of some kinds in a difference, and the text that they tell from its n-th line.
Marked(T, kinds) == {m \in Marks(T) : m.type \in kinds}
Tells(part, text, n) ==
    /\ Len(part) = Len(text) + 1 - n
    /\ \A k \in 1..Len(part) : part[k].line = text[n - 1 + k]

OfKinds(T, d, kinds) == Filtered(d, Marked(T, kinds))

LEMMA MarkAhead ==
    ASSUME NEW T, NEW m \in Marks(T), NEW s \in Seq(Marks(T)), NEW kinds
    PROVE  /\ OfKinds(T, s, kinds) \in Seq(Marks(T))
           /\ OfKinds(T, <<m>> \o s, kinds) =
                 IF m.type \in kinds THEN <<m>> \o OfKinds(T, s, kinds) ELSE OfKinds(T, s, kinds)
<1> DEFINE f == OfKinds(T, s, kinds)
           g == OfKinds(T, <<m>> \o s, kinds)
<1>1. f \in Seq(Marks(T)) /\ (m \in Marked(T, kinds) <=> m.type \in kinds)
  BY FilteredElements DEF Marked, OfKinds
<1>2. g = IF m.type \in kinds THEN <<m>> \o f ELSE f
  BY <1>1, FilteredPrepended DEF OfKinds
<1> QED
  BY <1>1, <1>2

LEMMA MarkPrepended ==
    ASSUME NEW T, NEW m \in Marks(T), NEW s \in Seq(Marks(T)), NEW kinds
    PROVE  /\ OfKinds(T, s, kinds) \in Seq(Marks(T))
           /\ OfKinds(T, <<m>> \o s, kinds) \in Seq(Marks(T))
           /\ m.type \notin kinds => OfKinds(T, <<m>> \o s, kinds) = OfKinds(T, s, kinds)
           /\ m.type \in kinds =>
                 /\ Len(OfKinds(T, <<m>> \o s, kinds)) = Len(OfKinds(T, s, kinds)) + 1
                 /\ OfKinds(T, <<m>> \o s, kinds)[1] = m
                 /\ \A k \in 1..Len(OfKinds(T, s, kinds)) :
                       OfKinds(T, <<m>> \o s, kinds)[k + 1] = OfKinds(T, s, kinds)[k]
<1> DEFINE f == OfKinds(T, s, kinds)
           g == OfKinds(T, <<m>> \o s, kinds)
<1>1. f \in Seq(Marks(T)) /\ g = IF m.type \in kinds THEN <<m>> \o f ELSE f
  <2>1. f \in Seq(Marks(T))
    BY MarkAhead
  <2>2. g = IF m.type \in kinds THEN <<m>> \o f ELSE f
    BY MarkAhead
  <2> HIDE DEF f, g
  <2> QED
    BY <2>1, <2>2
<1> HIDE DEF f, g
<1>2. /\ <<m>> \o f \in Seq(Marks(T)) /\ Len(<<m>> \o f) = Len(f) + 1 /\ (<<m>> \o f)[1] = m
      /\ \A k \in 1..Len(f) : (<<m>> \o f)[k + 1] = f[k]
  BY <1>1, Prepended
<1>3. /\ f \in Seq(Marks(T)) /\ g \in Seq(Marks(T))
      /\ m.type \notin kinds => g = f
      /\ m.type \in kinds =>
            Len(g) = Len(f) + 1 /\ g[1] = m /\ \A k \in 1..Len(f) : g[k + 1] = f[k]
  BY <1>1, <1>2
<1> QED
  BY <1>3 DEF f, g

LEMMA MarkFirst ==
    ASSUME NEW T, NEW m \in Marks(T), NEW s \in Seq(Marks(T)), NEW kinds, m.type \in kinds
    PROVE  OfKinds(T, <<m>> \o s, kinds)[1] = m
<1> DEFINE f == OfKinds(T, s, kinds)
<1>1. f \in Seq(Marks(T)) /\ OfKinds(T, <<m>> \o s, kinds) = <<m>> \o f
  BY MarkAhead
<1> HIDE DEF f
<1>2. (<<m>> \o f)[1] = m
  BY <1>1, Prepended
<1> QED
  BY <1>1, <1>2

LEMMA TellsMore ==
    ASSUME NEW T, NEW text \in Seq(T), NEW n \in 1..Len(text),
           NEW f \in Seq(Marks(T)), NEW g \in Seq(Marks(T)), Tells(f, text, n + 1),
           Len(g) = Len(f) + 1, g[1].line = text[n], \A k \in 1..Len(f) : g[k + 1] = f[k]
    PROVE  Tells(g, text, n)
<1>1. /\ Len(text) \in Nat /\ n \in Nat /\ Len(f) \in Nat
      /\ Len(f) = Len(text) + 1 - (n + 1)
      /\ \A k \in 1..Len(f) : f[k].line = text[n + 1 - 1 + k]
  BY DEF Tells
<1>2. Len(g) = Len(text) + 1 - n
  BY <1>1
<1>3. ASSUME NEW k \in 1..Len(g)
      PROVE  g[k].line = text[n - 1 + k]
  <2>1. CASE k = 1
    <3>1. n - 1 + k = n
      BY <1>1, <2>1
    <3> QED
      BY <2>1, <3>1
  <2>2. CASE k # 1
    <3>1. k - 1 \in 1..Len(f) /\ (k - 1) + 1 = k
      BY <1>1, <2>2
    <3>2. g[k] = f[k - 1]
      BY <3>1
    <3>3. f[k - 1].line = text[n + 1 - 1 + (k - 1)]
      BY <1>1, <3>1
    <3>4. n + 1 - 1 + (k - 1) = n - 1 + k
      BY <1>1, <3>1
    <3> QED
      BY <3>2, <3>3, <3>4
  <2> QED
    BY <2>1, <2>2
<1> QED
  BY <1>2, <1>3 DEF Tells

\* From any place on, the difference tells the rest of both texts, and the lines it
\* adds and removes make up the difference in their lengths.
TellsBoth(T, d, old, new, p) ==
    /\ Tells(OfKinds(T, d, {"unchanged", "removed"}), old, p[1])
    /\ Tells(OfKinds(T, d, {"unchanged", "added"}), new, p[2])
    /\ (Len(old) + 1 - p[1]) - Len(OfKinds(T, d, {"removed"})) + Len(OfKinds(T, d, {"added"}))
           = Len(new) + 1 - p[2]

LEMMA OneTells ==
    ASSUME NEW T, NEW old \in Seq(T), NEW new \in Seq(T), NEW p \in Places(old, new),
           ~Ends(old, new, p), NEW d \in Seq(Marks(T)),
           TellsBoth(T, d, old, new, Next1(old, new, p))
    PROVE  TellsBoth(T, <<Mark1(old, new, p)>> \o d, old, new, p)
<1> DEFINE m == Mark1(old, new, p)
           next == Next1(old, new, p)
           o == {"unchanged", "removed"}
           n == {"unchanged", "added"}
           r == {"removed"}
           a == {"added"}
           was(kinds) == OfKinds(T, d, kinds)
           is(kinds) == OfKinds(T, <<m>> \o d, kinds)
<1>1. /\ p[1] \in 1..Len(old) + 1 /\ p[2] \in 1..Len(new) + 1
      /\ Len(old) \in Nat /\ Len(new) \in Nat /\ m \in Marks(T)
      /\ \/ /\ m.type = "unchanged"
            /\ p[1] <= Len(old) /\ m.line = old[p[1]]
            /\ p[2] <= Len(new) /\ m.line = new[p[2]]
            /\ next = <<p[1] + 1, p[2] + 1>>
         \/ /\ m.type = "added"
            /\ p[2] <= Len(new) /\ m.line = new[p[2]]
            /\ next = <<p[1], p[2] + 1>>
         \/ /\ m.type = "removed"
            /\ p[1] <= Len(old) /\ m.line = old[p[1]]
            /\ next = <<p[1] + 1, p[2]>>
  BY PlaceIs
<1> HIDE DEF m, next
<1>2. ASSUME NEW kinds
      PROVE  /\ was(kinds) \in Seq(Marks(T)) /\ is(kinds) \in Seq(Marks(T))
             /\ Len(was(kinds)) \in Nat
             /\ m.type \notin kinds => is(kinds) = was(kinds)
             /\ m.type \in kinds =>
                   /\ Len(is(kinds)) = Len(was(kinds)) + 1 /\ is(kinds)[1] = m
                   /\ \A k \in 1..Len(was(kinds)) : is(kinds)[k + 1] = was(kinds)[k]
  <2>1. m \in Marks(T)
    BY <1>1
  <2>2. was(kinds) \in Seq(Marks(T)) /\ is(kinds) \in Seq(Marks(T))
    BY <2>1, MarkPrepended
  <2>3. m.type \notin kinds => is(kinds) = was(kinds)
    BY <2>1, MarkPrepended
  <2>4. m.type \in kinds =>
           /\ Len(is(kinds)) = Len(was(kinds)) + 1 /\ is(kinds)[1] = m
           /\ \A k \in 1..Len(was(kinds)) : is(kinds)[k + 1] = was(kinds)[k]
    <3>1. m.type \in kinds => Len(is(kinds)) = Len(was(kinds)) + 1
      BY <2>1, MarkPrepended
    <3>2. ASSUME m.type \in kinds
          PROVE  is(kinds)[1] = m
      BY <2>1, <3>2, MarkFirst
    <3>3. ASSUME m.type \in kinds, NEW k \in 1..Len(was(kinds))
          PROVE  is(kinds)[k + 1] = was(kinds)[k]
      BY <2>1, <3>3, MarkPrepended
    <3> QED
      BY <3>1, <3>3, <3>2
  <2> HIDE DEF was, is
  <2>5. Len(was(kinds)) \in Nat
    BY <2>2
  <2> QED
    BY <2>2, <2>3, <2>4, <2>5
<1>3. /\ Tells(was(o), old, next[1]) /\ Tells(was(n), new, next[2])
      /\ (Len(old) + 1 - next[1]) - Len(was(r)) + Len(was(a)) = Len(new) + 1 - next[2]
  BY DEF TellsBoth, next
<1> HIDE DEF was, is
<1> DEFINE l == Len(old)
           k == Len(new)
           i == p[1]
           j == p[2]
           i1 == next[1]
           j1 == next[2]
<1>4. i \in Nat /\ j \in Nat /\ l \in Nat /\ k \in Nat
  BY <1>1
<1> HIDE DEF l, k, i, j, i1, j1
<1>5. ASSUME Tells(is(o), old, p[1]), Tells(is(n), new, p[2]),
             (Len(old) + 1 - p[1]) - Len(is(r)) + Len(is(a)) = Len(new) + 1 - p[2]
      PROVE  TellsBoth(T, <<Mark1(old, new, p)>> \o d, old, new, p)
  BY <1>5 DEF TellsBoth, is, m
<1>6. CASE /\ m.type = "unchanged"
           /\ p[1] <= Len(old) /\ m.line = old[p[1]]
           /\ p[2] <= Len(new) /\ m.line = new[p[2]]
           /\ next = <<p[1] + 1, p[2] + 1>>
  <2>1. is(r) = was(r) /\ is(a) = was(a)
    BY <1>2, <1>6
  <2>2. p[1] \in 1..Len(old) /\ p[2] \in 1..Len(new) /\ next[1] = p[1] + 1 /\ next[2] = p[2] + 1
    BY <1>1, <1>6
  <2>3. Tells(is(o), old, p[1])
    <3>1. /\ Len(is(o)) = Len(was(o)) + 1 /\ is(o)[1] = m
          /\ \A x \in 1..Len(was(o)) : is(o)[x + 1] = was(o)[x]
      BY <1>2, <1>6
    <3>2. was(o) \in Seq(Marks(T)) /\ is(o) \in Seq(Marks(T))
      BY <1>2
    <3>3. Tells(was(o), old, p[1] + 1) /\ is(o)[1].line = old[p[1]]
      BY <1>3, <1>6, <2>2, <3>1
    <3> QED
      BY <2>2, <3>1, <3>2, <3>3, TellsMore
  <2>4. Tells(is(n), new, p[2])
    <3>1. /\ Len(is(n)) = Len(was(n)) + 1 /\ is(n)[1] = m
          /\ \A x \in 1..Len(was(n)) : is(n)[x + 1] = was(n)[x]
      BY <1>2, <1>6
    <3>2. was(n) \in Seq(Marks(T)) /\ is(n) \in Seq(Marks(T))
      BY <1>2
    <3>3. Tells(was(n), new, p[2] + 1) /\ is(n)[1].line = new[p[2]]
      BY <1>3, <1>6, <2>2, <3>1
    <3> QED
      BY <2>2, <3>1, <3>2, <3>3, TellsMore
  <2>5. Len(was(r)) \in Nat /\ Len(was(a)) \in Nat
    BY <1>2
  <2>6. (Len(old) + 1 - p[1]) - Len(is(r)) + Len(is(a)) = Len(new) + 1 - p[2]
    <3>1. ASSUME NEW x \in Nat, NEW y \in Nat,
                 (l + 1 - i1) - x + y = k + 1 - j1
          PROVE  (l + 1 - i) - x + y = k + 1 - j
      <4>1. i1 = i + 1 /\ j1 = j + 1
        BY <2>2 DEF i, j, i1, j1
      <4> QED
        BY <1>4, <3>1, <4>1
    <3> QED
      BY <1>3, <2>1, <2>5, <3>1 DEF l, k, i, j, i1, j1
  <2> QED
    BY <1>5, <2>3, <2>4, <2>6
<1>7. CASE /\ m.type = "added"
           /\ p[2] <= Len(new) /\ m.line = new[p[2]]
           /\ next = <<p[1], p[2] + 1>>
  <2>1. is(r) = was(r) /\ is(o) = was(o) /\ Len(is(a)) = Len(was(a)) + 1
    BY <1>2, <1>7
  <2>2. p[2] \in 1..Len(new) /\ next[1] = p[1] /\ next[2] = p[2] + 1
    BY <1>1, <1>7
  <2>3. Tells(is(o), old, p[1])
    BY <1>3, <2>1, <2>2
  <2>4. Tells(is(n), new, p[2])
    <3>1. /\ Len(is(n)) = Len(was(n)) + 1 /\ is(n)[1] = m
          /\ \A x \in 1..Len(was(n)) : is(n)[x + 1] = was(n)[x]
      BY <1>2, <1>7
    <3>2. was(n) \in Seq(Marks(T)) /\ is(n) \in Seq(Marks(T))
      BY <1>2
    <3>3. Tells(was(n), new, p[2] + 1) /\ is(n)[1].line = new[p[2]]
      BY <1>3, <1>7, <2>2, <3>1
    <3> QED
      BY <2>2, <3>1, <3>2, <3>3, TellsMore
  <2>5. Len(was(r)) \in Nat /\ Len(was(a)) \in Nat
    BY <1>2
  <2>6. (Len(old) + 1 - p[1]) - Len(is(r)) + Len(is(a)) = Len(new) + 1 - p[2]
    <3>1. ASSUME NEW x \in Nat, NEW y \in Nat,
                 (l + 1 - i1) - x + y = k + 1 - j1
          PROVE  (l + 1 - i) - x + (y + 1) = k + 1 - j
      <4>1. i1 = i /\ j1 = j + 1
        BY <2>2 DEF i, j, i1, j1
      <4> QED
        BY <1>4, <3>1, <4>1
    <3> QED
      BY <1>3, <2>1, <2>5, <3>1 DEF l, k, i, j, i1, j1
  <2> QED
    BY <1>5, <2>3, <2>4, <2>6
<1>8. CASE /\ m.type = "removed"
           /\ p[1] <= Len(old) /\ m.line = old[p[1]]
           /\ next = <<p[1] + 1, p[2]>>
  <2>1. is(a) = was(a) /\ is(n) = was(n) /\ Len(is(r)) = Len(was(r)) + 1
    BY <1>2, <1>8
  <2>2. p[1] \in 1..Len(old) /\ next[1] = p[1] + 1 /\ next[2] = p[2]
    BY <1>1, <1>8
  <2>3. Tells(is(o), old, p[1])
    <3>1. /\ Len(is(o)) = Len(was(o)) + 1 /\ is(o)[1] = m
          /\ \A x \in 1..Len(was(o)) : is(o)[x + 1] = was(o)[x]
      BY <1>2, <1>8
    <3>2. was(o) \in Seq(Marks(T)) /\ is(o) \in Seq(Marks(T))
      BY <1>2
    <3>3. Tells(was(o), old, p[1] + 1) /\ is(o)[1].line = old[p[1]]
      BY <1>3, <1>8, <2>2, <3>1
    <3> QED
      BY <2>2, <3>1, <3>2, <3>3, TellsMore
  <2>4. Tells(is(n), new, p[2])
    BY <1>3, <2>1, <2>2
  <2>5. Len(was(r)) \in Nat /\ Len(was(a)) \in Nat
    BY <1>2
  <2>6. (Len(old) + 1 - p[1]) - Len(is(r)) + Len(is(a)) = Len(new) + 1 - p[2]
    <3>1. ASSUME NEW x \in Nat, NEW y \in Nat,
                 (l + 1 - i1) - x + y = k + 1 - j1
          PROVE  (l + 1 - i) - (x + 1) + y = k + 1 - j
      <4>1. i1 = i + 1 /\ j1 = j
        BY <2>2 DEF i, j, i1, j1
      <4> QED
        BY <1>4, <3>1, <4>1
    <3> QED
      BY <1>3, <2>1, <2>5, <3>1 DEF l, k, i, j, i1, j1
  <2> QED
    BY <1>5, <2>3, <2>4, <2>6
<1> QED
  BY <1>1, <1>6, <1>7, <1>8

LEMMA NothingTells ==
    ASSUME NEW T, NEW old \in Seq(T), NEW new \in Seq(T), NEW p \in Places(old, new),
           Ends(old, new, p)
    PROVE  TellsBoth(T, <<>>, old, new, p)
<1> DEFINE i == p[1]
           j == p[2]
           l == Len(old)
           k == Len(new)
<1>1. i \in 1..l + 1 /\ j \in 1..k + 1 /\ l \in Nat /\ k \in Nat /\ i > l /\ j > k
  BY PlaceIs DEF Ends
<1>2. ASSUME NEW kinds
      PROVE  Len(OfKinds(T, <<>>, kinds)) = 0
  BY NoneLeft DEF OfKinds
<1> HIDE DEF i, j, l, k
<1>3. l + 1 - i = 0 /\ k + 1 - j = 0
  BY <1>1
<1>4. (l + 1 - i) - 0 + 0 = k + 1 - j /\ 1..0 = {}
  BY <1>3
<1> QED
  BY <1>2, <1>3, <1>4 DEF TellsBoth, Tells, i, j, l, k

LEMMA DiffTells ==
    ASSUME NEW T, NEW old \in Seq(T), NEW new \in Seq(T)
    PROVE  /\ TextDiff(old, new) \in Seq(Marks(T))
           /\ TellsBoth(T, TextDiff(old, new), old, new, <<1, 1>>)
<1> DEFINE D == Diffs(old, new)
           S == {n \in Nat : \A p \in At(old, new, n) : TellsBoth(T, D[p], old, new, p)}
<1>1. /\ D \in [Places(old, new) -> Seq(Marks(T))]
      /\ \A p \in Places(old, new) : One(D, old, new, p)
  BY DiffExists
<1> HIDE DEF D
<1>2. ASSUME NEW p \in Places(old, new)
      PROVE  /\ Left(old, new, p) \in Nat
             /\ Ends(old, new, p) <=> Left(old, new, p) = 0
             /\ ~Ends(old, new, p) =>
                   /\ Next1(old, new, p) \in Places(old, new)
                   /\ Left(old, new, Next1(old, new, p)) < Left(old, new, p)
                   /\ Left(old, new, Next1(old, new, p)) \in Nat
  BY PlaceIs
<1>3. ASSUME NEW p \in Places(old, new), Ends(old, new, p)
      PROVE  TellsBoth(T, D[p], old, new, p)
  <2>1. D[p] = <<>>
    BY <1>1, <1>3 DEF One
  <2>2. TellsBoth(T, <<>>, old, new, p)
    BY <1>3, NothingTells
  <2> QED
    BY <2>1, <2>2
<1>4. 0 \in S
  <2>1. \A p \in At(old, new, 0) : p \in Places(old, new) /\ Ends(old, new, p)
    BY <1>2 DEF At
  <2> QED
    BY <1>3, <2>1
<1>5. ASSUME NEW n \in Nat, n \in S
      PROVE  n + 1 \in S
  <2> SUFFICES ASSUME NEW p \in At(old, new, n + 1) PROVE TellsBoth(T, D[p], old, new, p)
    OBVIOUS
  <2>1. p \in Places(old, new) /\ Left(old, new, p) <= n + 1
    BY DEF At
  <2>2. CASE ~Ends(old, new, p)
    <3> DEFINE next == Next1(old, new, p)
    <3>1. next \in Places(old, new) /\ next \in At(old, new, n)
      BY <1>2, <2>1, <2>2 DEF At
    <3>2. TellsBoth(T, D[next], old, new, next) /\ D[next] \in Seq(Marks(T))
      BY <1>1, <1>5, <3>1
    <3>3. D[p] = <<Mark1(old, new, p)>> \o D[next]
      BY <1>1, <2>1, <2>2 DEF One
    <3>4. TellsBoth(T, <<Mark1(old, new, p)>> \o D[next], old, new, p)
      BY <2>1, <2>2, <3>2, OneTells
    <3> QED
      BY <3>3, <3>4
  <2> QED
    BY <1>3, <2>1, <2>2
<1>6. Nat \subseteq S
  <2> HIDE DEF S
  <2> QED
    BY <1>4, <1>5, Induct
<1>7. <<1, 1>> \in Places(old, new)
  BY DEF Places
<1>8. TellsBoth(T, D[<<1, 1>>], old, new, <<1, 1>>)
  <2>1. Left(old, new, <<1, 1>>) \in Nat
    BY <1>2, <1>7
  <2>2. <<1, 1>> \in At(old, new, Left(old, new, <<1, 1>>))
    BY <1>7, <2>1 DEF At
  <2> QED
    BY <1>6, <2>1, <2>2
<1> QED
  BY <1>1, <1>7, <1>8, TextDiffIs DEF D

LEMMA OfIs ==
    ASSUME NEW T, NEW diff \in Seq(Marks(T)), NEW kinds
    PROVE  Of(diff, kinds) = OfKinds(T, diff, kinds)
<1> DEFINE a == {m \in Range(diff) : m.type \in kinds}
           b == Marked(T, kinds)
<1>1. \A k \in 1..Len(diff) : diff[k] \in Marks(T) /\ diff[k] \in Range(diff)
  BY DEF Range
<1>2. \A k \in 1..Len(diff) : diff[k] \in a <=> diff[k] \in b
  BY <1>1 DEF Marked
<1> HIDE DEF a, b
<1>3. Filtered(diff, a) = Filtered(diff, b)
  BY <1>2, FilteredSame
<1> QED
  BY <1>3 DEF Of, OfKinds, a, b

\* What a difference shows, and what a revision records of it.
LEMMA TextsTold ==
    ASSUME NEW T, NEW old \in Seq(T), NEW new \in Seq(T),
           NEW part, part = Of(TextDiff(old, new), {"unchanged", "removed"}),
           NEW rest, rest = Of(TextDiff(old, new), {"unchanged", "added"})
    PROVE  /\ [k \in DOMAIN part |-> part[k].line] = old
           /\ [k \in DOMAIN rest |-> rest[k].line] = new
<1>1. /\ TextDiff(old, new) \in Seq(Marks(T))
      /\ TellsBoth(T, TextDiff(old, new), old, new, <<1, 1>>)
  BY DiffTells
<1>2. /\ part = OfKinds(T, TextDiff(old, new), {"unchanged", "removed"})
      /\ rest = OfKinds(T, TextDiff(old, new), {"unchanged", "added"})
  BY <1>1, OfIs
<1>3. part \in Seq(Marks(T)) /\ rest \in Seq(Marks(T))
  BY <1>1, <1>2, FilteredElements DEF OfKinds
<1>4. Tells(part, old, 1) /\ Tells(rest, new, 1)
  BY <1>1, <1>2 DEF TellsBoth
<1>5. ASSUME NEW text \in Seq(T), NEW f \in Seq(Marks(T)), Tells(f, text, 1)
      PROVE  [k \in DOMAIN f |-> f[k].line] = text
  <2>1. Len(text) \in Nat /\ Len(f) = Len(text)
    BY <1>5 DEF Tells
  <2>2. DOMAIN f = 1..Len(text) /\ \A k \in 1..Len(text) : f[k].line = text[k]
    <3>1. \A k \in 1..Len(text) : 1 - 1 + k = k
      OBVIOUS
    <3> QED
      BY <1>5, <2>1, <3>1 DEF Tells
  <2>3. text = [k \in 1..Len(text) |-> text[k]]
    OBVIOUS
  <2> QED
    BY <2>2, <2>3
<1> QED
  BY <1>3, <1>4, <1>5

LEMMA TextCounted ==
    ASSUME NEW T, NEW old \in Seq(T), NEW new \in Seq(T)
    PROVE  /\ TextChange(old, new).added \in Nat /\ TextChange(old, new).removed \in Nat
           /\ Len(old) - TextChange(old, new).removed + TextChange(old, new).added = Len(new)
<1> DEFINE d == TextDiff(old, new)
<1>1. d \in Seq(Marks(T)) /\ TellsBoth(T, d, old, new, <<1, 1>>)
  BY DiffTells
<1> HIDE DEF d
<1> DEFINE x == OfKinds(T, d, {"removed"})
           y == OfKinds(T, d, {"added"})
<1>2. Of(d, {"removed"}) = x /\ Of(d, {"added"}) = y
  BY <1>1, OfIs
<1>3. x \in Seq(Marks(T)) /\ y \in Seq(Marks(T))
  BY <1>1, FilteredElements DEF OfKinds
<1>4. (Len(old) + 1 - <<1, 1>>[1]) - Len(x) + Len(y) = Len(new) + 1 - <<1, 1>>[2]
  BY <1>1 DEF TellsBoth
<1>5. TextChange(old, new).removed = Len(x) /\ TextChange(old, new).added = Len(y)
  BY <1>2 DEF TextChange, d
<1> HIDE DEF x, y
<1>6. (Len(old) + 1 - 1) - Len(x) + Len(y) = Len(new) + 1 - 1
  BY <1>4
<1>7. Len(x) \in Nat /\ Len(y) \in Nat /\ Len(old) \in Nat /\ Len(new) \in Nat
  BY <1>3
<1>8. Len(old) - Len(x) + Len(y) = Len(new)
  BY <1>6, <1>7
<1> QED
  BY <1>5, <1>7, <1>8

LEMMA InSequences ==
    ASSUME NEW s, s \in Seq(Range(s)), NEW T, Range(s) \subseteq T
    PROVE  s \in Seq(T)
BY DEF Range

LEMMA OthersCounted ==
    ASSUME NEW T, NEW s \in Seq(T), NEW t \in Seq(T),
           NEW others, others = Filtered(s, Range(s) \ Range(t))
    PROVE  /\ Len(others) \in Nat
           /\ IsInjective(s) => /\ IsFiniteSet(Range(s)) /\ Cardinality(Range(s)) = Len(s)
                                /\ Cardinality(Range(s) \ Range(t)) = Len(others)
<1>1. others \in Seq(T) /\ DOMAIN s = 1..Len(s)
  BY FilteredElements
<1>2. Range(others) = Range(s) \ Range(t)
  BY FilteredRange
<1>3. ASSUME IsInjective(s)
      PROVE  /\ IsFiniteSet(Range(s)) /\ Cardinality(Range(s)) = Len(s)
             /\ Cardinality(Range(s) \ Range(t)) = Len(others)
  <2>1. \A i, j \in 1..Len(s) : s[i] = s[j] => i = j
    BY <1>1, <1>3 DEF IsInjective
  <2>2. \A i, j \in 1..Len(others) : others[i] = others[j] => i = j
    <3> SUFFICES ASSUME NEW i \in 1..Len(others), NEW j \in 1..Len(others), i # j
                 PROVE  others[i] # others[j]
      OBVIOUS
    <3> DEFINE kept == Range(s) \ Range(t)
    <3>1. others = Filtered(s, kept)
      OBVIOUS
    <3> HIDE DEF kept
    <3>2. i \in 1..Len(Filtered(s, kept)) /\ j \in 1..Len(Filtered(s, kept))
      BY <3>1
    <3>3. PICK k, l \in 1..Len(s) :
             k # l /\ Filtered(s, kept)[i] = s[k] /\ Filtered(s, kept)[j] = s[l]
      BY <3>2, FilteredApart
    <3> QED
      BY <2>1, <3>3, <3>1
  <2>3. IsFiniteSet(Range(s)) /\ Cardinality(Range(s)) = Len(s)
    BY <2>1, ListCount
  <2>4. Cardinality(Range(others)) = Len(others)
    BY <1>1, <2>2, ListCount
  <2> QED
    BY <1>2, <2>3, <2>4
<1> QED
  BY <1>1, <1>3

LEMMA MembersCounted ==
    ASSUME NEW T, NEW old \in Seq(T), NEW new \in Seq(T)
    PROVE  /\ MemberChange(old, new).added \in Nat /\ MemberChange(old, new).removed \in Nat
           /\ IsInjective(old) /\ IsInjective(new) =>
                 Len(old) - MemberChange(old, new).removed + MemberChange(old, new).added = Len(new)
<1> DEFINE x == Filtered(old, Range(old) \ Range(new))
           y == Filtered(new, Range(new) \ Range(old))
           X == Range(old)
           Y == Range(new)
<1>1. MemberChange(old, new).removed = Len(x) /\ MemberChange(old, new).added = Len(y)
  BY DEF MemberChange
<1>2. /\ Len(x) \in Nat
      /\ IsInjective(old) => /\ IsFiniteSet(X) /\ Cardinality(X) = Len(old)
                             /\ Cardinality(X \ Y) = Len(x)
  BY OthersCounted
<1>3. /\ Len(y) \in Nat
      /\ IsInjective(new) => /\ IsFiniteSet(Y) /\ Cardinality(Y) = Len(new)
                             /\ Cardinality(Y \ X) = Len(y)
  BY OthersCounted
<1> HIDE DEF x, y, X, Y
<1>4. ASSUME IsInjective(old), IsInjective(new)
      PROVE  Len(old) - Len(x) + Len(y) = Len(new)
  <2>1. Cardinality(X \ Y) = Cardinality(X) - Cardinality(X \cap Y)
    BY <1>2, <1>4, FS_Difference
  <2>2. Cardinality(Y \ X) = Cardinality(Y) - Cardinality(Y \cap X)
    BY <1>3, <1>4, FS_Difference
  <2>3. X \cap Y = Y \cap X /\ Cardinality(X \cap Y) \in Nat
    BY <1>2, <1>4, FS_Intersection, FS_CardinalityType
  <2>4. Len(old) \in Nat /\ Len(new) \in Nat
    OBVIOUS
  <2> DEFINE l == Len(old)
             k == Len(new)
             m == Len(x)
             n == Len(y)
             both == Cardinality(X \cap Y)
  <2>5. l \in Nat /\ k \in Nat /\ both \in Nat /\ m = l - both /\ n = k - both
    BY <1>2, <1>3, <1>4, <2>1, <2>2, <2>3, <2>4
  <2> HIDE DEF l, k, m, n, both
  <2>6. l - m + n = k
    BY <2>5
  <2> QED
    BY <2>6 DEF l, k, m, n
<1> QED
  BY <1>1, <1>2, <1>3, <1>4

LEMMA BodyIs ==
    ASSUME NEW i \in Items, NEW body \in Body(i)
    PROVE  /\ i \in Apps => body \in Texts /\ body \in Seq(Range(body))
           /\ i \notin Apps => i \in Groups /\ body \in Members /\ body \in Seq(Apps)
           /\ body \in Bodies /\ body # Absent
BY BodyAssumption, ItemAssumption DEF Items, Body, Bodies

LEMMA ChangeCounted ==
    ASSUME NEW i \in Items, NEW new \in Body(i), NEW old, old = <<>> \/ old \in Body(i)
    PROVE  /\ Change(i, old, new).added \in Nat /\ Change(i, old, new).removed \in Nat
           /\ i \in Apps \/ (IsInjective(new) /\ IsInjective(old)) =>
                 Len(old) - Change(i, old, new).removed + Change(i, old, new).added = Len(new)
<1>1. CASE i \in Apps
  <2> DEFINE T == Range(old) \cup Range(new)
  <2>1. new \in Seq(Range(new))
    BY <1>1, BodyIs
  <2>2. old \in Seq(Range(old))
    <3>1. CASE old = <<>>
      BY <3>1
    <3>2. CASE old \in Body(i)
      BY <1>1, <3>2, BodyIs
    <3> QED
      BY <3>1, <3>2
  <2>3. Range(old) \subseteq T /\ Range(new) \subseteq T
    OBVIOUS
  <2> HIDE DEF T
  <2>4. new \in Seq(T) /\ old \in Seq(T)
    BY <2>1, <2>2, <2>3, InSequences
  <2> QED
    BY <1>1, <2>4, TextCounted DEF Change
<1>2. CASE i \notin Apps
  <2>1. new \in Seq(Apps) /\ (old \in Body(i) => old \in Seq(Apps))
    BY <1>2, BodyIs
  <2>2. old \in Seq(Apps)
    <3>1. CASE old = <<>>
      BY <3>1
    <3> QED
      BY <2>1, <3>1
  <2> QED
    BY <1>2, <2>1, <2>2, MembersCounted DEF Change
<1> QED
  BY <1>1, <1>2

-------------------------------------------------------------------------------
(* The edits of a document leave one. *)

LEMMA EmptyIs ==
    /\ IsCatalog(EmptyCatalog) /\ IsHistory(EmptyHistory)
    /\ \A r : NotIn(r, EmptyHistory)
<1>1. IsCatalog(EmptyCatalog)
  BY DEF IsCatalog, EmptyCatalog, Values, Items
<1> DEFINE d == EmptyHistory
<1>2. /\ d \in [revs : [Items -> Seq(Rev)], commits : Seq(Commit)]
      /\ \A i \in Items : d.revs[i] = <<>>
  BY DEF EmptyHistory
<1>3. ASSUME NEW i \in Items
      PROVE  /\ d.revs[i] \in Seq(RevOf(i)) /\ Len(d.revs[i]) = 0
             /\ 1..0 = {} /\ 1..0 - 1 = {}
  BY <1>2
<1> HIDE DEF d
<1>4. IsHistory(d)
  BY <1>2, <1>3 DEF IsHistory, Counted, Once, Accounted, Agree
<1>5. \A r : NotIn(r, d)
  BY <1>3 DEF NotIn
<1> QED
  BY <1>1, <1>4, <1>5 DEF d

LEMMA EditIs ==
    ASSUME NEW d, IsCatalog(d), NEW i \in Items, NEW body \in Body(i) \cup {Absent}
    PROVE  IsCatalog([d EXCEPT ![i] = body])
<1>1. /\ i \in Apps => body \in Texts \cup {Absent}
      /\ i \in Groups => body \in Members \cup {Absent}
      /\ body \in Values
  BY BodyIs, ItemAssumption DEF Items, Values
<1>2. d \in [Items -> Values]
  BY DEF IsCatalog
<1>3. \A j \in Items : [d EXCEPT ![i] = body][j] = IF j = i THEN body ELSE d[j]
  BY <1>2
<1>4. [d EXCEPT ![i] = body] \in [Items -> Values]
  BY <1>1, <1>2
<1>5. Apps \subseteq Items /\ Groups \subseteq Items
  BY DEF Items
<1> QED
  BY <1>1, <1>3, <1>4, <1>5 DEF IsCatalog

LEMMA StrippedIs ==
    ASSUME NEW d, IsCatalog(d), NEW i \in Items
    PROVE  IsCatalog(Stripped(d, i)) /\ IsCatalog(Without(d, i))
<1>1. ASSUME NEW j \in Items
      PROVE  /\ Stripped(d, i)[j] = IF j \in Groups /\ d[j] # Absent
                                    THEN Filtered(d[j], Range(d[j]) \ {i}) ELSE d[j]
             /\ j \in Apps => Stripped(d, i)[j] \in Texts \cup {Absent}
             /\ j \in Groups => Stripped(d, i)[j] \in Members \cup {Absent}
  <2>1. Stripped(d, i)[j] = IF j \in Groups /\ d[j] # Absent
                            THEN Filtered(d[j], Range(d[j]) \ {i}) ELSE d[j]
    BY DEF Stripped
  <2>2. j \in Apps => j \notin Groups /\ d[j] \in Texts \cup {Absent}
    BY ItemAssumption DEF IsCatalog
  <2>3. j \in Groups /\ d[j] # Absent => Filtered(d[j], Range(d[j]) \ {i}) \in Members
    BY BodyAssumption DEF IsCatalog
  <2> QED
    BY <2>1, <2>2, <2>3 DEF IsCatalog
<1>2. /\ Apps \subseteq Items /\ Groups \subseteq Items
      /\ \A j \in Items : j \in Apps \/ j \in Groups
  BY DEF Items
<1>3. Stripped(d, i) \in [Items -> Values]
  <2>1. Stripped(d, i) = [j \in Items |-> Stripped(d, i)[j]]
    BY DEF Stripped
  <2>2. \A j \in Items : Stripped(d, i)[j] \in Values
    BY <1>1, <1>2 DEF Values, Bodies
  <2> QED
    BY <2>1, <2>2
<1>4. IsCatalog(Stripped(d, i))
  BY <1>1, <1>2, <1>3 DEF IsCatalog
<1>5. IsCatalog(Without(d, i))
  BY <1>4, EditIs DEF Without
<1> QED
  BY <1>4, <1>5

LEMMA RevIs ==
    ASSUME NEW i \in Items
    PROVE  RevOf(i) \subseteq Rev /\ Seq(RevOf(i)) \subseteq Seq(Rev)
<1>1. Body(i) \subseteq Bodies
  BY DEF Body, Bodies
<1>2. RevOf(i) \subseteq Rev
  BY <1>1 DEF RevOf, Rev
<1> QED
  BY <1>2

LEMMA HeadKeeps ==
    ASSUME NEW i \in Items, NEW b \in Seq(RevOf(i)), NEW a \in Seq(RevOf(i)), Heads(a, b),
           Counted(b), Once(b), Accounted(i, b)
    PROVE  Counted(a) /\ Once(a) /\ Accounted(i, a)
<1>1. Len(a) \in Nat /\ Len(b) \in Nat /\ Len(a) <= Len(b) /\ \A k \in 1..Len(a) : a[k] = b[k]
  BY DEF Heads
<1>2. \A k \in 1..Len(a) - 1 : k \in 1..Len(b) - 1 /\ k \in 1..Len(a) /\ k + 1 \in 1..Len(a)
  BY <1>1
<1>3. \A k \in 1..Len(a) : k \in 1..Len(b)
  BY <1>1
<1>4. Counted(a)
  BY <1>1, <1>2 DEF Counted
<1>5. Once(a)
  BY <1>1, <1>3 DEF Once
<1>6. Accounted(i, a)
  BY <1>1, <1>2 DEF Accounted
<1> QED
  BY <1>4, <1>5, <1>6

LEMMA AgreeHeads ==
    ASSUME NEW T, NEW U, NEW revs \in Seq(T), NEW commits \in Seq(U), Agree(revs, commits),
           NEW a \in Seq(T), NEW c \in Seq(U), Heads(a, revs), Heads(c, commits)
    PROVE  Agree(a, c)
<1>1. /\ Len(a) \in Nat /\ Len(revs) \in Nat /\ Len(a) <= Len(revs)
      /\ Len(c) \in Nat /\ Len(commits) \in Nat /\ Len(c) <= Len(commits)
      /\ \A k \in 1..Len(a) : a[k] = revs[k]
      /\ \A k \in 1..Len(c) : c[k] = commits[k]
  BY DEF Heads
<1>2. ASSUME NEW k \in 1..Len(a), k <= Len(c)
      PROVE  a[k].id = c[k].id
  <2>1. k \in 1..Len(c) /\ k \in 1..Len(revs) /\ k <= Len(commits)
    BY <1>1, <1>2
  <2>2. revs[k].id = commits[k].id
    BY <2>1 DEF Agree
  <2> QED
    BY <1>1, <2>1, <2>2
<1> QED
  BY <1>2 DEF Agree

\* A new revision in front of those of its item.
LEMMA RevsGrow ==
    ASSUME NEW i \in Items, NEW revs \in Seq(RevOf(i)), Counted(revs), Once(revs),
           Accounted(i, revs), NEW rev \in RevOf(i),
           revs # <<>> => rev.num = revs[1].num + 1 /\ Accounts(i, revs[1], rev),
           \A k \in 1..Len(revs) : revs[k].id # rev.id
    PROVE  /\ <<rev>> \o revs \in Seq(RevOf(i))
           /\ Counted(<<rev>> \o revs) /\ Once(<<rev>> \o revs) /\ Accounted(i, <<rev>> \o revs)
<1> DEFINE s == <<rev>> \o revs
<1>1. /\ s \in Seq(RevOf(i)) /\ Len(s) = Len(revs) + 1 /\ Len(revs) \in Nat /\ s[1] = rev
      /\ \A k \in 1..Len(revs) : s[k + 1] = revs[k]
  BY Prepended
<1>2. Len(revs) # 0 => revs # <<>>
  OBVIOUS
<1> HIDE DEF s
<1> DEFINE n == Len(revs)
<1>3. /\ \A k \in 1..Len(revs) : s[k + 1] = revs[k]
      /\ Len(s) = n + 1 /\ n \in Nat /\ s[1] = rev
      /\ \A k \in 1..n - 1 : revs[k].num = revs[k + 1].num + 1 /\ Accounts(i, revs[k + 1], revs[k])
      /\ \A k, l \in 1..n : revs[k].id = revs[l].id => k = l
      /\ n # 0 => rev.num = revs[1].num + 1 /\ Accounts(i, revs[1], rev)
      /\ \A k \in 1..n : revs[k].id # rev.id
  BY <1>1, <1>2 DEF Counted, Once, Accounted
<1> HIDE DEF n
<1>4. ASSUME NEW k \in 1..n
      PROVE  s[k].num = s[k + 1].num + 1 /\ Accounts(i, s[k + 1], s[k])
  <2>1. s[k + 1] = revs[k] /\ n # 0
    BY <1>3 DEF n
  <2>2. CASE k = 1
    BY <1>3, <2>1, <2>2
  <2>3. CASE k # 1
    <3>1. k - 1 \in 1..n - 1 /\ k - 1 \in 1..n /\ (k - 1) + 1 = k
      BY <1>3, <2>3
    <3>2. s[k] = revs[k - 1]
      BY <1>3, <3>1 DEF n
    <3>3. revs[k - 1].num = revs[k].num + 1 /\ Accounts(i, revs[k], revs[k - 1])
      BY <1>3, <3>1
    <3> QED
      BY <2>1, <3>2, <3>3
  <2> QED
    BY <2>2, <2>3
<1>5. ASSUME NEW k \in 1..n + 1, NEW l \in 1..n + 1, s[k].id = s[l].id
      PROVE  k = l
  <2>1. ASSUME NEW m \in 1..n + 1, m # 1
        PROVE  m - 1 \in 1..n /\ s[m] = revs[m - 1]
    <3>1. m - 1 \in 1..n /\ (m - 1) + 1 = m
      BY <1>3, <2>1
    <3> QED
      BY <1>3, <3>1 DEF n
  <2>2. CASE k = 1 \/ l = 1
    BY <1>3, <1>5, <2>1, <2>2
  <2>3. CASE k # 1 /\ l # 1
    <3>1. k - 1 = l - 1
      BY <1>3, <1>5, <2>1, <2>3
    <3> QED
      BY <3>1
  <2> QED
    BY <2>2, <2>3
<1>6. (n + 1) - 1 = n
  BY <1>3
<1> QED
  BY <1>1, <1>3, <1>4, <1>5, <1>6 DEF Counted, Once, Accounted, s

LEMMA UpIs ==
    ASSUME NEW T, NEW s \in Seq(T), NEW n \in Nat
    PROVE  Up(s, n) \in Seq(T) /\ Heads(Up(s, n), s)
<1> DEFINE m == IF Len(s) > n THEN n ELSE Len(s)
<1>1. m \in 0..Len(s) /\ Len(s) \in Nat /\ m \in Nat
  OBVIOUS
<1>2. Up(s, n) = SubSeq(s, 1, m)
  BY DEF Up
<1> HIDE DEF m
<1>3. /\ SubSeq(s, 1, m) \in Seq(T) /\ Len(SubSeq(s, 1, m)) = m
      /\ \A k \in 1..m : SubSeq(s, 1, m)[k] = s[k]
  BY <1>1, HeadIs
<1> QED
  BY <1>1, <1>2, <1>3 DEF Heads

OfItem(i) == {c \in Commit : c.item = i}

LEMMA CommitsOfIs ==
    ASSUME NEW commits \in Seq(Commit), NEW i
    PROVE  CommitsOf(i, commits) = Filtered(commits, OfItem(i)) /\ CommitsOf(i, commits) \in Seq(Commit)
<1> DEFINE a == {c \in Range(commits) : c.item = i}
<1>1. \A k \in 1..Len(commits) : commits[k] \in Commit /\ commits[k] \in Range(commits)
  BY DEF Range
<1>2. \A k \in 1..Len(commits) : commits[k] \in a <=> commits[k] \in OfItem(i)
  BY <1>1 DEF OfItem
<1>3. CommitsOf(i, commits) = Filtered(commits, a)
  BY DEF CommitsOf
<1> HIDE DEF a
<1>4. Filtered(commits, a) = Filtered(commits, OfItem(i))
  BY <1>2, FilteredSame
<1>5. Filtered(commits, a) \in Seq(Commit)
  BY FilteredElements
<1> QED
  BY <1>3, <1>4, <1>5

\* A new commit in front of all others.
LEMMA CommitsGrow ==
    ASSUME NEW commits \in Seq(Commit), NEW c \in Commit, NEW i,
           NEW longer, longer = Up(<<c>> \o commits, MaxCommits)
    PROVE  /\ longer \in Seq(Commit)
           /\ c.item # i => Heads(CommitsOf(i, longer), CommitsOf(i, commits))
           /\ c.item = i => Heads(CommitsOf(i, longer), <<c>> \o CommitsOf(i, commits))
<1> DEFINE s == <<c>> \o commits
           m == IF Len(s) > MaxCommits THEN MaxCommits ELSE Len(s)
<1>1. s \in Seq(Commit)
  BY Prepended
<1>2. Filtered(s, OfItem(i)) = IF c.item = i THEN <<c>> \o CommitsOf(i, commits)
                               ELSE CommitsOf(i, commits)
  <2>1. CommitsOf(i, commits) = Filtered(commits, OfItem(i))
    BY CommitsOfIs
  <2>2. c \in OfItem(i) <=> c.item = i
    BY DEF OfItem
  <2>3. Filtered(s, OfItem(i)) = IF c \in OfItem(i) THEN <<c>> \o Filtered(commits, OfItem(i))
                                 ELSE Filtered(commits, OfItem(i))
    BY FilteredPrepended
  <2> HIDE DEF s
  <2> QED
    BY <2>1, <2>2, <2>3
<1> HIDE DEF s
<1>3. m \in 0..Len(s)
  BY <1>1, LimitAssumption
<1>4. longer = SubSeq(s, 1, m)
  BY DEF Up, s
<1> HIDE DEF m
<1>5. longer \in Seq(Commit)
  BY <1>1, <1>3, <1>4, HeadIs
<1>6. Heads(Filtered(SubSeq(s, 1, m), OfItem(i)), Filtered(s, OfItem(i)))
  BY <1>1, <1>3, FilteredHead
<1>7. CommitsOf(i, longer) = Filtered(SubSeq(s, 1, m), OfItem(i))
  BY <1>4, <1>5, CommitsOfIs
<1> QED
  BY <1>2, <1>5, <1>6, <1>7

\* The revision that is recorded.
NewRev(doc, r, i, body, kind) ==
    LET revs == doc.revs[i]
        change == Change(i, IF revs = <<>> THEN <<>> ELSE Head(revs).body, body)
    IN  [num |-> IF revs = <<>> THEN 1 ELSE Head(revs).num + 1,
         id |-> r, body |-> body, working |-> kind = "create" \/ revs = <<>>,
         added |-> change.added, removed |-> change.removed]

LEMMA NewRevIs ==
    ASSUME NEW d, IsHistory(d), NEW i \in Items, NEW r \in Requests \cup {First},
           NEW body \in Body(i), NEW kind
    PROVE  /\ NewRev(d, r, i, body, kind) \in RevOf(i) /\ NewRev(d, r, i, body, kind).id = r
           /\ d.revs[i] # <<>> =>
                 /\ NewRev(d, r, i, body, kind).num = d.revs[i][1].num + 1
                 /\ Accounts(i, d.revs[i][1], NewRev(d, r, i, body, kind))
<1> DEFINE revs == d.revs[i]
           old == IF revs = <<>> THEN <<>> ELSE Head(revs).body
           num == IF revs = <<>> THEN 1 ELSE Head(revs).num + 1
           change == Change(i, old, body)
           working == kind = "create" \/ revs = <<>>
           rev == NewRev(d, r, i, body, kind)
<1>1. rev = [num |-> num, id |-> r, body |-> body, working |-> working,
             added |-> change.added, removed |-> change.removed]
  BY DEF NewRev
<1>2. revs \in Seq(RevOf(i))
  BY DEF IsHistory
<1>3. revs # <<>> => /\ Head(revs) = revs[1] /\ revs[1] \in RevOf(i)
  BY <1>2
<1>4. revs # <<>> => revs[1].num \in Nat \ {0} /\ revs[1].body \in Body(i)
  BY <1>3 DEF RevOf
<1>5. /\ num \in Nat \ {0}
      /\ revs # <<>> => num = revs[1].num + 1 /\ old = revs[1].body /\ old \in Body(i)
      /\ revs = <<>> => old = <<>>
  <2> HIDE DEF revs
  <2>1. CASE revs = <<>>
    BY <2>1
  <2>2. CASE revs # <<>>
    <3>1. num = revs[1].num + 1 /\ old = revs[1].body
      BY <1>3, <2>2
    <3>2. revs[1].num + 1 \in Nat \ {0} /\ revs[1].body \in Body(i)
      BY <1>4, <2>2
    <3> QED
      BY <2>2, <3>1, <3>2
  <2> QED
    BY <2>1, <2>2
<1>6. working \in BOOLEAN
  OBVIOUS
<1> HIDE DEF working, num, old, revs
<1>7. /\ change.added \in Nat /\ change.removed \in Nat
      /\ i \in Apps \/ (IsInjective(body) /\ IsInjective(old)) =>
            Len(old) - change.removed + change.added = Len(body)
  BY <1>5, ChangeCounted
<1> HIDE DEF change, rev
<1>8. rev \in RevOf(i) /\ rev.id = r /\ rev.num = num
  BY <1>1, <1>5, <1>6, <1>7 DEF RevOf
<1>9. ASSUME revs # <<>>
      PROVE  Accounts(i, revs[1], rev)
  <2>1. rev.body = body /\ rev.added = change.added /\ rev.removed = change.removed
    BY <1>1
  <2> QED
    BY <1>5, <1>7, <1>9, <2>1 DEF Accounts
<1> QED
  BY <1>5, <1>8, <1>9 DEF rev, revs

LEMMA RecordedIs ==
    ASSUME NEW d, IsHistory(d), NEW i \in Items, NEW r \in Requests \cup {First}, NotIn(r, d),
           NEW body \in Body(i), NEW kind
    PROVE  /\ IsHistory(Recorded(d, r, i, body, kind))
           /\ \A s : s # r /\ NotIn(s, d) => NotIn(s, Recorded(d, r, i, body, kind))
<1> DEFINE rev == NewRev(d, r, i, body, kind)
           c == [item |-> i, id |-> r]
           revs == d.revs[i]
           all == <<rev>> \o revs
           newRevs == Up(all, MaxRevisions)
           newCommits == Up(<<c>> \o d.commits, MaxCommits)
           new == Recorded(d, r, i, body, kind)
<1>1. new = [revs |-> [d.revs EXCEPT ![i] = newRevs], commits |-> newCommits]
  BY DEF Recorded, NewRev
<1>2. /\ d.revs \in [Items -> Seq(Rev)] /\ d.commits \in Seq(Commit)
      /\ \A j \in Items :
            /\ d.revs[j] \in Seq(RevOf(j))
            /\ Counted(d.revs[j]) /\ Once(d.revs[j]) /\ Accounted(j, d.revs[j])
            /\ Agree(d.revs[j], CommitsOf(j, d.commits))
  BY DEF IsHistory
<1>3. c \in Commit /\ c.item = i /\ c.id = r
  BY DEF Commit
<1>4. /\ rev \in RevOf(i) /\ rev.id = r
      /\ revs # <<>> => rev.num = revs[1].num + 1 /\ Accounts(i, revs[1], rev)
  BY NewRevIs
<1>5. revs \in Seq(RevOf(i)) /\ \A k \in 1..Len(revs) : revs[k].id # r
  BY <1>2 DEF NotIn
<1> HIDE DEF new, rev, c, revs
<1>6. all \in Seq(RevOf(i)) /\ Counted(all) /\ Once(all) /\ Accounted(i, all)
  <2>1. Counted(revs) /\ Once(revs) /\ Accounted(i, revs)
    BY <1>2 DEF revs
  <2>2. \A k \in 1..Len(revs) : revs[k].id # rev.id
    BY <1>4, <1>5
  <2> QED
    BY <1>4, <1>5, <2>1, <2>2, RevsGrow
<1>7. newRevs \in Seq(RevOf(i)) /\ Heads(newRevs, all)
  <2> HIDE DEF all
  <2> QED
    BY <1>6, LimitAssumption, UpIs
<1>8. /\ newCommits \in Seq(Commit)
      /\ \A j : c.item # j => Heads(CommitsOf(j, newCommits), CommitsOf(j, d.commits))
      /\ \A j : c.item = j => Heads(CommitsOf(j, newCommits), <<c>> \o CommitsOf(j, d.commits))
  BY <1>2, <1>3, CommitsGrow
<1>9. /\ all \in Seq(RevOf(i)) /\ Len(all) = Len(revs) + 1 /\ Len(revs) \in Nat /\ all[1] = rev
      /\ \A k \in 1..Len(revs) : all[k + 1] = revs[k]
  BY <1>4, <1>5, Prepended
<1> HIDE DEF all, newCommits, newRevs
<1>10. /\ new.commits = newCommits /\ new.revs[i] = newRevs
       /\ \A j \in Items : j # i => new.revs[j] = d.revs[j]
  BY <1>1, <1>2
<1>11. new \in [revs : [Items -> Seq(Rev)], commits : Seq(Commit)]
  <2>1. newRevs \in Seq(Rev)
    BY <1>7, RevIs
  <2>2. [d.revs EXCEPT ![i] = newRevs] \in [Items -> Seq(Rev)]
    BY <1>2, <2>1
  <2> QED
    BY <1>1, <1>8, <2>2
<1>12. Agree(all, <<c>> \o CommitsOf(i, d.commits))
  <2> DEFINE old == CommitsOf(i, d.commits)
             s == <<c>> \o old
  <2>1. old \in Seq(Commit) /\ Agree(revs, old)
    BY <1>2, CommitsOfIs DEF revs
  <2> HIDE DEF old
  <2>2. /\ s \in Seq(Commit) /\ Len(s) = Len(old) + 1 /\ Len(old) \in Nat /\ s[1] = c
        /\ \A k \in 1..Len(old) : s[k + 1] = old[k]
    BY <1>3, <2>1, Prepended
  <2> HIDE DEF s
  <2>3. ASSUME NEW k \in 1..Len(all), k <= Len(s)
        PROVE  all[k].id = s[k].id
    <3>1. CASE k = 1
      BY <1>3, <1>4, <1>9, <2>2, <3>1
    <3>2. CASE k # 1
      <4>1. k - 1 \in 1..Len(revs) /\ k - 1 \in 1..Len(old) /\ k - 1 <= Len(old) /\ (k - 1) + 1 = k
        BY <1>9, <2>2, <2>3, <3>2
      <4>2. all[k] = revs[k - 1] /\ s[k] = old[k - 1]
        BY <1>9, <2>2, <4>1
      <4>3. revs[k - 1].id = old[k - 1].id
        BY <2>1, <4>1 DEF Agree
      <4> QED
        BY <4>2, <4>3
    <3> QED
      BY <3>1, <3>2
  <2> QED
    BY <2>3 DEF Agree, s, old
<1>13. ASSUME NEW j \in Items
       PROVE  /\ new.revs[j] \in Seq(RevOf(j))
              /\ Counted(new.revs[j]) /\ Once(new.revs[j]) /\ Accounted(j, new.revs[j])
              /\ Agree(new.revs[j], CommitsOf(j, new.commits))
  <2>1. CommitsOf(j, d.commits) \in Seq(Commit) /\ CommitsOf(j, newCommits) \in Seq(Commit)
    BY <1>2, <1>8, CommitsOfIs
  <2>2. CASE j = i
    <3>1. Counted(newRevs) /\ Once(newRevs) /\ Accounted(i, newRevs)
      BY <1>6, <1>7, HeadKeeps
    <3>2. <<c>> \o CommitsOf(i, d.commits) \in Seq(Commit)
      BY <1>3, <2>1, <2>2, Prepended
    <3>3. Heads(CommitsOf(i, newCommits), <<c>> \o CommitsOf(i, d.commits))
      BY <1>3, <1>8
    <3>4. CommitsOf(i, newCommits) \in Seq(Commit)
      BY <2>1, <2>2
    <3> DEFINE longer == <<c>> \o CommitsOf(i, d.commits)
    <3>5. longer \in Seq(Commit) /\ Agree(all, longer) /\ Heads(CommitsOf(i, newCommits), longer)
      BY <1>12, <3>2, <3>3
    <3> HIDE DEF longer
    <3>6. Agree(newRevs, CommitsOf(i, newCommits))
      BY <1>7, <1>9, <3>4, <3>5, AgreeHeads
    <3> QED
      BY <1>7, <1>10, <2>2, <3>1, <3>6
  <2>3. CASE j # i
    <3>1. d.revs[j] \in Seq(RevOf(j)) /\ Heads(d.revs[j], d.revs[j])
      BY <1>2 DEF Heads
    <3>2. Heads(CommitsOf(j, newCommits), CommitsOf(j, d.commits))
      BY <1>3, <1>8, <2>3
    <3>3. Agree(d.revs[j], CommitsOf(j, newCommits))
      BY <1>2, <2>1, <3>1, <3>2, AgreeHeads
    <3> QED
      BY <1>2, <1>10, <2>3, <3>3
  <2> QED
    BY <2>2, <2>3
<1>14. IsHistory(new)
  BY <1>11, <1>13 DEF IsHistory
<1>15. ASSUME NEW s, s # r, NotIn(s, d)
       PROVE  NotIn(s, new)
  <2> SUFFICES ASSUME NEW j \in Items, NEW k \in 1..Len(new.revs[j])
               PROVE  new.revs[j][k].id # s
    BY DEF NotIn
  <2>1. CASE j # i
    BY <1>10, <1>15, <2>1 DEF NotIn
  <2>2. CASE j = i
    <3>1. k \in 1..Len(newRevs) /\ new.revs[j][k] = newRevs[k]
      BY <1>10, <2>2
    <3>2. newRevs[k] = all[k] /\ k \in 1..Len(all)
      BY <1>7, <1>9, <3>1 DEF Heads
    <3>3. CASE k = 1
      BY <1>4, <1>9, <1>15, <3>1, <3>2, <3>3
    <3>4. CASE k # 1
      <4>1. k - 1 \in 1..Len(revs) /\ (k - 1) + 1 = k
        BY <1>9, <3>2, <3>4
      <4>2. all[k] = revs[k - 1] /\ revs[k - 1].id # s
        BY <1>9, <1>15, <4>1 DEF NotIn, revs
      <4> QED
        BY <3>1, <3>2, <4>2
    <3> QED
      BY <3>3, <3>4
  <2> QED
    BY <2>1, <2>2
<1> QED
  BY <1>14, <1>15 DEF new

LEMMA FoundIs ==
    ASSUME NEW d, IsHistory(d), NEW op, op.item \in Items, FindRev(d, op) # {}
    PROVE  /\ Min(FindRev(d, op)) \in 1..Len(d.revs[op.item])
           /\ d.revs[op.item][Min(FindRev(d, op))].body \in Body(op.item)
<1> DEFINE found == FindRev(d, op)
           revs == d.revs[op.item]
<1>1. revs \in Seq(RevOf(op.item))
  BY DEF IsHistory
<1>2. found \subseteq 1..Len(revs)
  BY <1>1 DEF FindRev
<1> HIDE DEF found
<1>3. found # {}
  BY DEF found
<1> HIDE DEF revs
<1>4. found \in SUBSET Nat
  BY <1>2
<1>5. \E n \in found : \A m \in found : n <= m
  BY <1>3, <1>4, Least
<1>6. Min(found) \in found
  BY <1>5 DEF Min
<1>7. Min(found) \in 1..Len(revs)
  BY <1>2, <1>6
<1>8. revs[Min(found)] \in RevOf(op.item)
  BY <1>1, <1>7
<1> QED
  BY <1>7, <1>8 DEF RevOf, found, revs

LEMMA ToggledIs ==
    ASSUME NEW d, IsHistory(d), NEW i \in Items, NEW k \in 1..Len(d.revs[i])
    PROVE  IsHistory(Toggled(d, i, k)) /\ \A s : NotIn(s, d) => NotIn(s, Toggled(d, i, k))
<1> DEFINE revs == d.revs[i]
           rev == [revs[k] EXCEPT !.working = ~revs[k].working]
           newRevs == [revs EXCEPT ![k] = rev]
           new == Toggled(d, i, k)
<1>1. /\ d \in [revs : [Items -> Seq(Rev)], commits : Seq(Commit)]
      /\ \A j \in Items :
            /\ d.revs[j] \in Seq(RevOf(j))
            /\ Counted(d.revs[j]) /\ Once(d.revs[j]) /\ Accounted(j, d.revs[j])
            /\ Agree(d.revs[j], CommitsOf(j, d.commits))
  BY DEF IsHistory
<1>2. new = [d EXCEPT !.revs = [d.revs EXCEPT ![i] = newRevs]]
  BY DEF Toggled
<1>3. revs \in Seq(RevOf(i)) /\ revs[k] \in RevOf(i)
  BY <1>1
<1>4. /\ rev \in RevOf(i) /\ rev.num = revs[k].num /\ rev.id = revs[k].id
      /\ rev.body = revs[k].body /\ rev.added = revs[k].added /\ rev.removed = revs[k].removed
  BY <1>3 DEF RevOf
<1> HIDE DEF rev, new
<1>5. newRevs \in Seq(RevOf(i)) /\ Len(newRevs) = Len(revs)
  BY <1>3, <1>4
<1>6. \A m \in 1..Len(revs) : newRevs[m] = IF m = k THEN rev ELSE revs[m]
  BY <1>3
<1> HIDE DEF newRevs, revs
<1>7. ASSUME NEW m \in 1..Len(revs)
      PROVE  /\ newRevs[m].num = revs[m].num /\ newRevs[m].id = revs[m].id
             /\ newRevs[m].body = revs[m].body
             /\ newRevs[m].added = revs[m].added /\ newRevs[m].removed = revs[m].removed
  BY <1>4, <1>6
<1>8. newRevs \in Seq(Rev)
  BY <1>5, RevIs
<1>9. /\ new.commits = d.commits /\ new.revs[i] = newRevs
      /\ \A j \in Items : j # i => new.revs[j] = d.revs[j]
      /\ new \in [revs : [Items -> Seq(Rev)], commits : Seq(Commit)]
  BY <1>1, <1>2, <1>8
<1>10. /\ Counted(newRevs) /\ Once(newRevs) /\ Accounted(i, newRevs)
       /\ Agree(newRevs, CommitsOf(i, d.commits))
  <2>1. /\ Counted(revs) /\ Once(revs) /\ Accounted(i, revs)
        /\ Agree(revs, CommitsOf(i, d.commits))
    BY <1>1 DEF revs
  <2>2. Len(revs) \in Nat
    BY <1>3
  <2>3. \A m \in 1..Len(revs) - 1 : m \in 1..Len(revs) /\ m + 1 \in 1..Len(revs)
    BY <2>2
  <2>4. Counted(newRevs)
    BY <1>5, <1>7, <2>1, <2>3 DEF Counted
  <2>5. Once(newRevs)
    BY <1>5, <1>7, <2>1 DEF Once
  <2>6. Accounted(i, newRevs)
    BY <1>5, <1>7, <2>1, <2>3 DEF Accounted, Accounts
  <2>7. Agree(newRevs, CommitsOf(i, d.commits))
    BY <1>5, <1>7, <2>1 DEF Agree
  <2> QED
    BY <2>4, <2>5, <2>6, <2>7
<1>11. IsHistory(new)
  <2>1. ASSUME NEW j \in Items
        PROVE  /\ new.revs[j] \in Seq(RevOf(j))
               /\ Counted(new.revs[j]) /\ Once(new.revs[j]) /\ Accounted(j, new.revs[j])
               /\ Agree(new.revs[j], CommitsOf(j, new.commits))
    <3>1. CASE j = i
      BY <1>5, <1>9, <1>10, <3>1
    <3>2. CASE j # i
      BY <1>1, <1>9, <3>2
    <3> QED
      BY <3>1, <3>2
  <2> QED
    BY <1>9, <2>1 DEF IsHistory
<1>12. ASSUME NEW s, NotIn(s, d)
       PROVE  NotIn(s, new)
  <2> SUFFICES ASSUME NEW j \in Items, NEW m \in 1..Len(new.revs[j])
               PROVE  new.revs[j][m].id # s
    BY DEF NotIn
  <2>1. CASE j = i
    BY <1>5, <1>7, <1>9, <1>12, <2>1 DEF NotIn, revs
  <2>2. CASE j # i
    BY <1>9, <1>12, <2>2 DEF NotIn
  <2> QED
    BY <2>1, <2>2
<1> QED
  BY <1>11, <1>12 DEF new

-------------------------------------------------------------------------------
(* The objects in memory. *)

LEMMA SoundLess ==
    ASSUME NEW map \in Maps, NEW d, NEW all, NEW some, some \subseteq all
    PROVE  /\ Sound(map, d, all) => Sound(map, d, some)
           /\ Kept(map, d, all) => Kept(map, d, some)
BY DEF Sound, Kept

LEMMA SoundIs ==
    ASSUME NEW map \in Maps, NEW d, NEW set
    PROVE  /\ Sound(map, d, set) => d \in Docs /\ Kept(map, d, set)
           /\ Kept(map, d, set) => d \in Docs
           /\ Kept(map, NoDoc, set) /\ NoDoc \in Docs
           /\ map = "catalog" => (Sound(map, d, set) <=> IsCatalog(d))
           /\ map = "history" => (Sound(map, d, set) <=> IsHistory(d) /\ \A r \in set : NotIn(r, d))
<1>1. map = "catalog" => (Sound(map, d, set) <=> IsCatalog(d))
  BY DEF Sound
<1>2. map = "history" => (Sound(map, d, set) <=> IsHistory(d) /\ \A r \in set : NotIn(r, d))
  BY DEF Sound
<1>3. (IsCatalog(d) => d \in Docs) /\ (IsHistory(d) => d \in Docs)
  BY DEF IsCatalog, IsHistory, Docs
<1>4. NoDoc \in Docs
  BY DEF Docs
<1> QED
  BY <1>1, <1>2, <1>3, <1>4 DEF Kept, Maps

\* The objects of a heap that are catalogs, and those that are histories.
World(h, C, H, set) ==
    /\ h \in Seq(Docs)
    /\ \A c \in C : c \in 1..Len(h) /\ Sound("catalog", h[c], set)
    /\ \A c \in H : c \in 1..Len(h) /\ Sound("history", h[c], set)
    /\ C \cap H = {}

LEMMA WorldLess ==
    ASSUME NEW h, NEW C, NEW H, NEW set, World(h, C, H, set),
           NEW some, some \subseteq set
    PROVE  World(h, C, H, some)
<1>1. "catalog" \in Maps /\ "history" \in Maps
  BY DEF Maps
<1> QED
  BY <1>1, SoundLess DEF World

LEMMA WorldEdited ==
    ASSUME NEW h, NEW C, NEW H, NEW set, World(h, C, H, set), NEW d, NEW o,
           \/ o \in C /\ Sound("catalog", d, set)
           \/ o \in H /\ Sound("history", d, set)
    PROVE  /\ World([h EXCEPT ![o] = d], C, H, set) /\ Len([h EXCEPT ![o] = d]) = Len(h)
           /\ [h EXCEPT ![o] = d][o] = d
<1> DEFINE g == [h EXCEPT ![o] = d]
<1>1. d \in Docs /\ o \in 1..Len(h) /\ h \in Seq(Docs)
  BY SoundIs DEF World, Maps
<1>2. g \in Seq(Docs) /\ Len(g) = Len(h) /\ g[o] = d /\ \A c \in 1..Len(h) : c # o => g[c] = h[c]
  BY <1>1
<1> HIDE DEF g
<1>3. World(g, C, H, set)
  BY <1>1, <1>2 DEF World
<1> QED
  BY <1>2, <1>3 DEF g

LEMMA WorldGrown ==
    ASSUME NEW h, NEW C, NEW H, NEW set, World(h, C, H, set), NEW d
    PROVE  /\ Sound("catalog", d, set) => World(Append(h, d), C \cup {Len(h) + 1}, H, set)
           /\ Sound("history", d, set) => World(Append(h, d), C, H \cup {Len(h) + 1}, set)
           /\ d \in Docs => Len(Append(h, d)) = Len(h) + 1 /\ Append(h, d)[Len(h) + 1] = d
           /\ Len(h) \in Nat
<1> DEFINE g == Append(h, d)
           n == Len(h)
<1>1. h \in Seq(Docs) /\ n \in Nat
  BY DEF World
<1>2. d \in Docs => g \in Seq(Docs) /\ Len(g) = n + 1 /\ g[n + 1] = d /\ \A c \in 1..n : g[c] = h[c]
  BY <1>1
<1>3. Sound("catalog", d, set) \/ Sound("history", d, set) => d \in Docs
  BY SoundIs DEF Maps
<1>4. \A c \in C \cup H : c \in 1..n
  BY DEF World
<1> HIDE DEF g, n
<1>5. n + 1 \notin C \cup H /\ \A c \in 1..n : c \in 1..n + 1
  BY <1>1, <1>4
<1>6. n + 1 \in 1..n + 1
  BY <1>1
<1>7. World(h, C, H, set) /\ n = Len(h)
  BY DEF n
<1>8. ASSUME Sound("catalog", d, set)
      PROVE  World(g, C \cup {n + 1}, H, set)
  BY <1>2, <1>3, <1>5, <1>6, <1>7, <1>8 DEF World
<1>9. ASSUME Sound("history", d, set)
      PROVE  World(g, C, H \cup {n + 1}, set)
  BY <1>2, <1>3, <1>5, <1>6, <1>7, <1>9 DEF World
<1> QED
  BY <1>1, <1>2, <1>8, <1>9 DEF g, n

-------------------------------------------------------------------------------
(* The step of one request: r goes on as q, beside a heap h of which C are now   *)
(* catalogs and H histories, while the requests of set have yet to record.      *)

Scene(r, h, C, H, set) ==
    /\ World(h, C, H, set) /\ Len(heap) <= Len(h)
    /\ CatalogCells \subseteq C /\ HistoryCells \subseteq H
    /\ set \subseteq Silents /\ Silents \ {r} \subseteq set

Turn(r, q, h, C, H, set) ==
    /\ Scene(r, h, C, H, set)
    /\ q \in Request /\ Carries(q, set) /\ q.cell <= Len(h)
    /\ Saves(q, "catalog") => q.cell \in C
    /\ Saves(q, "history") => q.cell \in H
    /\ Silent(q) => r \in set

CatalogCaches(C) == [cell : C \cup {0}, isDefault : BOOLEAN, fresh : BOOLEAN]
HistoryCaches(H) == [cell : H \cup {0}, fresh : BOOLEAN]

LEMMA CellsAre ==
    /\ CatalogCells = {dflt} \cup ({catalogCache.cell} \ {0})
           \cup {req[r].cell : r \in {s \in Requests : Saves(req[s], "catalog")}}
    /\ HistoryCells = ({vcsCache.cell} \ {0})
           \cup {req[r].cell : r \in {s \in Requests : Saves(req[s], "history")}}
BY DEF CatalogCells, HistoryCells

LEMMA SceneIs ==
    ASSUME Inv, NEW r \in Requests
    PROVE  /\ Scene(r, heap, CatalogCells, HistoryCells, Silents)
           /\ Scene(r, heap, CatalogCells, HistoryCells, Silents \ {r})
           /\ catalogCache \in CatalogCaches(CatalogCells)
           /\ vcsCache \in HistoryCaches(HistoryCells)
           /\ dflt \in CatalogCells /\ req[r] \in Request
<1>1. World(heap, CatalogCells, HistoryCells, Silents)
  <2>1. "catalog" \in Maps /\ "history" \in Maps
    BY DEF Maps
  <2>2. Cells("catalog") = CatalogCells /\ Cells("history") = HistoryCells
    BY DEF Cells
  <2> QED
    BY <2>1, <2>2 DEF Inv, Held, Typed, World
<1>2. Len(heap) <= Len(heap)
  BY DEF Inv, Typed
<1>3. Scene(r, heap, CatalogCells, HistoryCells, Silents)
  BY <1>1, <1>2 DEF Scene
<1>4. Scene(r, heap, CatalogCells, HistoryCells, Silents \ {r})
  BY <1>1, <1>2, WorldLess DEF Scene
<1>5. /\ catalogCache.cell \in CatalogCells \cup {0} /\ vcsCache.cell \in HistoryCells \cup {0}
      /\ dflt \in CatalogCells
  BY CellsAre
<1>6. /\ catalogCache \in [cell : 0..Len(heap), isDefault : BOOLEAN, fresh : BOOLEAN]
      /\ vcsCache \in [cell : 0..Len(heap), fresh : BOOLEAN] /\ req[r] \in Request
  BY DEF Inv, Typed
<1>7. catalogCache \in CatalogCaches(CatalogCells)
  BY <1>5, <1>6 DEF CatalogCaches
<1>8. vcsCache \in HistoryCaches(HistoryCells)
  BY <1>5, <1>6 DEF HistoryCaches
<1> QED
  BY <1>3, <1>4, <1>5, <1>6, <1>7, <1>8

LEMMA CarriesLess ==
    ASSUME NEW q \in Request, NEW all, NEW some, some \subseteq all, Carries(q, all)
    PROVE  Carries(q, some)
<1>1. q.map \in Maps
  BY DEF Request
<1> QED
  BY <1>1, SoundLess DEF Carries

\* What a step of r has to keep, and then keeps everything.
LEMMA Follow ==
    ASSUME Inv, NEW r \in Requests, NEW q, NEW C, NEW H, NEW set,
           Turn(r, q, heap', C, H, set), req' = [req EXCEPT ![r] = q],
           calm' = calm, faults' \in 0..MaxFaults,
           stored' \in [Maps -> Docs], \A map \in Maps : Kept(map, stored'[map], set),
           dflt' \in C, catalogCache' \in CatalogCaches(C), vcsCache' \in HistoryCaches(H)
    PROVE  Inv'
<1>1. /\ World(heap', C, H, set) /\ Len(heap) <= Len(heap')
      /\ CatalogCells \subseteq C /\ HistoryCells \subseteq H
      /\ set \subseteq Silents /\ Silents \ {r} \subseteq set
      /\ q \in Request /\ Carries(q, set) /\ q.cell <= Len(heap')
      /\ Saves(q, "catalog") => q.cell \in C
      /\ Saves(q, "history") => q.cell \in H
      /\ Silent(q) => r \in set
  BY DEF Turn, Scene
<1>2. /\ calm \in BOOLEAN /\ req \in [Requests -> Request]
      /\ heap \in Seq(Docs) /\ \A s \in Requests : req[s].cell <= Len(heap)
      /\ \A s \in Requests : Carries(req[s], Silents)
  BY DEF Inv, Typed
<1>3. /\ req' \in [Requests -> Request] /\ req'[r] = q
      /\ \A s \in Requests : s # r => req'[s] = req[s]
  BY <1>1, <1>2
<1>4. heap' \in Seq(Docs) /\ Len(heap') \in Nat /\ Len(heap) \in Nat
  BY <1>1, <1>2 DEF World
<1>5. Silents' \subseteq set
  <2> SUFFICES ASSUME NEW s \in Requests, Silent(req'[s]) PROVE s \in set
    BY DEF Silents
  <2>1. CASE s = r
    BY <1>1, <1>3, <2>1
  <2>2. CASE s # r
    <3>1. s \in Silents
      BY <1>3, <2>2 DEF Silents
    <3> QED
      BY <1>1, <2>2, <3>1
  <2> QED
    BY <2>1, <2>2
<1>6. ASSUME NEW s \in Requests
      PROVE  Carries(req'[s], Silents')
  <2>1. CASE s = r
    BY <1>1, <1>3, <1>5, <2>1, CarriesLess
  <2>2. CASE s # r
    <3>1. Carries(req[s], Silents) /\ Silents' \subseteq Silents /\ req[s] \in Request
      BY <1>1, <1>2, <1>5
    <3>2. Carries(req[s], Silents')
      BY <3>1, CarriesLess
    <3> QED
      BY <1>3, <2>2, <3>2
  <2> QED
    BY <2>1, <2>2
<1>7. \A c \in C \cup H : c \in 1..Len(heap')
  BY <1>1 DEF World
<1>8. /\ catalogCache' \in [cell : 0..Len(heap'), isDefault : BOOLEAN, fresh : BOOLEAN]
      /\ vcsCache' \in [cell : 0..Len(heap'), fresh : BOOLEAN]
  <2>1. C \cup {0} \subseteq 0..Len(heap') /\ H \cup {0} \subseteq 0..Len(heap')
    BY <1>4, <1>7
  <2> QED
    BY <2>1 DEF CatalogCaches, HistoryCaches
<1>9. ASSUME NEW s \in Requests
      PROVE  /\ req'[s].cell <= Len(heap')
             /\ Saves(req'[s], "catalog") => req'[s].cell \in C
             /\ Saves(req'[s], "history") => req'[s].cell \in H
  <2>1. CASE s = r
    BY <1>1, <1>3, <2>1
  <2>2. CASE s # r
    <3>1. req[s].cell \in Nat /\ req[s].cell <= Len(heap)
      BY <1>2 DEF Request
    <3>2. req[s].cell <= Len(heap')
      BY <1>1, <1>4, <3>1
    <3>3. /\ Saves(req[s], "catalog") => req[s].cell \in CatalogCells
          /\ Saves(req[s], "history") => req[s].cell \in HistoryCells
      BY CellsAre
    <3> QED
      BY <1>1, <1>3, <2>2, <3>2, <3>3
  <2> QED
    BY <2>1, <2>2
<1>10. CatalogCells' \subseteq C
  <2>1. catalogCache'.cell \in C \cup {0}
    BY DEF CatalogCaches
  <2>2. CatalogCells' = {dflt'} \cup ({catalogCache'.cell} \ {0})
           \cup {req'[s].cell : s \in {t \in Requests : Saves(req'[t], "catalog")}}
    BY DEF CatalogCells, Saves
  <2> QED
    BY <1>9, <2>1, <2>2
<1>11. HistoryCells' \subseteq H
  <2>1. vcsCache'.cell \in H \cup {0}
    BY DEF HistoryCaches
  <2>2. HistoryCells' = ({vcsCache'.cell} \ {0})
           \cup {req'[s].cell : s \in {t \in Requests : Saves(req'[t], "history")}}
    BY DEF HistoryCells, Saves
  <2> QED
    BY <1>9, <2>1, <2>2
<1>12. World(heap', C, H, Silents')
  BY <1>1, <1>5, WorldLess
<1>13. Held'
  <2>1. CatalogCells' \cap HistoryCells' = {}
    BY <1>10, <1>11, <1>12 DEF World
  <2>2. \A c \in CatalogCells' : c \in 1..Len(heap') /\ Sound("catalog", heap'[c], Silents')
    BY <1>10, <1>12 DEF World
  <2>3. \A c \in HistoryCells' : c \in 1..Len(heap') /\ Sound("history", heap'[c], Silents')
    BY <1>11, <1>12 DEF World
  <2> QED
    BY <2>1, <2>2, <2>3 DEF Held, Cells, Maps
<1>14. \A map \in Maps : Kept(map, stored'[map], Silents')
  BY <1>5, SoundLess
<1>15. Typed'
  BY <1>2, <1>3, <1>4, <1>8, <1>9 DEF Typed
<1> QED
  BY <1>6, <1>13, <1>14, <1>15 DEF Inv

\* How a request goes on: it ends, it makes a call, it begins a save.
LEMMA DoneIs ==
    ASSUME NEW set
    PROVE  /\ Idle \in Request /\ Carries(Idle, set) /\ ~Saves(Idle, "catalog") /\ ~Saves(Idle, "history")
           /\ Done \in Request /\ Carries(Done, set) /\ ~Saves(Done, "catalog") /\ ~Saves(Done, "history")
           /\ Done.cell = 0 /\ Idle.cell = 0 /\ ~Silent(Done) /\ Silent(Idle)
<1>1. AnItem \in Items
  BY ItemAssumption DEF AnItem, Items
<1>2. [kind |-> "clear", item |-> AnItem, body |-> Absent, num |-> 0] \in
          [kind : Kinds, item : Items, body : Bodies \cup {Absent}, num : Asked \cup {0}]
  BY <1>1 DEF Kinds
<1>3. NoDoc \in Docs /\ "catalog" \in Maps
  BY DEF Docs, Maps
<1>4. Idle \in Request
  BY <1>2, <1>3 DEF Idle, Ask, Request
<1>5. Done = [step |-> "done", call |-> "none", map |-> "catalog", cell |-> 0,
              text |-> NoDoc, answer |-> "none", got |-> NoDoc,
              op |-> Ask("clear", AnItem, Absent, 0)]
  BY DEF Done, Idle
<1>6. Done \in Request
  BY <1>2, <1>3, <1>5 DEF Ask, Request
<1>7. Carries(Idle, set)
  BY DEF Idle, Carries, Calls, Brings, Kept
<1>8. Carries(Done, set)
  BY <1>5 DEF Carries, Calls, Brings, Kept
<1>9. /\ ~Saves(Idle, "catalog") /\ ~Saves(Idle, "history") /\ Idle.cell = 0 /\ Silent(Idle)
  BY DEF Idle, Saves, Silent
<1>10. ~Saves(Done, "catalog") /\ ~Saves(Done, "history") /\ Done.cell = 0 /\ ~Silent(Done)
  BY <1>5 DEF Saves, Silent
<1> QED
  BY <1>4, <1>6, <1>7, <1>8, <1>9, <1>10

LEMMA TurnDone ==
    ASSUME NEW r, NEW h, NEW C, NEW H, NEW set, Scene(r, h, C, H, set)
    PROVE  Turn(r, Done, h, C, H, set)
<1>1. Len(h) \in Nat
  BY DEF Scene, World
<1> QED
  BY <1>1, DoneIs DEF Turn

LEMMA CallIs ==
    ASSUME NEW q \in Request, NEW map \in Maps, NEW call \in {"get", "check"},
           NEW p, p = Call(q, call, map)
    PROVE  /\ p \in Request /\ p.call = call /\ p.map = map /\ p.answer = "none" /\ p.got = NoDoc
           /\ p.step = q.step /\ p.cell = q.cell /\ p.text = q.text /\ p.op = q.op
<1>1. NoDoc \in Docs
  BY DEF Docs
<1> QED
  BY <1>1 DEF Call, Request

LEMMA TurnCall ==
    ASSUME NEW r, NEW h, NEW C, NEW H, NEW set, Scene(r, h, C, H, set), r \in set,
           NEW q \in Request, q.cell <= Len(h), NEW step, NEW map,
           \/ /\ step = "look" /\ map = "history" /\ q.op.kind \in {"rollback", "toggle"}
           \/ /\ step = "record" /\ map = "history" /\ q.op.kind \in Bringing
              /\ q.op.body \in Body(q.op.item)
           \/ /\ step = "read" /\ map = "catalog" /\ q.op.kind \in {"save", "delete", "rollback"}
              /\ q.op.kind \in Bringing => q.op.body \in Body(q.op.item)
    PROVE  Turn(r, Call([q EXCEPT !.step = step], "get", map), h, C, H, set)
<1> DEFINE q1 == [q EXCEPT !.step = step]
           p == Call(q1, "get", map)
<1>1. q1 \in Request /\ q1.step = step /\ q1.cell = q.cell /\ q1.op = q.op
  BY DEF Request
<1> HIDE DEF q1
<1>2. map \in Maps
  BY DEF Maps
<1>3. /\ p \in Request /\ p.step = step /\ p.call = "get" /\ p.map = map /\ p.cell = q.cell
      /\ p.got = NoDoc /\ p.op = q.op
  BY <1>1, <1>2, CallIs
<1> HIDE DEF p
<1>4. Calls(p)
  BY <1>3 DEF Calls
<1>5. Brings(p)
  BY <1>3 DEF Brings
<1>6. Carries(p, set) /\ ~Saves(p, "catalog") /\ ~Saves(p, "history")
  BY <1>3, <1>4, <1>5 DEF Carries, Kept, Saves
<1> QED
  BY <1>3, <1>6 DEF Turn, p, q1

Going(r, h, C, H, set) == \E q : req' = [req EXCEPT ![r] = q] /\ Turn(r, q, h, C, H, set)

LEMMA SavingIs ==
    ASSUME NEW r, NEW h, NEW C, NEW H, NEW set, Scene(r, h, C, H, set),
           NEW q \in Request, NEW map, NEW cell, Saving(r, q, map, cell, h),
           \/ /\ map = "catalog" /\ cell \in C /\ r \in set /\ q.op.kind # "toggle"
              /\ q.op.kind \in Bringing => q.op.body \in Body(q.op.item)
           \/ map = "history" /\ cell \in H
    PROVE  Going(r, heap', C, H, set)
<1> DEFINE q1 == [q EXCEPT !.step = "check", !.cell = cell, !.text = h[cell]]
           p == Call(q1, "check", map)
<1>1. heap' = h /\ req' = [req EXCEPT ![r] = p]
  BY DEF Saving
<1>2. map \in Maps /\ cell \in 1..Len(h) /\ Sound(map, h[cell], set) /\ Len(h) \in Nat
  BY DEF Scene, World, Maps
<1>3. h[cell] \in Docs /\ cell \in Nat
  BY <1>2, SoundIs
<1> DEFINE text == h[cell]
<1> HIDE DEF text
<1>4. [q EXCEPT !.step = "check", !.cell = cell, !.text = text] \in Request
  BY <1>3 DEF Request, text
<1>5. q1 \in Request /\ q1.step = "check" /\ q1.cell = cell /\ q1.op = q.op /\ q1.text = h[cell]
  BY <1>4 DEF Request, text
<1> HIDE DEF q1
<1>6. /\ p \in Request /\ p.step = "check" /\ p.call = "check" /\ p.map = map /\ p.cell = cell
      /\ p.got = NoDoc /\ p.op = q.op /\ p.text = h[cell]
  BY <1>2, <1>5, CallIs
<1> HIDE DEF p
<1>7. Calls(p) /\ Brings(p)
  BY <1>6 DEF Calls, Brings
<1>8. Carries(p, set)
  BY <1>2, <1>6, <1>7 DEF Carries, Kept
<1>9. /\ Saves(p, "catalog") => p.cell \in C
      /\ Saves(p, "history") => p.cell \in H
      /\ Silent(p) => r \in set
  BY <1>6 DEF Saves, Silent
<1>10. Turn(r, p, h, C, H, set)
  BY <1>2, <1>6, <1>8, <1>9 DEF Turn
<1> QED
  BY <1>1, <1>10 DEF Going

LEMMA SceneEdited ==
    ASSUME NEW r, NEW h, NEW C, NEW H, NEW set, Scene(r, h, C, H, set), NEW d, NEW o,
           \/ o \in C /\ Sound("catalog", d, set)
           \/ o \in H /\ Sound("history", d, set)
    PROVE  /\ Scene(r, [h EXCEPT ![o] = d], C, H, set)
           /\ Len([h EXCEPT ![o] = d]) = Len(h) /\ [h EXCEPT ![o] = d][o] = d
<1>1. World(h, C, H, set)
  BY DEF Scene
<1>2. /\ World([h EXCEPT ![o] = d], C, H, set) /\ Len([h EXCEPT ![o] = d]) = Len(h)
      /\ [h EXCEPT ![o] = d][o] = d
  BY <1>1, WorldEdited
<1> QED
  BY <1>2 DEF Scene

LEMMA SceneGrown ==
    ASSUME Inv, NEW r, NEW h, NEW C, NEW H, NEW set, Scene(r, h, C, H, set), NEW d
    PROVE  /\ Sound("catalog", d, set) => Scene(r, Append(h, d), C \cup {Len(h) + 1}, H, set)
           /\ Sound("history", d, set) => Scene(r, Append(h, d), C, H \cup {Len(h) + 1}, set)
           /\ d \in Docs => Len(Append(h, d)) = Len(h) + 1 /\ Append(h, d)[Len(h) + 1] = d
<1>1. World(h, C, H, set) /\ Len(h) \in Nat
  BY DEF Scene, World
<1>2. /\ Sound("catalog", d, set) => World(Append(h, d), C \cup {Len(h) + 1}, H, set)
      /\ Sound("history", d, set) => World(Append(h, d), C, H \cup {Len(h) + 1}, set)
      /\ d \in Docs => Len(Append(h, d)) = Len(h) + 1 /\ Append(h, d)[Len(h) + 1] = d
  BY <1>1, WorldGrown
<1>3. Sound("catalog", d, set) \/ Sound("history", d, set) => d \in Docs
  BY SoundIs DEF Maps
<1> DEFINE n == Len(h)
           g == Append(h, d)
           m == Len(heap)
<1>4. n \in Nat /\ m \in Nat /\ m <= n /\ (d \in Docs => Len(g) = n + 1)
  BY <1>1, <1>2 DEF Scene, Inv, Typed
<1>5. d \in Docs => m <= Len(g)
  <2> HIDE DEF n, m, g
  <2> QED
    BY <1>4
<1> QED
  BY <1>2, <1>3, <1>5 DEF Scene

Turned(r, H, set) ==
    \E C : Going(r, heap', C, H, set) /\ dflt' \in C /\ catalogCache' \in CatalogCaches(C)

\* A request that may bring a body brings one of its item.
MayBring(q) == q.op.kind \in Bringing => q.op.body \in Body(q.op.item)

LEMMA EditingIs ==
    ASSUME Inv, NEW r, NEW h, NEW C, NEW H, NEW set, Scene(r, h, C, H, set), r \in set,
           NEW q \in Request, MayBring(q), NEW o \in C, dflt \in C,
           NEW isDefault \in BOOLEAN, NEW isFresh \in BOOLEAN,
           Editing(r, q, o, isDefault, isFresh, h)
    PROVE  Turned(r, H, set)
<1> DEFINE op == q.op
           kind == IF h[o][op.item] = Absent /\ op.kind = "save" THEN "create" ELSE op.kind
           d == [h[o] EXCEPT ![op.item] = op.body]
           g == [h EXCEPT ![o] = d]
           q1 == [q EXCEPT !.op.kind = kind]
<1>1. /\ op.kind \in {"save", "rollback"}
      /\ Saving(r, q1, "catalog", o, g)
      /\ catalogCache' = CacheOf(o, isDefault, isFresh) /\ dflt' = dflt
  BY DEF Editing
<1>2. op.item \in Items /\ op.body \in Body(op.item)
  BY <1>1 DEF Request, MayBring, Bringing
<1>3. kind \in {"save", "create", "rollback"}
  BY <1>1
<1> HIDE DEF kind
<1>4. q1 \in Request /\ q1.op.kind = kind /\ q1.op.item = op.item /\ q1.op.body = op.body
  BY <1>3 DEF Request, Kinds
<1> HIDE DEF q1
<1>5. IsCatalog(h[o])
  BY SoundIs DEF Scene, World, Maps
<1>6. IsCatalog(d)
  <2> HIDE DEF op
  <2> QED
    BY <1>2, <1>5, EditIs
<1>7. Sound("catalog", d, set)
  BY <1>6, SoundIs DEF Maps
<1> HIDE DEF d
<1>8. Scene(r, g, C, H, set)
  BY <1>7, SceneEdited
<1> HIDE DEF g
<1>9. q1.op.kind # "toggle" /\ q1.op.body \in Body(q1.op.item)
  BY <1>2, <1>3, <1>4
<1>10. Going(r, heap', C, H, set)
  BY <1>1, <1>4, <1>8, <1>9, SavingIs
<1> QED
  BY <1>1, <1>10 DEF Turned, CatalogCaches, CacheOf

LEMMA DeletingIs ==
    ASSUME Inv, NEW r, NEW h, NEW C, NEW H, NEW set, Scene(r, h, C, H, set), r \in set,
           NEW q \in Request, NEW o \in C, dflt \in C,
           NEW isDefault \in BOOLEAN, NEW isFresh \in BOOLEAN,
           Deleting(r, q, o, isDefault, isFresh, h)
    PROVE  Turned(r, H, set)
<1> DEFINE i == q.op.item
           new == Len(h) + 1
           kept == IF i \in Apps THEN [h EXCEPT ![o] = Stripped(h[o], i)] ELSE h
           d == Without(h[o], i)
           g == Append(kept, d)
           D == C \cup {new}
<1>1. /\ q.op.kind = "delete"
      /\ Saving(r, q, "catalog", new, g)
      /\ catalogCache' = CacheOf(new, isDefault, isFresh)
      /\ dflt' = IF isDefault THEN new ELSE dflt
  BY DEF Deleting
<1>2. i \in Items
  BY DEF Request
<1>3. IsCatalog(h[o])
  BY SoundIs DEF Scene, World, Maps
<1> HIDE DEF i
<1>4. IsCatalog(Stripped(h[o], i)) /\ IsCatalog(d)
  BY <1>2, <1>3, StrippedIs
<1>5. Sound("catalog", Stripped(h[o], i), set) /\ Sound("catalog", d, set)
  BY <1>4, SoundIs DEF Maps
<1> HIDE DEF d
<1>6. Scene(r, kept, C, H, set) /\ Len(kept) = Len(h)
  BY <1>5, SceneEdited
<1> HIDE DEF kept
<1>7. Scene(r, g, C \cup {Len(kept) + 1}, H, set)
  BY <1>5, <1>6, SceneGrown
<1>8. Scene(r, g, D, H, set) /\ new \in D
  BY <1>6, <1>7
<1> HIDE DEF g, new
<1>9. q.op.kind # "toggle" /\ ~(q.op.kind \in Bringing)
  BY <1>1 DEF Bringing
<1>10. Going(r, heap', D, H, set)
  <2> HIDE DEF D
  <2> QED
    BY <1>1, <1>8, <1>9, SavingIs
<1>11. dflt' \in D /\ catalogCache' \in CatalogCaches(D)
  BY <1>1 DEF CatalogCaches, CacheOf
<1> QED
  BY <1>10, <1>11 DEF Turned

LEMMA WithCatalogIs ==
    ASSUME Inv, NEW r, NEW h, NEW C, NEW H, NEW set, Scene(r, h, C, H, set), r \in set,
           NEW q \in Request, MayBring(q), NEW o \in C, dflt \in C,
           NEW isDefault \in BOOLEAN, NEW isFresh \in BOOLEAN,
           WithCatalog(r, q, o, isDefault, isFresh, h)
    PROVE  Turned(r, H, set)
BY EditingIs, DeletingIs DEF WithCatalog

LEMMA NeedCatalogIs ==
    ASSUME Inv, NEW r, NEW h, NEW C, NEW H, NEW set, Scene(r, h, C, H, set), r \in set,
           NEW q \in Request, MayBring(q), q.cell <= Len(h),
           q.op.kind \in {"save", "delete", "rollback"}, dflt \in C, catalogCache \in CatalogCaches(C),
           NeedCatalog(r, q, h)
    PROVE  Turned(r, H, set)
<1>1. CASE /\ Usable(catalogCache)
           /\ WithCatalog(r, q, catalogCache.cell, catalogCache.isDefault, TRUE, h)
  <2>1. catalogCache.cell \in C /\ catalogCache.isDefault \in BOOLEAN /\ TRUE \in BOOLEAN
    BY <1>1 DEF CatalogCaches, Usable
  <2> QED
    BY <1>1, <2>1, WithCatalogIs
<1>2. CASE /\ heap' = h
           /\ req' = [req EXCEPT ![r] = Call([q EXCEPT !.step = "read"], "get", "catalog")]
           /\ catalogCache' = [catalogCache EXCEPT !.fresh = FALSE] /\ UNCHANGED dflt
  <2>1. Turn(r, Call([q EXCEPT !.step = "read"], "get", "catalog"), h, C, H, set)
    BY TurnCall DEF MayBring
  <2>2. Going(r, heap', C, H, set)
    BY <1>2, <2>1 DEF Going
  <2>3. dflt' \in C /\ catalogCache' \in CatalogCaches(C)
    BY <1>2 DEF CatalogCaches
  <2> QED
    BY <2>2, <2>3 DEF Turned
<1> QED
  BY <1>1, <1>2 DEF NeedCatalog

LEMMA RollingBackIs ==
    ASSUME Inv, NEW r, NEW h, NEW C, NEW H, NEW set, Scene(r, h, C, H, set), r \in set,
           NEW q \in Request, q.cell <= Len(h), NEW o \in H,
           dflt \in C, catalogCache \in CatalogCaches(C), RollingBack(r, q, o, h)
    PROVE  Turned(r, H, set)
<1> DEFINE op == q.op
           body == h[o].revs[op.item][Min(FindRev(h[o], op))].body
           q1 == [q EXCEPT !.op.body = body]
<1>1. op.kind = "rollback" /\ FindRev(h[o], op) # {} /\ NeedCatalog(r, q1, h)
  BY DEF RollingBack
<1>2. IsHistory(h[o]) /\ op.item \in Items
  BY SoundIs DEF Scene, World, Maps, Request
<1> HIDE DEF op
<1>3. body \in Body(op.item)
  BY <1>1, <1>2, FoundIs
<1>4. body \in Bodies
  BY <1>2, <1>3, BodyIs
<1> HIDE DEF body
<1>5. /\ q1 \in Request /\ q1.op.kind = "rollback" /\ q1.op.body = body /\ q1.op.item = op.item
      /\ q1.cell = q.cell
  BY <1>1, <1>4 DEF Request, op
<1> HIDE DEF q1
<1>6. MayBring(q1) /\ q1.op.kind \in {"save", "delete", "rollback"} /\ q1.cell <= Len(h)
  BY <1>3, <1>5 DEF MayBring
<1> QED
  BY <1>1, <1>5, <1>6, NeedCatalogIs

LEMMA TogglingIs ==
    ASSUME Inv, NEW r, NEW h, NEW C, NEW H, NEW set, Scene(r, h, C, H, set),
           NEW q \in Request, NEW o \in H,
           dflt \in C, catalogCache \in CatalogCaches(C), Toggling(r, q, o, h)
    PROVE  Turned(r, H, set)
<1> DEFINE op == q.op
           k == Min(FindRev(h[o], op))
           d == Toggled(h[o], op.item, k)
           g == [h EXCEPT ![o] = d]
<1>1. /\ FindRev(h[o], op) # {} /\ Saving(r, q, "history", o, g)
      /\ catalogCache' = catalogCache /\ dflt' = dflt
  BY DEF Toggling
<1>2. /\ IsHistory(h[o]) /\ \A s \in set : NotIn(s, h[o])
      /\ op.item \in Items
  BY SoundIs DEF Scene, World, Maps, Request
<1> HIDE DEF op
<1>3. k \in 1..Len(h[o].revs[op.item])
  BY <1>1, <1>2, FoundIs
<1> HIDE DEF k
<1>4. IsHistory(d) /\ \A s \in set : NotIn(s, d)
  BY <1>2, <1>3, ToggledIs
<1>5. Sound("history", d, set)
  BY <1>4, SoundIs DEF Maps
<1> HIDE DEF d
<1>6. Scene(r, g, C, H, set)
  BY <1>5, SceneEdited
<1> HIDE DEF g
<1>7. Going(r, heap', C, H, set)
  BY <1>1, <1>6, SavingIs
<1> QED
  BY <1>1, <1>7 DEF Turned

LEMMA WithHistoryIs ==
    ASSUME Inv, NEW r, NEW h, NEW C, NEW H, NEW set, Scene(r, h, C, H, set), r \in set,
           NEW q \in Request, q.cell <= Len(h), NEW o \in H,
           dflt \in C, catalogCache \in CatalogCaches(C), WithHistory(r, q, o, h)
    PROVE  Turned(r, H, set)
<1>1. CASE NotFound(r, q, o, h)
  <2>1. /\ heap' = h /\ req' = [req EXCEPT ![r] = Done]
        /\ catalogCache' = catalogCache /\ dflt' = dflt
    BY <1>1 DEF NotFound
  <2>2. Turn(r, Done, h, C, H, set)
    BY TurnDone
  <2>3. Going(r, heap', C, H, set)
    BY <2>1, <2>2 DEF Going
  <2> QED
    BY <2>1, <2>3 DEF Turned
<1> QED
  BY <1>1, RollingBackIs, TogglingIs DEF WithHistory

LEMMA SceneLess ==
    ASSUME NEW r, NEW h, NEW C, NEW H, NEW set, Scene(r, h, C, H, set)
    PROVE  Scene(r, h, C, H, set \ {r})
<1>1. World(h, C, H, set \ {r})
  BY WorldLess DEF Scene
<1> QED
  BY <1>1 DEF Scene

LEMMA RecordIs ==
    ASSUME Inv, NEW r \in Requests, NEW h, NEW C, NEW H, NEW set, Scene(r, h, C, H, set), r \in set,
           NEW q \in Request, q.op.kind \in Bringing, MayBring(q), NEW o \in H, Record(r, q, o, h)
    PROVE  Going(r, heap', C, H, set \ {r})
<1> DEFINE i == q.op.item
           d == Recorded(h[o], r, i, q.op.body, q.op.kind)
           g == [h EXCEPT ![o] = d]
           less == set \ {r}
<1>1. Saving(r, q, "history", o, g)
  BY DEF Record
<1>2. /\ IsHistory(h[o]) /\ \A s \in set : NotIn(s, h[o])
      /\ i \in Items /\ q.op.body \in Body(i)
  BY SoundIs DEF Scene, World, Maps, Request, MayBring
<1>3. NotIn(r, h[o]) /\ r \in Requests \cup {First}
  BY <1>2
<1> HIDE DEF i
<1>4. IsHistory(d) /\ \A s : s # r /\ NotIn(s, h[o]) => NotIn(s, d)
  BY <1>2, <1>3, RecordedIs
<1>5. Sound("history", d, less)
  BY <1>2, <1>4, SoundIs DEF Maps
<1>6. Scene(r, h, C, H, less)
  BY SceneLess
<1> HIDE DEF d, less
<1>7. Scene(r, g, C, H, less)
  BY <1>5, <1>6, SceneEdited
<1> HIDE DEF g
<1>8. Going(r, heap', C, H, less)
  BY <1>1, <1>7, SavingIs
<1> QED
  BY <1>8 DEF less

LEMMA FetchIs ==
    ASSUME Inv, NEW r, NEW h, NEW C, NEW H, NEW set, Scene(r, h, C, H, set), r \in set, heap' = h,
           NEW q \in Request, q.cell <= Len(h), NEW step,
           \/ step = "look" /\ q.op.kind \in {"rollback", "toggle"}
           \/ step = "record" /\ q.op.kind \in Bringing /\ MayBring(q),
           vcsCache \in HistoryCaches(H), Fetch(r, q, step)
    PROVE  Going(r, heap', C, H, set) /\ vcsCache' \in HistoryCaches(H)
<1>1. Turn(r, Call([q EXCEPT !.step = step], "get", "history"), h, C, H, set)
  BY TurnCall DEF MayBring
<1>2. Going(r, heap', C, H, set)
  BY <1>1 DEF Going, Fetch
<1>3. vcsCache' \in HistoryCaches(H)
  BY DEF HistoryCaches, Fetch
<1> QED
  BY <1>2, <1>3

-------------------------------------------------------------------------------
(* The actions. *)

LEMMA FollowGoing ==
    ASSUME Inv, NEW r \in Requests, NEW C, NEW H, NEW set, Going(r, heap', C, H, set),
           calm' = calm, faults' = faults, stored' = stored,
           dflt' \in C, catalogCache' \in CatalogCaches(C), vcsCache' \in HistoryCaches(H)
    PROVE  Inv'
<1>1. PICK q : req' = [req EXCEPT ![r] = q] /\ Turn(r, q, heap', C, H, set)
  BY DEF Going
<1>2. set \subseteq Silents
  BY <1>1 DEF Turn, Scene
<1>3. /\ stored \in [Maps -> Docs] /\ faults \in 0..MaxFaults
      /\ \A map \in Maps : Kept(map, stored[map], Silents)
  BY DEF Inv, Typed
<1>4. \A map \in Maps : Kept(map, stored'[map], set)
  BY <1>2, <1>3, SoundLess
<1> QED
  BY <1>1, <1>3, <1>4, Follow

LEMMA FollowTurned ==
    ASSUME Inv, NEW r \in Requests, NEW H, NEW set, Turned(r, H, set),
           calm' = calm, faults' = faults, stored' = stored, vcsCache' \in HistoryCaches(H)
    PROVE  Inv'
<1>1. PICK C : Going(r, heap', C, H, set) /\ dflt' \in C /\ catalogCache' \in CatalogCaches(C)
  BY DEF Turned
<1> QED
  BY <1>1, FollowGoing

\* r's call is answered, and what it asked for may have been stored.
LEMMA AnswerIs ==
    ASSUME Inv, NEW r \in Requests, NEW p \in Request,
           p.step = req[r].step, p.map = req[r].map, p.cell = req[r].cell, p.op = req[r].op,
           p.text = req[r].text,
           p.call = req[r].call \/ (req[r].call = "check" /\ p.call \in {"put", "post"}),
           p.got = NoDoc \/ p.got = req[r].got \/ p.got = stored[req[r].map],
           req' = [req EXCEPT ![r] = p], calm' = calm, faults' \in 0..MaxFaults,
           UNCHANGED memory,
           \/ stored' = stored
           \/ /\ req[r].call \in {"put", "post"}
              /\ stored' = [stored EXCEPT ![req[r].map] = req[r].text]
    PROVE  Inv'
<1> DEFINE q == req[r]
<1>1. /\ Scene(r, heap, CatalogCells, HistoryCells, Silents)
      /\ catalogCache \in CatalogCaches(CatalogCells)
      /\ vcsCache \in HistoryCaches(HistoryCells)
      /\ dflt \in CatalogCells /\ q \in Request
  BY SceneIs
<1>2. /\ stored \in [Maps -> Docs] /\ \A map \in Maps : Kept(map, stored[map], Silents)
      /\ Carries(q, Silents) /\ q.cell <= Len(heap) /\ q.map \in Maps
  BY <1>1 DEF Inv, Typed, Request
<1>3. Calls(p)
  BY <1>2 DEF Carries, Calls
<1>4. Brings(p) <=> Brings(q)
  BY DEF Brings
<1>5. Kept(p.map, p.got, Silents)
  BY <1>2, SoundIs DEF Carries
<1>6. Carries(p, Silents)
  BY <1>2, <1>3, <1>4, <1>5 DEF Carries
<1>7. /\ Saves(p, "catalog") => p.cell \in CatalogCells
      /\ Saves(p, "history") => p.cell \in HistoryCells
      /\ Silent(p) => r \in Silents
  BY CellsAre DEF Saves, Silent, Silents
<1>8. Turn(r, p, heap, CatalogCells, HistoryCells, Silents)
  BY <1>1, <1>2, <1>6, <1>7 DEF Turn
<1>9. stored' \in [Maps -> Docs] /\ \A map \in Maps : Kept(map, stored'[map], Silents)
  <2>1. CASE stored' = stored
    BY <1>2, <2>1
  <2>2. CASE /\ q.call \in {"put", "post"}
             /\ stored' = [stored EXCEPT ![q.map] = q.text]
    <3>1. q.step \in {"default", "check"}
      BY <1>1, <1>2, <2>2 DEF Carries, Calls, Request
    <3>2. Sound(q.map, q.text, Silents)
      BY <1>2, <3>1 DEF Carries
    <3>3. Kept(q.map, q.text, Silents) /\ q.text \in Docs
      BY <1>2, <3>2, SoundIs
    <3> HIDE DEF q
    <3> QED
      BY <1>2, <2>2, <3>3
  <2> QED
    BY <2>1, <2>2
<1>10. heap' = heap /\ dflt' = dflt /\ catalogCache' = catalogCache /\ vcsCache' = vcsCache
  BY DEF memory
<1>11. Turn(r, p, heap', CatalogCells, HistoryCells, Silents)
  BY <1>8, <1>10
<1> QED
  BY <1>1, <1>9, <1>10, <1>11, Follow

LEMMA AnswerOf ==
    ASSUME NEW q \in Request, NEW answer \in {"ok", "refused", "thrown"}, NEW p, p = Answer(q, answer)
    PROVE  /\ p \in Request /\ p.step = q.step /\ p.map = q.map /\ p.cell = q.cell
           /\ p.op = q.op /\ p.text = q.text
           /\ p.call = q.call \/ (q.call = "check" /\ p.call \in {"put", "post"})
           /\ p.got = NoDoc \/ p.got = q.got
<1>1. NoDoc \in Docs
  BY DEF Docs
<1>2. CASE q.call = "check" /\ answer # "thrown"
  <2> DEFINE call == IF answer = "ok" THEN "put" ELSE "post"
  <2>1. call \in {"put", "post"} /\ p = Call(q, call, q.map)
    BY <1>2 DEF Answer
  <2> HIDE DEF call
  <2>2. /\ p \in Request /\ p.call = call /\ p.step = q.step /\ p.map = q.map /\ p.cell = q.cell
        /\ p.op = q.op /\ p.text = q.text /\ p.got = NoDoc
    BY <1>1, <2>1 DEF Call, Request
  <2> QED
    BY <1>2, <2>1, <2>2
<1>3. CASE ~(q.call = "check" /\ answer # "thrown")
  <2>1. p = [q EXCEPT !.answer = answer]
    BY <1>3 DEF Answer
  <2>2. /\ p \in Request /\ p.call = q.call /\ p.step = q.step /\ p.map = q.map /\ p.cell = q.cell
        /\ p.op = q.op /\ p.text = q.text /\ p.got = q.got
    BY <2>1 DEF Request
  <2> QED
    BY <2>2
<1> QED
  BY <1>2, <1>3

LEMMA ServeKeeps == \A r \in Requests : Inv /\ Serve(r) => Inv'
<1> SUFFICES ASSUME NEW r \in Requests, Inv, Serve(r) PROVE Inv'
  OBVIOUS
<1> DEFINE q == req[r]
           ok == IF q.call = "post" THEN ~(stored[q.map] # NoDoc) ELSE stored[q.map] # NoDoc
           answer == IF ok THEN "ok" ELSE "refused"
           p == Answer(q, answer)
           got == IF q.call = "get" THEN stored[q.map] ELSE NoDoc
           p1 == [p EXCEPT !.got = got]
<1>1. /\ req' = [req EXCEPT ![r] = p1]
      /\ stored' = IF ok /\ q.call \in {"put", "post"} THEN [stored EXCEPT ![q.map] = q.text]
                   ELSE stored
      /\ UNCHANGED <<calm, faults, memory>>
  BY DEF Serve
<1>2. q \in Request /\ stored \in [Maps -> Docs] /\ faults \in 0..MaxFaults
  BY DEF Inv, Typed
<1>3. q.map \in Maps /\ NoDoc \in Docs
  BY <1>2 DEF Request, Docs
<1>4. got \in Docs /\ (got = NoDoc \/ got = stored[q.map])
  BY <1>2, <1>3
<1>5. answer \in {"ok", "refused", "thrown"}
  OBVIOUS
<1> HIDE DEF got, answer
<1>6. /\ p \in Request /\ p.step = q.step /\ p.map = q.map /\ p.cell = q.cell
      /\ p.op = q.op /\ p.text = q.text
      /\ p.call = q.call \/ (q.call = "check" /\ p.call \in {"put", "post"})
  BY <1>2, <1>5, AnswerOf
<1> HIDE DEF p
<1>7. /\ p1 \in Request /\ p1.step = p.step /\ p1.map = p.map /\ p1.cell = p.cell
      /\ p1.op = p.op /\ p1.text = p.text /\ p1.call = p.call /\ p1.got = got
  BY <1>4, <1>6 DEF Request
<1> HIDE DEF p1
<1>8. \/ stored' = stored
      \/ q.call \in {"put", "post"} /\ stored' = [stored EXCEPT ![q.map] = q.text]
  BY <1>1
<1> QED
  BY <1>1, <1>2, <1>4, <1>6, <1>7, <1>8, AnswerIs

LEMMA FailKeeps == \A r \in Requests : Inv /\ Fail(r) => Inv'
<1> SUFFICES ASSUME NEW r \in Requests, Inv, Fail(r) PROVE Inv'
  OBVIOUS
<1> DEFINE q == req[r]
<1>1. q \in Request /\ faults' \in 0..MaxFaults /\ UNCHANGED <<calm, memory>>
  BY FaultAssumption DEF Inv, Typed, Fail
<1>2. ASSUME NEW answer \in {"refused", "thrown"}, req' = [req EXCEPT ![r] = Answer(q, answer)],
             stored' = stored
      PROVE  Inv'
  <2> DEFINE p == Answer(q, answer)
  <2>1. /\ p \in Request /\ p.step = q.step /\ p.map = q.map /\ p.cell = q.cell
        /\ p.op = q.op /\ p.text = q.text
        /\ p.call = q.call \/ (q.call = "check" /\ p.call \in {"put", "post"})
        /\ p.got = NoDoc \/ p.got = q.got
    BY <1>1, AnswerOf
  <2>2. req' = [req EXCEPT ![r] = p]
    BY <1>2
  <2> HIDE DEF p
  <2> QED
    BY <1>1, <1>2, <2>1, <2>2, AnswerIs
<1>3. ASSUME q.call \in {"put", "post"}, req' = [req EXCEPT ![r] = [q EXCEPT !.answer = "thrown"]],
             stored' = [stored EXCEPT ![q.map] = q.text]
      PROVE  Inv'
  <2> DEFINE p == [q EXCEPT !.answer = "thrown"]
  <2>1. /\ p \in Request /\ p.step = q.step /\ p.map = q.map /\ p.cell = q.cell
        /\ p.op = q.op /\ p.text = q.text /\ p.call = q.call /\ p.got = q.got
    BY <1>1 DEF Request
  <2>2. req' = [req EXCEPT ![r] = p]
    BY <1>3
  <2> HIDE DEF p
  <2> QED
    BY <1>1, <1>3, <2>1, <2>2, AnswerIs
<1> QED
  BY <1>2, <1>3 DEF Fail

\* What a request has with it, at the steps where it goes on.
LEMMA WaitingIs ==
    ASSUME Inv, NEW r \in Requests
    PROVE  /\ req[r].cell <= Len(heap) /\ Kept(req[r].map, req[r].got, Silents)
           /\ Calls(req[r]) /\ Brings(req[r])
           /\ req[r].step \in {"idle", "look", "read", "default", "record"} => r \in Silents
           /\ req[r].step = "check" /\ req[r].map = "catalog" =>
                 r \in Silents /\ req[r].cell \in CatalogCells
           /\ req[r].step = "check" /\ req[r].map = "history" => req[r].cell \in HistoryCells
<1>1. req[r].cell <= Len(heap) /\ Carries(req[r], Silents)
  BY DEF Inv, Typed
<1>2. req[r].step \in {"idle", "look", "read", "default", "record"} => r \in Silents
  BY DEF Silents, Silent
<1>3. req[r].step = "check" /\ req[r].map = "catalog" => r \in Silents
  BY DEF Silents, Silent
<1>4. /\ req[r].step = "check" /\ req[r].map = "catalog" => req[r].cell \in CatalogCells
      /\ req[r].step = "check" /\ req[r].map = "history" => req[r].cell \in HistoryCells
  BY CellsAre DEF Saves
<1> QED
  BY <1>1, <1>2, <1>3, <1>4 DEF Carries

LEMMA OperationIs ==
    ASSUME NEW op \in Operation
    PROVE  /\ op \in [kind : Kinds, item : Items, body : Bodies \cup {Absent}, num : Asked \cup {0}]
           /\ op.kind \in {"save", "import"} => op.body \in Body(op.item)
           /\ op.kind # "create"
<1>1. AnItem \in Items /\ Apps \subseteq Items /\ Groups \subseteq Items
  BY ItemAssumption DEF AnItem, Items
<1> DEFINE Good(o) ==
        /\ o \in [kind : Kinds, item : Items, body : Bodies \cup {Absent}, num : Asked \cup {0}]
        /\ o.kind \in {"save", "import"} => o.body \in Body(o.item)
        /\ o.kind # "create"
<1>2. CASE op \in SaveApp
  <2>1. PICK i \in Apps, body \in Texts : op = [kind |-> "save", item |-> i, body |-> body, num |-> 0]
    BY <1>2 DEF SaveApp, Ask
  <2>2. body \in Bodies /\ body \in Body(i)
    BY DEF Bodies, Body
  <2> QED
    BY <1>1, <2>1, <2>2 DEF Kinds
<1>3. CASE op \in SaveGroup
  <2>1. PICK i \in Groups, body \in Members :
           op = [kind |-> "save", item |-> i, body |-> body, num |-> 0]
    BY <1>3 DEF SaveGroup, Ask
  <2>2. body \in Bodies /\ body \in Body(i)
    BY ItemAssumption DEF Bodies, Body
  <2> QED
    BY <1>1, <2>1, <2>2 DEF Kinds
<1>4. CASE op \in DeleteApp \cup DeleteGroup
  <2>1. PICK i \in Items : op = [kind |-> "delete", item |-> i, body |-> Absent, num |-> 0]
    BY <1>1, <1>4 DEF DeleteApp, DeleteGroup, Ask
  <2> QED
    BY <2>1 DEF Kinds
<1>5. CASE op \in AppHistory \cup GroupHistory
  <2>1. PICK kind \in {"rollback", "toggle"}, i \in Items, n \in Asked :
           op = [kind |-> kind, item |-> i, body |-> Absent, num |-> n]
    BY <1>1, <1>5 DEF AppHistory, GroupHistory, Ask
  <2> QED
    BY <2>1 DEF Kinds
<1>6. CASE op \in Clear
  BY <1>1, <1>6 DEF Clear, Ask, Kinds
<1>7. CASE op \in Import
  <2>1. PICK i \in Items :
           op \in {[kind |-> "import", item |-> i, body |-> body, num |-> 0] : body \in Body(i)}
    BY <1>7 DEF Import, Ask
  <2>2. PICK body \in Body(i) : op = [kind |-> "import", item |-> i, body |-> body, num |-> 0]
    BY <2>1
  <2>3. body \in Bodies
    BY BodyIs
  <2> QED
    BY <2>2, <2>3 DEF Kinds
<1> QED
  BY <1>2, <1>3, <1>4, <1>5, <1>6, <1>7 DEF Operation

LEMMA BeginKeeps == \A r \in Requests, op \in Operation : Inv /\ Begin(r, op) => Inv'
<1> SUFFICES ASSUME NEW r \in Requests, NEW op \in Operation, Inv, Begin(r, op) PROVE Inv'
  OBVIOUS
<1> DEFINE q == [req[r] EXCEPT !.op = op]
           doc == IF op.kind = "clear" THEN EmptyCatalog
                  ELSE [EmptyCatalog EXCEPT ![op.item] = op.body]
           C == CatalogCells
           H == HistoryCells
           D == C \cup {Len(heap) + 1}
<1>1. /\ req[r].step = "idle" /\ UNCHANGED <<calm, stored, faults>>
      /\ \/ op.kind \in {"save", "delete"} /\ NeedCatalog(r, q, heap) /\ UNCHANGED vcsCache
         \/ /\ op.kind \in {"rollback", "toggle"} /\ Usable(vcsCache)
            /\ WithHistory(r, q, vcsCache.cell, heap) /\ UNCHANGED vcsCache
         \/ /\ op.kind \in {"rollback", "toggle"} /\ Fetch(r, q, "look")
            /\ UNCHANGED <<heap, catalogCache, dflt>>
         \/ /\ op.kind \in {"clear", "import"}
            /\ Saving(r, q, "catalog", Len(heap) + 1, Append(heap, doc))
            /\ UNCHANGED <<catalogCache, dflt, vcsCache>>
  BY DEF Begin
<1>2. /\ Scene(r, heap, C, H, Silents)
      /\ catalogCache \in CatalogCaches(C) /\ vcsCache \in HistoryCaches(H)
      /\ dflt \in C /\ req[r] \in Request
  BY SceneIs
<1>3. r \in Silents /\ req[r].cell <= Len(heap)
  BY <1>1, WaitingIs
<1>4. /\ op \in [kind : Kinds, item : Items, body : Bodies \cup {Absent}, num : Asked \cup {0}]
      /\ op.kind \in {"save", "import"} => op.body \in Body(op.item)
      /\ op.kind # "create"
  BY OperationIs
<1>5. q \in Request /\ q.op = op /\ q.cell = req[r].cell
  BY <1>2, <1>4 DEF Request
<1> HIDE DEF q
<1>6. CASE op.kind \in {"save", "delete"} /\ NeedCatalog(r, q, heap) /\ UNCHANGED vcsCache
  <2>1. MayBring(q)
    BY <1>4, <1>5, <1>6 DEF MayBring, Bringing
  <2>2. Turned(r, H, Silents)
    <3>1. q.cell <= Len(heap) /\ q.op.kind \in {"save", "delete", "rollback"}
      BY <1>3, <1>5, <1>6
    <3> HIDE DEF C, H
    <3> QED
      BY <1>2, <1>3, <1>5, <1>6, <2>1, <3>1, NeedCatalogIs
  <2> QED
    BY <1>1, <1>2, <1>6, <2>2, FollowTurned
<1>7. CASE /\ op.kind \in {"rollback", "toggle"} /\ Usable(vcsCache)
           /\ WithHistory(r, q, vcsCache.cell, heap) /\ UNCHANGED vcsCache
  <2>1. vcsCache.cell \in H /\ q.cell <= Len(heap)
    BY <1>2, <1>3, <1>5, <1>7 DEF HistoryCaches, Usable
  <2>2. Turned(r, H, Silents)
    <3> HIDE DEF C, H
    <3> QED
      BY <1>2, <1>3, <1>5, <1>7, <2>1, WithHistoryIs
  <2> QED
    BY <1>1, <1>2, <1>7, <2>2, FollowTurned
<1>8. CASE /\ op.kind \in {"rollback", "toggle"} /\ Fetch(r, q, "look")
           /\ UNCHANGED <<heap, catalogCache, dflt>>
  <2>1. q.cell <= Len(heap) /\ heap' = heap /\ q.op.kind \in {"rollback", "toggle"}
    BY <1>3, <1>5, <1>8
  <2>2. Going(r, heap', C, H, Silents) /\ vcsCache' \in HistoryCaches(H)
    <3> HIDE DEF C, H
    <3> QED
      BY <1>2, <1>3, <1>5, <1>8, <2>1, FetchIs
  <2>3. dflt' \in C /\ catalogCache' \in CatalogCaches(C)
    BY <1>2, <1>8
  <2> HIDE DEF C, H
  <2> QED
    BY <1>1, <2>2, <2>3, FollowGoing
<1>9. CASE /\ op.kind \in {"clear", "import"}
           /\ Saving(r, q, "catalog", Len(heap) + 1, Append(heap, doc))
           /\ UNCHANGED <<catalogCache, dflt, vcsCache>>
  <2>1. IsCatalog(doc)
    BY <1>4, <1>9, EmptyIs, EditIs
  <2>2. Sound("catalog", doc, Silents)
    BY <2>1, SoundIs DEF Maps
  <2> HIDE DEF doc, C, H
  <2>3. Scene(r, Append(heap, doc), D, H, Silents)
    BY <1>2, <2>2, SceneGrown
  <2>4. q.op.kind # "toggle" /\ (q.op.kind \in Bringing => q.op.body \in Body(q.op.item))
    BY <1>4, <1>5, <1>9 DEF Bringing
  <2>5. Len(heap) + 1 \in D
    OBVIOUS
  <2>6. dflt' \in D /\ catalogCache' \in CatalogCaches(D) /\ vcsCache' \in HistoryCaches(H)
    BY <1>2, <1>9 DEF CatalogCaches
  <2> HIDE DEF D
  <2>7. Going(r, heap', D, H, Silents)
    BY <1>3, <1>5, <1>9, <2>3, <2>4, <2>5, SavingIs
  <2> QED
    BY <1>1, <2>6, <2>7, FollowGoing
<1> QED
  BY <1>1, <1>6, <1>7, <1>8, <1>9

LEMMA CatalogReadKeeps == \A r \in Requests : Inv /\ CatalogRead(r) => Inv'
<1> SUFFICES ASSUME NEW r \in Requests, Inv, CatalogRead(r) PROVE Inv'
  OBVIOUS
<1> DEFINE q == req[r]
           C == CatalogCells
           H == HistoryCells
           D == C \cup {Len(heap) + 1}
           p == Call([q EXCEPT !.step = "default", !.cell = dflt, !.text = heap[dflt]],
                     "check", "catalog")
<1>1. /\ q.step = "read" /\ q.map = "catalog" /\ UNCHANGED <<calm, stored, vcsCache, faults>>
      /\ \/ /\ q.got # NoDoc
            /\ WithCatalog(r, q, Len(heap) + 1, FALSE, TRUE, Append(heap, q.got))
         \/ /\ q.got = NoDoc /\ req' = [req EXCEPT ![r] = p]
            /\ UNCHANGED <<heap, catalogCache, dflt>>
  BY DEF CatalogRead, Answered
<1>2. /\ Scene(r, heap, C, H, Silents)
      /\ catalogCache \in CatalogCaches(C) /\ vcsCache \in HistoryCaches(H)
      /\ dflt \in C /\ q \in Request
  BY SceneIs
<1>3. /\ r \in Silents /\ Kept("catalog", q.got, Silents) /\ Calls(q) /\ Brings(q)
  BY <1>1, WaitingIs
<1>4. MayBring(q) /\ q.op.kind \in {"save", "delete", "rollback"}
  BY <1>1, <1>3 DEF MayBring, Calls, Brings
<1>5. CASE /\ q.got # NoDoc
           /\ WithCatalog(r, q, Len(heap) + 1, FALSE, TRUE, Append(heap, q.got))
  <2>1. Sound("catalog", q.got, Silents)
    BY <1>3, <1>5 DEF Kept
  <2> HIDE DEF C, H
  <2>2. Scene(r, Append(heap, q.got), D, H, Silents)
    BY <1>2, <2>1, SceneGrown
  <2>3. Len(heap) + 1 \in D /\ dflt \in D /\ TRUE \in BOOLEAN /\ FALSE \in BOOLEAN
    BY <1>2
  <2> HIDE DEF D, q
  <2>4. Turned(r, H, Silents)
    BY <1>2, <1>3, <1>4, <1>5, <2>2, <2>3, WithCatalogIs
  <2> QED
    BY <1>1, <1>2, <2>4, FollowTurned
<1>6. CASE /\ q.got = NoDoc /\ req' = [req EXCEPT ![r] = p]
           /\ UNCHANGED <<heap, catalogCache, dflt>>
  <2> DEFINE text == heap[dflt]
             q1 == [q EXCEPT !.step = "default", !.cell = dflt, !.text = text]
  <2>1. Sound("catalog", text, Silents) /\ dflt \in 1..Len(heap) /\ Len(heap) \in Nat
    BY <1>2 DEF Scene, World
  <2>2. text \in Docs /\ dflt \in Nat
    BY <2>1, SoundIs DEF Maps
  <2> HIDE DEF text
  <2>3. /\ q1 \in Request /\ q1.step = "default" /\ q1.cell = dflt /\ q1.text = text
        /\ q1.op = q.op
    BY <1>2, <2>2 DEF Request
  <2>4. p = Call(q1, "check", "catalog")
    BY DEF text
  <2> HIDE DEF q1, p
  <2>5. /\ p \in Request /\ p.step = "default" /\ p.cell = dflt /\ p.text = text
        /\ p.op = q.op /\ p.call = "check" /\ p.map = "catalog" /\ p.got = NoDoc
    BY <2>3, <2>4, CallIs DEF Maps
  <2>6. Calls(p) /\ Brings(p)
    BY <1>4, <2>5 DEF Calls, Brings, MayBring
  <2>7. Carries(p, Silents) /\ ~Saves(p, "catalog") /\ ~Saves(p, "history")
    BY <2>1, <2>5, <2>6 DEF Carries, Kept, Saves
  <2>8. Turn(r, p, heap, C, H, Silents)
    BY <1>2, <1>3, <2>1, <2>5, <2>7 DEF Turn
  <2>9. Going(r, heap', C, H, Silents)
    BY <1>6, <2>8 DEF Going
  <2> HIDE DEF C, H
  <2> QED
    BY <1>1, <1>2, <1>6, <2>9, FollowGoing
<1> QED
  BY <1>1, <1>5, <1>6

LEMMA DefaultSavedKeeps == \A r \in Requests : Inv /\ DefaultSaved(r) => Inv'
<1> SUFFICES ASSUME NEW r \in Requests, Inv, DefaultSaved(r) PROVE Inv'
  OBVIOUS
<1> DEFINE q == req[r]
           fresh == q.answer = "thrown" => catalogCache.fresh
           C == CatalogCells
           H == HistoryCells
<1>1. /\ q.step = "default" /\ q.map = "catalog" /\ UNCHANGED <<calm, stored, vcsCache, faults>>
      /\ WithCatalog(r, q, dflt, TRUE, fresh, heap)
  BY DEF DefaultSaved, Answered
<1>2. /\ Scene(r, heap, C, H, Silents)
      /\ catalogCache \in CatalogCaches(C) /\ vcsCache \in HistoryCaches(H)
      /\ dflt \in C /\ q \in Request
  BY SceneIs
<1>3. r \in Silents /\ Calls(q) /\ Brings(q)
  BY <1>1, WaitingIs
<1>4. MayBring(q)
  BY <1>1, <1>3 DEF MayBring, Brings
<1>5. fresh \in BOOLEAN /\ TRUE \in BOOLEAN
  BY <1>2 DEF CatalogCaches
<1> HIDE DEF fresh, C, H, q
<1>6. Turned(r, H, Silents)
  BY <1>1, <1>2, <1>3, <1>4, <1>5, WithCatalogIs
<1> QED
  BY <1>1, <1>2, <1>6, FollowTurned

LEMMA CatalogFailedKeeps == \A r \in Requests : Inv /\ CatalogFailed(r) => Inv'
<1> SUFFICES ASSUME NEW r \in Requests, Inv, CatalogFailed(r) PROVE Inv'
  OBVIOUS
<1>1. req' = [req EXCEPT ![r] = Done] /\ UNCHANGED <<calm, stored, faults, memory>>
  BY DEF CatalogFailed
<1>2. /\ Scene(r, heap, CatalogCells, HistoryCells, Silents)
      /\ catalogCache \in CatalogCaches(CatalogCells)
      /\ vcsCache \in HistoryCaches(HistoryCells) /\ dflt \in CatalogCells
  BY SceneIs
<1>3. Turn(r, Done, heap, CatalogCells, HistoryCells, Silents)
  BY <1>2, TurnDone
<1>4. heap' = heap /\ dflt' = dflt /\ catalogCache' = catalogCache /\ vcsCache' = vcsCache
  BY <1>1 DEF memory
<1>5. Going(r, heap', CatalogCells, HistoryCells, Silents)
  BY <1>1, <1>3, <1>4 DEF Going
<1> QED
  BY <1>1, <1>2, <1>4, <1>5, FollowGoing

LEMMA CatalogSavedKeeps == \A r \in Requests : Inv /\ CatalogSaved(r) => Inv'
<1> SUFFICES ASSUME NEW r \in Requests, Inv, CatalogSaved(r) PROVE Inv'
  OBVIOUS
<1> DEFINE q == req[r]
           C == CatalogCells
           H == HistoryCells
<1>1. /\ q.step = "check" /\ q.map = "catalog" /\ UNCHANGED <<calm, stored, dflt, faults>>
      /\ catalogCache' = [cell |-> q.cell, isDefault |-> FALSE, fresh |-> TRUE]
      /\ \/ /\ q.op.kind \in {"delete", "clear"} /\ req' = [req EXCEPT ![r] = Done]
            /\ UNCHANGED <<heap, vcsCache>>
         \/ /\ q.op.kind \notin {"delete", "clear"} /\ Usable(vcsCache)
            /\ Record(r, q, vcsCache.cell, heap) /\ UNCHANGED vcsCache
         \/ /\ q.op.kind \notin {"delete", "clear"} /\ Fetch(r, q, "record") /\ UNCHANGED heap
  BY DEF CatalogSaved, Answered
<1>2. /\ Scene(r, heap, C, H, Silents)
      /\ catalogCache \in CatalogCaches(C) /\ vcsCache \in HistoryCaches(H)
      /\ dflt \in C /\ q \in Request
  BY SceneIs
<1>3. /\ r \in Silents /\ Calls(q) /\ Brings(q) /\ q.cell \in C /\ q.cell <= Len(heap)
  BY <1>1, WaitingIs
<1>4. MayBring(q) /\ (q.op.kind \notin {"delete", "clear"} => q.op.kind \in Bringing)
  BY <1>1, <1>2, <1>3 DEF MayBring, Calls, Brings, Request, Kinds, Bringing
<1>5. dflt' \in C /\ catalogCache' \in CatalogCaches(C)
  BY <1>1, <1>2, <1>3 DEF CatalogCaches
<1>6. CASE /\ q.op.kind \in {"delete", "clear"} /\ req' = [req EXCEPT ![r] = Done]
           /\ UNCHANGED <<heap, vcsCache>>
  <2>1. Turn(r, Done, heap, C, H, Silents)
    BY <1>2, TurnDone
  <2>2. Going(r, heap', C, H, Silents)
    BY <1>6, <2>1 DEF Going
  <2> HIDE DEF C, H
  <2> QED
    BY <1>1, <1>2, <1>5, <1>6, <2>2, FollowGoing
<1>7. CASE /\ q.op.kind \notin {"delete", "clear"} /\ Usable(vcsCache)
           /\ Record(r, q, vcsCache.cell, heap) /\ UNCHANGED vcsCache
  <2>1. vcsCache.cell \in H
    BY <1>2, <1>7 DEF HistoryCaches, Usable
  <2> HIDE DEF C, H, q
  <2>2. Going(r, heap', C, H, Silents \ {r})
    BY <1>2, <1>3, <1>4, <1>7, <2>1, RecordIs
  <2> QED
    BY <1>1, <1>2, <1>5, <1>7, <2>2, FollowGoing
<1>8. CASE q.op.kind \notin {"delete", "clear"} /\ Fetch(r, q, "record") /\ UNCHANGED heap
  <2> HIDE DEF C, H, q
  <2>1. Going(r, heap', C, H, Silents) /\ vcsCache' \in HistoryCaches(H)
    BY <1>2, <1>3, <1>4, <1>8, FetchIs
  <2> QED
    BY <1>1, <1>5, <2>1, FollowGoing
<1> QED
  BY <1>1, <1>6, <1>7, <1>8

LEMMA HistoryReadKeeps == \A r \in Requests : Inv /\ HistoryRead(r) => Inv'
<1> SUFFICES ASSUME NEW r \in Requests, Inv, HistoryRead(r) PROVE Inv'
  OBVIOUS
<1> DEFINE q == req[r]
           C == CatalogCells
           H == HistoryCells
           new == Len(heap) + 1
           G == H \cup {new}
           d == IF q.got = NoDoc THEN EmptyHistory ELSE q.got
           h == Append(heap, d)
<1>1. /\ q.map = "history" /\ UNCHANGED <<calm, stored, faults>>
      /\ vcsCache' = [cell |-> new, fresh |-> TRUE]
      /\ \/ q.step = "look" /\ WithHistory(r, q, new, h)
         \/ q.step = "record" /\ Record(r, q, new, h) /\ UNCHANGED <<catalogCache, dflt>>
  BY DEF HistoryRead, Answered
<1>2. /\ Scene(r, heap, C, H, Silents)
      /\ catalogCache \in CatalogCaches(C) /\ vcsCache \in HistoryCaches(H)
      /\ dflt \in C /\ q \in Request
  BY SceneIs
<1>3. /\ r \in Silents /\ Calls(q) /\ Brings(q) /\ Kept("history", q.got, Silents)
      /\ q.cell <= Len(heap)
  BY <1>1, WaitingIs
<1>4. Sound("history", d, Silents)
  BY <1>3, EmptyIs, SoundIs DEF Kept, Maps
<1> HIDE DEF d, C, H
<1>5. Scene(r, h, C, G, Silents)
  BY <1>2, <1>4, SceneGrown
<1>6. d \in Docs
  BY <1>4, SoundIs DEF Maps
<1>7. Len(h) = Len(heap) + 1 /\ Len(heap) \in Nat /\ q.cell \in Nat
  BY <1>2, <1>6 DEF Scene, World, Request
<1>8. new \in G /\ vcsCache' \in HistoryCaches(G) /\ q.cell <= Len(h)
  BY <1>1, <1>3, <1>7 DEF HistoryCaches
<1> HIDE DEF h, G, new, q
<1>9. CASE q.step = "look" /\ WithHistory(r, q, new, h)
  <2>1. Turned(r, G, Silents)
    BY <1>2, <1>3, <1>5, <1>8, <1>9, WithHistoryIs
  <2> QED
    BY <1>1, <1>8, <2>1, FollowTurned
<1>10. CASE q.step = "record" /\ Record(r, q, new, h) /\ UNCHANGED <<catalogCache, dflt>>
  <2>1. MayBring(q) /\ q.op.kind \in Bringing
    BY <1>3, <1>10 DEF MayBring, Calls, Brings
  <2>2. Going(r, heap', C, G, Silents \ {r})
    BY <1>2, <1>3, <1>5, <1>8, <1>10, <2>1, RecordIs
  <2>3. dflt' \in C /\ catalogCache' \in CatalogCaches(C)
    BY <1>2, <1>10
  <2> QED
    BY <1>1, <1>8, <2>2, <2>3, FollowGoing
<1> QED
  BY <1>1, <1>9, <1>10

LEMMA HistorySavedKeeps == \A r \in Requests : Inv /\ HistorySaved(r) => Inv'
<1> SUFFICES ASSUME NEW r \in Requests, Inv, HistorySaved(r) PROVE Inv'
  OBVIOUS
<1>1. /\ req[r].step = "check" /\ req[r].map = "history"
      /\ vcsCache' = [cell |-> req[r].cell, fresh |-> TRUE]
      /\ req' = [req EXCEPT ![r] = Done]
      /\ UNCHANGED <<calm, stored, heap, dflt, catalogCache, faults>>
  BY DEF HistorySaved, Answered
<1>2. /\ Scene(r, heap, CatalogCells, HistoryCells, Silents)
      /\ catalogCache \in CatalogCaches(CatalogCells) /\ dflt \in CatalogCells
  BY SceneIs
<1>3. vcsCache' \in HistoryCaches(HistoryCells)
  BY <1>1, WaitingIs DEF HistoryCaches
<1>4. Turn(r, Done, heap, CatalogCells, HistoryCells, Silents)
  BY <1>2, TurnDone
<1>5. Going(r, heap', CatalogCells, HistoryCells, Silents)
  BY <1>1, <1>4 DEF Going
<1> QED
  BY <1>1, <1>2, <1>3, <1>5, FollowGoing

LEMMA RestartKeeps == Inv /\ Restart => Inv'
<1> SUFFICES ASSUME Inv, Restart PROVE Inv'
  OBVIOUS
<1>1. /\ faults' = faults + 1 /\ faults < MaxFaults
      /\ heap' = <<EmptyCatalog>> /\ dflt' = 1
      /\ catalogCache' = NoCatalog /\ vcsCache' = NoHistory
      /\ req' = [r \in Requests |-> IF req[r].step = "idle" THEN Idle ELSE Done]
      /\ calm' = calm /\ stored' = stored
  BY DEF Restart
<1>2. /\ calm \in BOOLEAN /\ faults \in 0..MaxFaults /\ stored \in [Maps -> Docs]
      /\ \A map \in Maps : Kept(map, stored[map], Silents)
  BY DEF Inv, Typed
<1>3. \A r \in Requests : req'[r] = IF req[r].step = "idle" THEN Idle ELSE Done
  BY <1>1
<1>4. /\ \A set : Carries(Idle, set) /\ Carries(Done, set)
      /\ Idle \in Request /\ ~Saves(Idle, "catalog") /\ ~Saves(Idle, "history")
      /\ Done \in Request /\ ~Saves(Done, "catalog") /\ ~Saves(Done, "history")
      /\ Done.cell = 0 /\ Idle.cell = 0 /\ ~Silent(Done)
  BY DoneIs
<1>5. Silents' \subseteq Silents
  <2> SUFFICES ASSUME NEW r \in Requests, Silent(req'[r]) PROVE r \in Silents
    BY DEF Silents
  <2>1. req[r].step = "idle"
    BY <1>3, <1>4
  <2> QED
    BY <2>1 DEF Silents, Silent
<1>6. IsCatalog(EmptyCatalog) /\ EmptyCatalog \in Docs
  BY EmptyIs, SoundIs DEF Maps
<1>7. /\ heap' \in Seq(Docs) /\ Len(heap') = 1 /\ heap'[1] = EmptyCatalog
      /\ 1 \in 1..Len(heap') /\ 0 \in 0..Len(heap')
  BY <1>1, <1>6
<1>8. Typed'
  <2>1. faults' \in 0..MaxFaults
    BY <1>1, <1>2, FaultAssumption
  <2>2. req' \in [Requests -> Request] /\ \A r \in Requests : req'[r].cell = 0
    BY <1>1, <1>3, <1>4
  <2>3. \A r \in Requests : req'[r].cell <= Len(heap')
    BY <1>7, <2>2
  <2>4. catalogCache' \in [cell : 0..Len(heap'), isDefault : BOOLEAN, fresh : BOOLEAN]
    BY <1>1, <1>7 DEF NoCatalog
  <2>5. vcsCache' \in [cell : 0..Len(heap'), fresh : BOOLEAN]
    BY <1>1, <1>7 DEF NoHistory
  <2> QED
    BY <1>1, <1>2, <1>7, <2>1, <2>2, <2>3, <2>4, <2>5 DEF Typed
<1>9. Held'
  <2>1. CatalogCells' = {1}
    <3>1. CatalogCells' = {dflt'} \cup ({catalogCache'.cell} \ {0})
             \cup {req'[s].cell : s \in {t \in Requests : Saves(req'[t], "catalog")}}
      BY DEF CatalogCells, Saves
    <3>2. \A t \in Requests : ~Saves(req'[t], "catalog")
      BY <1>3, <1>4
    <3>3. catalogCache'.cell = 0
      BY <1>1 DEF NoCatalog
    <3> QED
      BY <1>1, <3>1, <3>2, <3>3
  <2>2. HistoryCells' = {}
    <3>1. HistoryCells' = ({vcsCache'.cell} \ {0})
             \cup {req'[s].cell : s \in {t \in Requests : Saves(req'[t], "history")}}
      BY DEF HistoryCells, Saves
    <3>2. \A t \in Requests : ~Saves(req'[t], "history")
      BY <1>3, <1>4
    <3>3. vcsCache'.cell = 0
      BY <1>1 DEF NoHistory
    <3> QED
      BY <3>1, <3>2, <3>3
  <2>3. Sound("catalog", heap'[1], Silents')
    BY <1>6, <1>7 DEF Sound
  <2> QED
    BY <1>7, <2>1, <2>2, <2>3 DEF Held, Cells
<1>10. \A r \in Requests : Carries(req'[r], Silents')
  BY <1>3, <1>4
<1>11. \A map \in Maps : Kept(map, stored'[map], Silents')
  BY <1>1, <1>2, <1>5, SoundLess
<1> QED
  BY <1>8, <1>9, <1>10, <1>11 DEF Inv

LEMMA Starts == Init => Inv
<1> SUFFICES ASSUME Init PROVE Inv
  OBVIOUS
<1>1. /\ calm \in BOOLEAN /\ faults = 0
      /\ heap = <<EmptyCatalog>> /\ dflt = 1
      /\ catalogCache = NoCatalog /\ vcsCache = NoHistory
      /\ req = [r \in Requests |-> Idle]
  BY DEF Init
<1>2. /\ \A set : Carries(Idle, set)
      /\ Idle \in Request /\ ~Saves(Idle, "catalog") /\ ~Saves(Idle, "history") /\ Idle.cell = 0
  BY DoneIs
<1>3. \A r \in Requests : req[r] = Idle
  BY <1>1
<1>4. IsCatalog(EmptyCatalog) /\ EmptyCatalog \in Docs
  BY EmptyIs, SoundIs DEF Maps
<1>5. /\ heap \in Seq(Docs) /\ Len(heap) = 1 /\ heap[1] = EmptyCatalog
      /\ 1 \in 1..Len(heap) /\ 0 \in 0..Len(heap)
  BY <1>1, <1>4
<1>6. Silents \subseteq Requests
  BY DEF Silents
<1>7. stored = [map \in Maps |-> stored[map]] /\ \A map \in Maps : Kept(map, stored[map], Silents)
  <2>1. CASE stored = [map \in Maps |-> NoDoc]
    BY <2>1 DEF Kept
  <2>2. ASSUME NEW i \in Apps, NEW body \in Texts,
               stored = [map \in Maps |->
                  IF map = "catalog" THEN [EmptyCatalog EXCEPT ![i] = body]
                  ELSE Recorded(EmptyHistory, First, i, body, "create")]
        PROVE  stored = [map \in Maps |-> stored[map]]
               /\ \A map \in Maps : Kept(map, stored[map], Silents)
    <3>1. i \in Items /\ body \in Body(i)
      BY DEF Items, Body
    <3>2. IsCatalog([EmptyCatalog EXCEPT ![i] = body])
      BY <3>1, <1>4, EditIs
    <3> DEFINE d == Recorded(EmptyHistory, First, i, body, "create")
    <3>3. IsHistory(d) /\ \A s : s # First => NotIn(s, d)
      BY <3>1, EmptyIs, RecordedIs
    <3> HIDE DEF d
    <3>4. \A s \in Silents : NotIn(s, d)
      BY <1>6, <3>3, FirstAssumption
    <3>5. Sound("history", d, Silents) /\ Sound("catalog", [EmptyCatalog EXCEPT ![i] = body], Silents)
      BY <3>2, <3>3, <3>4 DEF Sound
    <3>6. \A map \in Maps : stored[map] = IF map = "catalog" THEN [EmptyCatalog EXCEPT ![i] = body]
                                          ELSE d
      BY <2>2 DEF d
    <3>7. \A map \in Maps : Sound(map, stored[map], Silents)
      BY <3>5, <3>6 DEF Maps
    <3>8. \A map \in Maps : Kept(map, stored[map], Silents)
      BY <3>7 DEF Kept
    <3> QED
      BY <2>2, <3>8
  <2> QED
    BY <2>1, <2>2 DEF Init
<1>8. Typed
  <2>1. faults \in 0..MaxFaults
    BY <1>1, FaultAssumption
  <2>2. req \in [Requests -> Request] /\ \A r \in Requests : req[r].cell <= Len(heap)
    BY <1>1, <1>2, <1>3, <1>5
  <2>3. catalogCache \in [cell : 0..Len(heap), isDefault : BOOLEAN, fresh : BOOLEAN]
    BY <1>1, <1>5 DEF NoCatalog
  <2>4. vcsCache \in [cell : 0..Len(heap), fresh : BOOLEAN]
    BY <1>1, <1>5 DEF NoHistory
  <2>5. stored \in [Maps -> Docs]
    BY <1>7, SoundIs
  <2> QED
    BY <1>1, <1>5, <2>1, <2>2, <2>3, <2>4, <2>5 DEF Typed
<1>9. Held
  <2>1. CatalogCells = {1}
    <3>1. \A t \in Requests : ~Saves(req[t], "catalog")
      BY <1>2, <1>3
    <3>2. catalogCache.cell = 0
      BY <1>1 DEF NoCatalog
    <3> QED
      BY <1>1, <3>1, <3>2, CellsAre
  <2>2. HistoryCells = {}
    <3>1. \A t \in Requests : ~Saves(req[t], "history")
      BY <1>2, <1>3
    <3>2. vcsCache.cell = 0
      BY <1>1 DEF NoHistory
    <3> QED
      BY <3>1, <3>2, CellsAre
  <2>3. Sound("catalog", heap[1], Silents)
    BY <1>4, <1>5 DEF Sound
  <2> QED
    BY <1>5, <2>1, <2>2, <2>3 DEF Held, Cells
<1>10. \A r \in Requests : Carries(req[r], Silents)
  BY <1>2, <1>3
<1> QED
  BY <1>7, <1>8, <1>9, <1>10 DEF Inv

LEMMA Steps == Inv /\ [Next]_vars => Inv'
<1> SUFFICES ASSUME Inv, [Next]_vars PROVE Inv'
  OBVIOUS
<1>1. ASSUME NEW r \in Requests, NEW op \in Operation, Begin(r, op)
      PROVE  Inv'
  BY <1>1, BeginKeeps
<1>2. ASSUME NEW r \in Requests, Step(r)
      PROVE  Inv'
  BY <1>2, ServeKeeps, CatalogReadKeeps, DefaultSavedKeeps, CatalogFailedKeeps,
     CatalogSavedKeeps, HistoryReadKeeps, HistorySavedKeeps DEF Step
<1>3. ASSUME NEW r \in Requests, Fail(r)
      PROVE  Inv'
  BY <1>3, FailKeeps
<1>4. CASE Restart
  BY <1>4, RestartKeeps
<1>5. CASE UNCHANGED vars
  <2>1. /\ calm' = calm /\ stored' = stored /\ heap' = heap /\ dflt' = dflt
        /\ catalogCache' = catalogCache /\ vcsCache' = vcsCache /\ req' = req
        /\ faults' = faults
    BY <1>5 DEF vars
  <2>2. Silents' = Silents
    BY <2>1 DEF Silents
  <2>3. CatalogCells' = CatalogCells
    BY <2>1 DEF CatalogCells
  <2>4. HistoryCells' = HistoryCells
    BY <2>1 DEF HistoryCells
  <2>5. Typed'
    BY <2>1 DEF Inv, Typed
  <2>6. Held'
    BY <2>1, <2>2, <2>3, <2>4 DEF Inv, Held, Cells
  <2>7. \A map \in Maps : Kept(map, stored'[map], Silents')
    BY <2>1, <2>2 DEF Inv
  <2>8. \A r \in Requests : Carries(req'[r], Silents')
    BY <2>1, <2>2 DEF Inv
  <2> QED
    BY <2>5, <2>6, <2>7, <2>8 DEF Inv
<1> QED
  BY <1>1, <1>2, <1>3, <1>4, <1>5 DEF Next

LEMMA Always == Spec => []Inv
BY Starts, Steps, PTL DEF Spec

-------------------------------------------------------------------------------

\* Type correctness: an open call of a request is one of its step, whatever the
\* handlers (catalog-vcs.ts, app-store.ts) have started and whatever was lost.
THEOREM TypeCorrect == Spec => []TypeOK
<1>1. Inv => TypeOK
  <2> SUFFICES ASSUME Inv PROVE TypeOK
    OBVIOUS
  <2>1. /\ calm \in BOOLEAN /\ faults \in 0..MaxFaults
        /\ catalogCache \in [cell : 0..Len(heap), isDefault : BOOLEAN, fresh : BOOLEAN]
        /\ vcsCache \in [cell : 0..Len(heap), fresh : BOOLEAN]
        /\ heap \in Seq(Docs)
    BY DEF Inv, Typed
  <2>2. dflt \in DOMAIN heap
    <3>1. dflt \in CatalogCells /\ "catalog" \in Maps
      BY CellsAre DEF Maps
    <3>2. dflt \in 1..Len(heap)
      BY <3>1 DEF Inv, Held, Cells
    <3> QED
      BY <2>1, <3>2
  <2>3. ASSUME NEW r \in Requests
        PROVE  /\ req[r].step \in {"idle", "look", "read", "default", "check", "record", "done"}
               /\ req[r].cell \in 0..Len(heap)
               /\ (req[r].step \in {"idle", "done"}) <=> (req[r].call = "none")
    <3>1. req[r] \in Request /\ req[r].cell <= Len(heap) /\ Calls(req[r])
      BY DEF Inv, Typed, Carries
    <3>2. req[r].cell \in Nat /\ Len(heap) \in Nat
      BY <2>1, <3>1 DEF Request
    <3> QED
      BY <3>1, <3>2 DEF Request, Calls
  <2>4. ASSUME stored["catalog"] # NoDoc, NEW i \in Apps
        PROVE  stored["catalog"][i] \in Texts \cup {Absent}
    <3>1. Kept("catalog", stored["catalog"], Silents)
      BY DEF Inv, Maps
    <3> QED
      BY <2>4, <3>1 DEF Kept, Sound, IsCatalog
  <2> QED
    BY <2>1, <2>2, <2>3, <2>4 DEF TypeOK
<1> QED
  BY <1>1, Always, PTL

LEMMA StoredIs == Inv /\ stored["history"] # NoDoc => IsHistory(stored["history"])
BY DEF Inv, Kept, Sound, Maps

\* Whatever overlaps, fails or restarts, the stored history is one somebody could have
\* made alone (recordAppCommit, catalog-vcs.ts:195; saveCatalogVCSStore, :141).
THEOREM HistoryStaysWellFormed == Spec => []HistoryWellFormed
<1>1. Inv => HistoryWellFormed
  <2> SUFFICES ASSUME Inv, stored["history"] # NoDoc PROVE HistoryWellFormed
    BY DEF HistoryWellFormed
  <2> DEFINE Revs(i) == stored["history"].revs[i]
             Made(i) == CommitsOf(i, stored["history"].commits)
  <2>1. ASSUME NEW i \in Items
        PROVE  /\ \A k \in 1..Len(Revs(i)) - 1 : Revs(i)[k].num = Revs(i)[k + 1].num + 1
               /\ \A k, l \in DOMAIN Revs(i) : Revs(i)[k].id = Revs(i)[l].id => k = l
               /\ \A k \in DOMAIN Revs(i) \cap DOMAIN Made(i) : Revs(i)[k].id = Made(i)[k].id
    <3>1. IsHistory(stored["history"])
      BY StoredIs
    <3>2. /\ Revs(i) \in Seq(RevOf(i)) /\ Counted(Revs(i)) /\ Once(Revs(i))
          /\ Agree(Revs(i), Made(i))
          /\ stored["history"].commits \in Seq(Commit)
      BY <3>1, <2>1 DEF IsHistory
    <3>3. Made(i) \in Seq(Commit)
      BY <3>2, CommitsOfIs
    <3> HIDE DEF Revs, Made
    <3>4. DOMAIN Revs(i) = 1..Len(Revs(i)) /\ DOMAIN Made(i) = 1..Len(Made(i))
      BY <3>2, <3>3
    <3>5. \A k \in 1..Len(Made(i)) : k <= Len(Made(i))
      BY <3>3
    <3> QED
      BY <3>2, <3>4, <3>5 DEF Counted, Once, Agree
  <2> QED
    BY <2>1 DEF HistoryWellFormed, CommitsOf
<1> QED
  BY <1>1, Always, PTL

\* What a stored revision says was added and removed accounts for its difference to the
\* one before it (recordAppCommit, catalog-vcs.ts:243; recordGroupCommit, :359).
THEOREM ChangesAlwaysAccount == Spec => []ChangesAccountFor
<1>1. Inv => ChangesAccountFor
  <2> SUFFICES ASSUME Inv, stored["history"] # NoDoc, NEW i \in Items,
                      NEW revs, revs = stored["history"].revs[i],
                      NEW k \in 1..Len(revs) - 1,
                      i \in Apps \/ (IsInjective(revs[k].body) /\ IsInjective(revs[k + 1].body))
               PROVE  Len(revs[k + 1].body) - revs[k].removed + revs[k].added = Len(revs[k].body)
    BY DEF ChangesAccountFor
  <2>1. IsHistory(stored["history"])
    BY StoredIs
  <2>2. Accounted(i, revs)
    BY <2>1 DEF IsHistory
  <2> QED
    BY <2>2 DEF Accounted, Accounts
<1> QED
  BY <1>1, Always, PTL

\* The difference shown of any two stored revisions of an application tells both its
\* manifests (computeTextDiff, catalog-vcs.ts:30).
THEOREM DiffAlwaysTells == Spec => []DiffTellsBothTexts
<1>1. Inv => DiffTellsBothTexts
  <2> SUFFICES ASSUME Inv, stored["history"] # NoDoc, NEW i \in Apps,
                      NEW old \in Range(stored["history"].revs[i]),
                      NEW new \in Range(stored["history"].revs[i]),
                      NEW part, part = Of(TextDiff(old.body, new.body), {"unchanged", "removed"}),
                      NEW rest, rest = Of(TextDiff(old.body, new.body), {"unchanged", "added"})
               PROVE  /\ [k \in DOMAIN part |-> part[k].line] = old.body
                      /\ [k \in DOMAIN rest |-> rest[k].line] = new.body
    BY DEF DiffTellsBothTexts
  <2>1. i \in Items /\ IsHistory(stored["history"])
    BY StoredIs DEF Items
  <2>2. stored["history"].revs[i] \in Seq(RevOf(i))
    BY <2>1 DEF IsHistory
  <2>3. old \in RevOf(i) /\ new \in RevOf(i)
    BY <2>2 DEF Range
  <2>4. old.body \in Seq(Range(old.body)) /\ new.body \in Seq(Range(new.body))
    BY <2>1, <2>3, BodyIs DEF RevOf
  <2> DEFINE T == Range(old.body) \cup Range(new.body)
  <2>5. Range(old.body) \subseteq T /\ Range(new.body) \subseteq T
    OBVIOUS
  <2> HIDE DEF T
  <2>6. old.body \in Seq(T) /\ new.body \in Seq(T)
    BY <2>4, <2>5, InSequences
  <2> DEFINE a == old.body
             b == new.body
  <2>7. /\ a \in Seq(T) /\ b \in Seq(T)
        /\ part = Of(TextDiff(a, b), {"unchanged", "removed"})
        /\ rest = Of(TextDiff(a, b), {"unchanged", "added"})
    BY <2>6
  <2> HIDE DEF a, b
  <2>8. [k \in DOMAIN part |-> part[k].line] = a /\ [k \in DOMAIN rest |-> rest[k].line] = b
    BY <2>7, TextsTold
  <2> QED
    BY <2>8 DEF a, b
<1> QED
  BY <1>1, Always, PTL

-------------------------------------------------------------------------------
(* Requests that neither overlap nor fail: at most one is at work, memory agrees *)
(* with what is stored wherever it is not about to be saved, and what is about to *)
(* be saved is what the request promises.                                         *)

Rests(q) == q.step \in {"idle", "done"}
CatalogNow(st) == IF st["catalog"] = NoDoc THEN EmptyCatalog ELSE st["catalog"]
HistoryNow(st) == IF st["history"] = NoDoc THEN EmptyHistory ELSE st["history"]

\* What op makes of a catalog c, and r's recording or marking of a history g.
Edited(op, text, c) ==
    /\ op.kind \in {"save", "create", "rollback"} => text = [c EXCEPT ![op.item] = op.body]
    /\ op.kind = "import" => text = [EmptyCatalog EXCEPT ![op.item] = op.body]
    /\ op.kind = "clear" => text = EmptyCatalog
    /\ op.kind = "delete" => text = Without(c, op.item)
Extended(r, op, text, g) ==
    \/ /\ op.kind \in Bringing /\ op.body \in Body(op.item)
       /\ text = Recorded(g, r, op.item, op.body, op.kind)
    \/ op.kind = "toggle" /\ \E k \in 1..Len(g.revs[op.item]) : text = Toggled(g, op.item, k)

\* A call is answered by what is stored.
Told(q, st) ==
    /\ q.answer # "thrown"
    /\ q.call = "get" /\ q.answer # "none" => q.got = st[q.map]
    /\ q.call = "put" /\ q.answer = "none" => st[q.map] # NoDoc
    /\ q.call = "post" /\ q.answer = "none" => st[q.map] = NoDoc
    /\ q.step \in {"default", "check"} /\ q.answer # "none" =>
          q.call # "check" /\ q.answer = "ok" /\ st[q.map] = q.text

\* The item is saved, and its revision is not.
Owes(q) ==
    /\ q.op.kind \in Bringing
    /\ \/ q.step = "check" /\ q.map = "catalog" /\ q.answer = "ok"
       \/ q.step = "record"
       \/ q.step = "check" /\ q.map = "history" /\ q.answer # "ok"
Owed(q) == IF Owes(q) THEN {q.op.item} ELSE {}
Owing(reqs) == {reqs[r].op.item : r \in {s \in Requests : Owes(reqs[s])}}

Apt(r, q, st, h, d) ==
    /\ Told(q, st)
    /\ q.step \in {"default", "check"} => h[q.cell] = q.text
    /\ q.step = "default" =>
          q.cell = d /\ q.text = EmptyCatalog /\ (q.answer = "none" => st["catalog"] = NoDoc)
    /\ Saves(q, "catalog") /\ q.answer = "none" => Edited(q.op, q.text, CatalogNow(st))
    /\ Saves(q, "history") /\ q.answer = "none" => Extended(r, q.op, q.text, HistoryNow(st))
    /\ Owes(q) => st["catalog"] # NoDoc /\ st["catalog"][q.op.item] = q.op.body

DefaultTrue(st, h, d) == st["catalog"] = NoDoc => h[d] = EmptyCatalog
CatalogTrue(st, h, cache) == cache.cell # 0 => h[cache.cell] = st["catalog"]
HistoryTrue(st, h, cache) == cache.cell # 0 => h[cache.cell] = HistoryNow(st)
Short(st) == \A i \in Items : Len(HistoryNow(st).revs[i]) <= MaxRevisions

Quiet ==
    calm =>
    /\ \A r, s \in Requests : ~Rests(req[r]) /\ ~Rests(req[s]) => r = s
    /\ \A r \in Requests : ~Rests(req[r]) => Apt(r, req[r], stored, heap, dflt)
    /\ Short(stored) /\ DefaultTrue(stored, heap, dflt)
    /\ catalogCache.cell # 0 => stored["catalog"] # NoDoc
    /\ (\A r \in Requests : ~Saves(req[r], "catalog")) => CatalogTrue(stored, heap, catalogCache)
    /\ (\A r \in Requests : ~Saves(req[r], "history")) => HistoryTrue(stored, heap, vcsCache)

\* The same of the one request at work.
Fits(r, q, st, h, d, catalog, history) ==
    /\ ~Rests(q) => Apt(r, q, st, h, d)
    /\ DefaultTrue(st, h, d)
    /\ catalog.cell # 0 => st["catalog"] # NoDoc
    /\ ~Saves(q, "catalog") => CatalogTrue(st, h, catalog)
    /\ ~Saves(q, "history") => HistoryTrue(st, h, history)
Alone(r) == \A s \in Requests : s # r => Rests(req[s])

LEMMA RestingIs ==
    ASSUME NEW q, Rests(q)
    PROVE  ~Saves(q, "catalog") /\ ~Saves(q, "history") /\ ~Owes(q)
BY DEF Rests, Saves, Owes

LEMMA AloneIs ==
    ASSUME Quiet, calm, NEW r \in Requests, ~Rests(req[r]) \/ \A s \in Requests : Rests(req[s])
    PROVE  /\ Alone(r) /\ Short(stored)
           /\ Fits(r, req[r], stored, heap, dflt, catalogCache, vcsCache)
<1>1. \A s \in Requests : s # r => Rests(req[s])
  BY DEF Quiet
<1>2. \A s \in Requests : s # r => ~Saves(req[s], "catalog") /\ ~Saves(req[s], "history")
  BY <1>1, RestingIs
<1>3. /\ ~Saves(req[r], "catalog") => CatalogTrue(stored, heap, catalogCache)
      /\ ~Saves(req[r], "history") => HistoryTrue(stored, heap, vcsCache)
  BY <1>2 DEF Quiet
<1> QED
  BY <1>1, <1>3 DEF Quiet, Alone, Fits

LEMMA QuietAgain ==
    ASSUME Inv, NEW r \in Requests, Alone(r), NEW q, req' = [req EXCEPT ![r] = q],
           Fits(r, q, stored', heap', dflt', catalogCache', vcsCache'), Short(stored')
    PROVE  Quiet' /\ req'[r] = q /\ \A s \in Requests : s # r => Rests(req'[s])
<1>1. /\ req'[r] = q /\ \A s \in Requests : s # r => req'[s] = req[s]
  BY DEF Inv, Typed
<1>2. \A s \in Requests : s # r => Rests(req'[s])
  BY <1>1 DEF Alone
<1>3. /\ (\A s \in Requests : ~Saves(req'[s], "catalog")) => CatalogTrue(stored', heap', catalogCache')
      /\ (\A s \in Requests : ~Saves(req'[s], "history")) => HistoryTrue(stored', heap', vcsCache')
  BY <1>1 DEF Fits
<1>4. \A s, t \in Requests : ~Rests(req'[s]) /\ ~Rests(req'[t]) => s = t
  BY <1>2
<1>5. \A s \in Requests : ~Rests(req'[s]) => Apt(s, req'[s], stored', heap', dflt')
  BY <1>1, <1>2 DEF Fits
<1>6. DefaultTrue(stored', heap', dflt') /\ (catalogCache'.cell # 0 => stored'["catalog"] # NoDoc)
  BY DEF Fits
<1>7. Quiet'
  BY <1>3, <1>4, <1>5, <1>6 DEF Quiet
<1> QED
  BY <1>1, <1>2, <1>7

LEMMA OwingIs ==
    ASSUME NEW reqs, NEW r \in Requests, \A s \in Requests : s # r => Rests(reqs[s])
    PROVE  Owing(reqs) = Owed(reqs[r])
<1>1. \A s \in Requests : s # r => ~Owes(reqs[s])
  BY RestingIs
<1> QED
  BY <1>1 DEF Owing, Owed

-------------------------------------------------------------------------------
(* A request goes on: it may call, edit memory, and owe what it owed. *)

On(r, cache, owed) ==
    \E q : /\ req' = [req EXCEPT ![r] = q] /\ Owed(q) = owed
           /\ Fits(r, q, stored, heap', dflt', catalogCache', cache)

\* p is q about to save a text, the object of a cell.
Checks(p, q, map, cell, text) ==
    /\ p.step = "check" /\ p.call = "check" /\ p.map = map /\ p.cell = cell
    /\ p.text = text /\ p.answer = "none" /\ p.op = q.op

LEMMA SavingGives ==
    ASSUME NEW r, NEW q \in Request, NEW map \in Maps, NEW h \in Seq(Docs), NEW cell \in 1..Len(h),
           Saving(r, q, map, cell, h)
    PROVE  heap' = h /\ \E p : req' = [req EXCEPT ![r] = p] /\ Checks(p, q, map, cell, h[cell])
<1> DEFINE text == h[cell]
           q1 == [q EXCEPT !.step = "check", !.cell = cell, !.text = text]
           p == Call(q1, "check", map)
<1>1. heap' = h /\ req' = [req EXCEPT ![r] = p]
  BY DEF Saving
<1>2. text \in Docs /\ cell \in Nat
  OBVIOUS
<1> HIDE DEF text
<1>3. q1 \in Request /\ q1.step = "check" /\ q1.cell = cell /\ q1.op = q.op /\ q1.text = text
  BY <1>2 DEF Request
<1> HIDE DEF q1
<1>4. /\ p \in Request /\ p.step = "check" /\ p.call = "check" /\ p.map = map /\ p.cell = cell
      /\ p.answer = "none" /\ p.op = q.op /\ p.text = text
  BY <1>3, CallIs
<1> QED
  BY <1>1, <1>4 DEF text, Checks

LEMMA SavingFits ==
    ASSUME NEW r, NEW q \in Request, NEW map, NEW h \in Seq(Docs), NEW cell \in 1..Len(h),
           Saving(r, q, map, cell, h), NEW cache,
           DefaultTrue(stored, h, dflt'), catalogCache'.cell # 0 => stored["catalog"] # NoDoc,
           \/ /\ map = "catalog" /\ HistoryTrue(stored, h, cache)
              /\ Edited(q.op, h[cell], CatalogNow(stored))
           \/ /\ map = "history" /\ CatalogTrue(stored, h, catalogCache')
              /\ Extended(r, q.op, h[cell], HistoryNow(stored))
              /\ q.op.kind \in Bringing =>
                    stored["catalog"] # NoDoc /\ stored["catalog"][q.op.item] = q.op.body
    PROVE  On(r, cache, IF map = "history" /\ q.op.kind \in Bringing THEN {q.op.item} ELSE {})
<1> DEFINE owed == IF map = "history" /\ q.op.kind \in Bringing THEN {q.op.item} ELSE {}
<1>1. map \in Maps
  BY DEF Maps
<1>2. heap' = h /\ \E p : req' = [req EXCEPT ![r] = p] /\ Checks(p, q, map, cell, h[cell])
  BY <1>1, SavingGives
<1>3. PICK p : req' = [req EXCEPT ![r] = p] /\ Checks(p, q, map, cell, h[cell])
  BY <1>2
<1>4. /\ p.step = "check" /\ p.call = "check" /\ p.map = map /\ p.cell = cell
      /\ p.text = h[cell] /\ p.answer = "none" /\ p.op = q.op
  BY <1>3 DEF Checks
<1>5. Told(p, stored)
  BY <1>4 DEF Told
<1>6. Owes(p) <=> (map = "history" /\ q.op.kind \in Bringing)
  BY <1>4 DEF Owes
<1>7. Owed(p) = owed
  BY <1>4, <1>6 DEF Owed
<1>8. /\ Saves(p, "catalog") <=> map = "catalog"
      /\ Saves(p, "history") <=> map = "history"
  BY <1>4 DEF Saves
<1>9. Apt(r, p, stored, h, dflt')
  BY <1>4, <1>5, <1>6, <1>8 DEF Apt
<1>10. Fits(r, p, stored, heap', dflt', catalogCache', cache)
  BY <1>2, <1>8, <1>9 DEF Fits
<1> QED
  BY <1>3, <1>7, <1>10 DEF On

LEMMA CallFits ==
    ASSUME NEW r, NEW q \in Request, NEW step \in {"look", "read", "record"}, NEW map \in Maps,
           req' = [req EXCEPT ![r] = Call([q EXCEPT !.step = step], "get", map)], NEW cache,
           step = "record" => /\ q.op.kind \in Bringing /\ stored["catalog"] # NoDoc
                              /\ stored["catalog"][q.op.item] = q.op.body,
           DefaultTrue(stored, heap', dflt'), catalogCache'.cell # 0 => stored["catalog"] # NoDoc,
           CatalogTrue(stored, heap', catalogCache'), HistoryTrue(stored, heap', cache)
    PROVE  On(r, cache, IF step = "record" THEN {q.op.item} ELSE {})
<1> DEFINE q1 == [q EXCEPT !.step = step]
           p == Call(q1, "get", map)
<1>1. q1 \in Request /\ q1.step = step /\ q1.op = q.op
  BY DEF Request
<1> HIDE DEF q1
<1>2. /\ p.step = step /\ p.call = "get" /\ p.map = map /\ p.answer = "none" /\ p.op = q.op
  BY <1>1, CallIs
<1>3. req' = [req EXCEPT ![r] = p]
  BY DEF q1
<1> HIDE DEF p
<1>4. Told(p, stored) /\ ~Saves(p, "catalog") /\ ~Saves(p, "history")
  BY <1>2 DEF Told, Saves
<1>5. Owes(p) <=> step = "record"
  BY <1>2 DEF Owes
<1>6. Owed(p) = IF step = "record" THEN {q.op.item} ELSE {}
  BY <1>2, <1>5 DEF Owed
<1>7. Apt(r, p, stored, heap', dflt')
  BY <1>2, <1>4, <1>5 DEF Apt
<1>8. Fits(r, p, stored, heap', dflt', catalogCache', cache)
  BY <1>4, <1>7 DEF Fits
<1> QED
  BY <1>3, <1>6, <1>8 DEF On

LEMMA DoneFits ==
    ASSUME NEW r, req' = [req EXCEPT ![r] = Done], NEW cache,
           DefaultTrue(stored, heap', dflt'), catalogCache'.cell # 0 => stored["catalog"] # NoDoc,
           CatalogTrue(stored, heap', catalogCache'), HistoryTrue(stored, heap', cache)
    PROVE  On(r, cache, {})
<1>1. Rests(Done)
  BY DEF Rests, Done, Idle
<1>2. Owed(Done) = {}
  BY <1>1, RestingIs DEF Owed
<1>3. Fits(r, Done, stored, heap', dflt', catalogCache', cache)
  BY <1>1 DEF Fits
<1> QED
  BY <1>2, <1>3 DEF On

\* A heap whose history, cached as cache, is the one that is stored.
Beside(h, C, H, set, cache) ==
    World(h, C, H, set) /\ cache.cell \in H \cup {0} /\ HistoryTrue(stored, h, cache)

LEMMA BesideEdited ==
    ASSUME NEW h, NEW C, NEW H, NEW set, World(h, C, H, set), NEW o \in C \cup H, NEW d \in Docs
    PROVE  /\ [h EXCEPT ![o] = d] \in Seq(Docs) /\ o \in 1..Len([h EXCEPT ![o] = d])
           /\ [h EXCEPT ![o] = d][o] = d /\ Len([h EXCEPT ![o] = d]) = Len(h)
           /\ \A c \in C \cup H : c # o => [h EXCEPT ![o] = d][c] = h[c]
           /\ o \in C => \A c \in H : [h EXCEPT ![o] = d][c] = h[c]
           /\ o \in H => \A c \in C : [h EXCEPT ![o] = d][c] = h[c]
<1>1. h \in Seq(Docs) /\ o \in 1..Len(h) /\ (\A c \in C \cup H : c \in 1..Len(h)) /\ C \cap H = {}
  BY DEF World
<1> DEFINE g == [h EXCEPT ![o] = d]
<1>2. g \in Seq(Docs) /\ Len(g) = Len(h) /\ g[o] = d /\ \A c \in 1..Len(h) : c # o => g[c] = h[c]
  BY <1>1
<1> HIDE DEF g
<1>3. o \in 1..Len(g) /\ \A c \in C \cup H : c # o => g[c] = h[c]
  BY <1>1, <1>2
<1>4. (o \in C => \A c \in H : g[c] = h[c]) /\ (o \in H => \A c \in C : g[c] = h[c])
  BY <1>1, <1>3
<1> QED
  BY <1>2, <1>3, <1>4 DEF g

\* g is h with one more object d, and the same ones in the cells of a set.
Grown(g, h, d, cells) ==
    /\ g \in Seq(Docs) /\ Len(h) + 1 \in 1..Len(g) /\ g[Len(h) + 1] = d
    /\ \A c \in cells : g[c] = h[c]

LEMMA BesideGrown ==
    ASSUME NEW h, NEW C, NEW H, NEW set, World(h, C, H, set), NEW d \in Docs,
           NEW g, g = Append(h, d)
    PROVE  Grown(g, h, d, C \cup H)
<1> DEFINE n == Len(h)
<1>1. h \in Seq(Docs) /\ (\A c \in C \cup H : c \in 1..n) /\ n \in Nat
  BY DEF World
<1>2. g \in Seq(Docs) /\ Len(g) = n + 1 /\ g[n + 1] = d /\ \A c \in 1..n : g[c] = h[c]
  BY <1>1
<1> HIDE DEF n
<1>3. n + 1 \in 1..Len(g) /\ \A c \in C \cup H : g[c] = h[c]
  BY <1>1, <1>2
<1> QED
  BY <1>2, <1>3 DEF Grown, n

LEMMA EditingFits ==
    ASSUME NEW r, NEW h, NEW C, NEW H, NEW set, NEW cache, Beside(h, C, H, set, cache),
           NEW q \in Request, MayBring(q),
           NEW o \in C, h[o] = stored["catalog"], stored["catalog"] # NoDoc,
           NEW isDefault, NEW isFresh, Editing(r, q, o, isDefault, isFresh, h)
    PROVE  On(r, cache, {})
<1> DEFINE op == q.op
           kind == IF h[o][op.item] = Absent /\ op.kind = "save" THEN "create" ELSE op.kind
           d == [h[o] EXCEPT ![op.item] = op.body]
           g == [h EXCEPT ![o] = d]
           q1 == [q EXCEPT !.op.kind = kind]
<1>1. /\ op.kind \in {"save", "rollback"}
      /\ Saving(r, q1, "catalog", o, g)
      /\ catalogCache' = CacheOf(o, isDefault, isFresh) /\ dflt' = dflt
  BY DEF Editing
<1>2. op.item \in Items /\ op.body \in Body(op.item)
  BY <1>1 DEF Request, MayBring, Bringing
<1>3. kind \in {"save", "create", "rollback"}
  BY <1>1
<1> HIDE DEF kind
<1>4. q1 \in Request /\ q1.op.kind = kind /\ q1.op.item = op.item /\ q1.op.body = op.body
  BY <1>3 DEF Request, Kinds
<1> HIDE DEF q1
<1>5. World(h, C, H, set)
  BY DEF Beside
<1>6. IsCatalog(h[o])
  BY <1>5, SoundIs DEF World, Maps
<1>7. IsCatalog(d)
  <2> HIDE DEF op
  <2> QED
    BY <1>2, <1>6, EditIs
<1>8. d \in Docs
  BY <1>7 DEF IsCatalog, Docs
<1>9. d = [CatalogNow(stored) EXCEPT ![op.item] = op.body]
  BY DEF CatalogNow
<1>10. Edited(q1.op, d, CatalogNow(stored))
  BY <1>3, <1>4, <1>9 DEF Edited
<1> HIDE DEF d
<1>11. g \in Seq(Docs) /\ o \in 1..Len(g) /\ g[o] = d /\ \A c \in H : g[c] = h[c]
  BY <1>5, <1>8, BesideEdited
<1> HIDE DEF g
<1>12. HistoryTrue(stored, g, cache)
  BY <1>11 DEF Beside, HistoryTrue
<1>13. DefaultTrue(stored, g, dflt') /\ (catalogCache'.cell # 0 => stored["catalog"] # NoDoc)
  BY DEF DefaultTrue
<1>14. Edited(q1.op, g[o], CatalogNow(stored))
  BY <1>10, <1>11
<1>15. On(r, cache, IF "catalog" = "history" /\ q1.op.kind \in Bringing THEN {q1.op.item} ELSE {})
  BY <1>1, <1>4, <1>11, <1>12, <1>13, <1>14, SavingFits
<1> QED
  BY <1>15

LEMMA DeletingFits ==
    ASSUME NEW r, NEW h, NEW C, NEW H, NEW set, NEW cache, Beside(h, C, H, set, cache),
           NEW q \in Request, NEW o \in C, h[o] = stored["catalog"], stored["catalog"] # NoDoc,
           NEW isDefault, NEW isFresh, Deleting(r, q, o, isDefault, isFresh, h)
    PROVE  On(r, cache, {})
<1> DEFINE i == q.op.item
           new == Len(h) + 1
           kept == IF i \in Apps THEN [h EXCEPT ![o] = Stripped(h[o], i)] ELSE h
           d == Without(h[o], i)
           g == Append(kept, d)
<1>1. /\ q.op.kind = "delete"
      /\ Saving(r, q, "catalog", new, g)
  BY DEF Deleting
<1>2. World(h, C, H, set) /\ i \in Items
  BY DEF Beside, Request
<1>3. IsCatalog(h[o])
  BY <1>2, SoundIs DEF World, Maps
<1>4. Edited(q.op, d, CatalogNow(stored))
  BY <1>1 DEF Edited, CatalogNow
<1>5. cache.cell # 0 => cache.cell \in H /\ h[cache.cell] = HistoryNow(stored)
  BY DEF Beside, HistoryTrue
<1> HIDE DEF i
<1>6. IsCatalog(Stripped(h[o], i)) /\ IsCatalog(d)
  BY <1>2, <1>3, StrippedIs
<1>7. Sound("catalog", Stripped(h[o], i), set) /\ Stripped(h[o], i) \in Docs /\ d \in Docs
  BY <1>6, SoundIs DEF Maps
<1>8. World(kept, C, H, set) /\ Len(kept) = Len(h) /\ \A c \in H : kept[c] = h[c]
  BY <1>2, <1>7, WorldEdited, BesideEdited
<1> HIDE DEF d, kept
<1>9. /\ g \in Seq(Docs) /\ new \in 1..Len(g) /\ g[new] = d /\ \A c \in H : g[c] = kept[c]
  <2>1. g = Append(kept, d)
    OBVIOUS
  <2> HIDE DEF g
  <2>2. Grown(g, kept, d, C \cup H)
    BY <1>7, <1>8, <2>1, BesideGrown
  <2> QED
    BY <1>8, <2>2 DEF Grown
<1> HIDE DEF g, new
<1>10. HistoryTrue(stored, g, cache)
  BY <1>5, <1>8, <1>9 DEF HistoryTrue
<1>11. DefaultTrue(stored, g, dflt') /\ (catalogCache'.cell # 0 => stored["catalog"] # NoDoc)
  BY DEF DefaultTrue
<1>12. Edited(q.op, g[new], CatalogNow(stored))
  BY <1>4, <1>9
<1>13. On(r, cache, IF "catalog" = "history" /\ q.op.kind \in Bringing THEN {q.op.item} ELSE {})
  BY <1>1, <1>9, <1>10, <1>11, <1>12, SavingFits
<1> QED
  BY <1>13

LEMMA WithCatalogFits ==
    ASSUME NEW r, NEW h, NEW C, NEW H, NEW set, NEW cache, Beside(h, C, H, set, cache),
           NEW q \in Request, MayBring(q),
           NEW o \in C, h[o] = stored["catalog"], stored["catalog"] # NoDoc,
           NEW isDefault, NEW isFresh, WithCatalog(r, q, o, isDefault, isFresh, h)
    PROVE  On(r, cache, {})
BY EditingFits, DeletingFits DEF WithCatalog

\* Memory as a request finds it that is not saving.
Settled(h, C, H, set, cache) ==
    /\ Beside(h, C, H, set, cache) /\ dflt \in C /\ catalogCache.cell \in C \cup {0}
    /\ DefaultTrue(stored, h, dflt) /\ CatalogTrue(stored, h, catalogCache)
    /\ catalogCache.cell # 0 => stored["catalog"] # NoDoc

LEMMA NeedCatalogFits ==
    ASSUME NEW r, NEW h, NEW C, NEW H, NEW set, NEW cache, Settled(h, C, H, set, cache),
           NEW q \in Request, MayBring(q), NeedCatalog(r, q, h),
           catalogCache \in [cell : Nat, isDefault : BOOLEAN, fresh : BOOLEAN]
    PROVE  On(r, cache, {})
<1>1. CASE /\ Usable(catalogCache)
           /\ WithCatalog(r, q, catalogCache.cell, catalogCache.isDefault, TRUE, h)
  <2> DEFINE o == catalogCache.cell
  <2>1. o \in C /\ h[o] = stored["catalog"] /\ stored["catalog"] # NoDoc
    BY <1>1 DEF Usable, Settled, CatalogTrue
  <2>2. Beside(h, C, H, set, cache)
    BY DEF Settled
  <2> HIDE DEF o
  <2>3. PICK isDefault, isFresh : WithCatalog(r, q, o, isDefault, isFresh, h)
    BY <1>1 DEF o
  <2> QED
    BY <2>1, <2>2, <2>3, WithCatalogFits
<1>2. CASE /\ heap' = h
           /\ req' = [req EXCEPT ![r] = Call([q EXCEPT !.step = "read"], "get", "catalog")]
           /\ catalogCache' = [catalogCache EXCEPT !.fresh = FALSE] /\ UNCHANGED dflt
  <2>1. catalogCache'.cell = catalogCache.cell
    BY <1>2
  <2>2. /\ DefaultTrue(stored, heap', dflt') /\ CatalogTrue(stored, heap', catalogCache')
        /\ catalogCache'.cell # 0 => stored["catalog"] # NoDoc
        /\ HistoryTrue(stored, heap', cache)
    BY <1>2, <2>1 DEF Settled, Beside, CatalogTrue, DefaultTrue
  <2> DEFINE step == "read"
             map == "catalog"
  <2>3. step \in {"look", "read", "record"} /\ map \in Maps /\ step # "record"
    BY DEF Maps
  <2>4. req' = [req EXCEPT ![r] = Call([q EXCEPT !.step = step], "get", map)]
    BY <1>2
  <2> HIDE DEF step, map
  <2>5. On(r, cache, IF step = "record" THEN {q.op.item} ELSE {})
    BY <2>2, <2>3, <2>4, CallFits
  <2> QED
    BY <2>3, <2>5
<1> QED
  BY <1>1, <1>2 DEF NeedCatalog

LEMMA RollingBackFits ==
    ASSUME NEW r, NEW h, NEW C, NEW H, NEW set, NEW cache, Settled(h, C, H, set, cache),
           NEW q \in Request, NEW o \in H, RollingBack(r, q, o, h),
           catalogCache \in [cell : Nat, isDefault : BOOLEAN, fresh : BOOLEAN]
    PROVE  On(r, cache, {})
<1> DEFINE op == q.op
           body == h[o].revs[op.item][Min(FindRev(h[o], op))].body
           q1 == [q EXCEPT !.op.body = body]
<1>1. op.kind = "rollback" /\ FindRev(h[o], op) # {} /\ NeedCatalog(r, q1, h)
  BY DEF RollingBack
<1>2. IsHistory(h[o]) /\ op.item \in Items
  BY SoundIs DEF Settled, Beside, World, Maps, Request
<1> HIDE DEF op
<1>3. body \in Body(op.item)
  BY <1>1, <1>2, FoundIs
<1>4. body \in Bodies
  BY <1>2, <1>3, BodyIs
<1> HIDE DEF body
<1>5. q1 \in Request /\ q1.op.kind = "rollback" /\ q1.op.body = body /\ q1.op.item = op.item
  BY <1>1, <1>4 DEF Request, op
<1> HIDE DEF q1
<1>6. MayBring(q1)
  BY <1>3, <1>5 DEF MayBring
<1> QED
  BY <1>1, <1>5, <1>6, NeedCatalogFits

LEMMA TogglingFits ==
    ASSUME NEW r, NEW h, NEW C, NEW H, NEW set, NEW cache, Settled(h, C, H, set, cache),
           NEW q \in Request, NEW o \in H, h[o] = HistoryNow(stored), Toggling(r, q, o, h)
    PROVE  On(r, cache, {})
<1> DEFINE op == q.op
           k == Min(FindRev(h[o], op))
           d == Toggled(h[o], op.item, k)
           g == [h EXCEPT ![o] = d]
<1>1. /\ op.kind = "toggle" /\ FindRev(h[o], op) # {} /\ Saving(r, q, "history", o, g)
      /\ catalogCache' = catalogCache /\ dflt' = dflt
  BY DEF Toggling
<1>2. World(h, C, H, set)
  BY DEF Settled, Beside
<1>3. IsHistory(h[o]) /\ op.item \in Items
  BY <1>2, SoundIs DEF World, Maps, Request
<1> HIDE DEF op
<1>4. k \in 1..Len(h[o].revs[op.item])
  BY <1>1, <1>3, FoundIs
<1> HIDE DEF k
<1>5. IsHistory(d)
  BY <1>3, <1>4, ToggledIs
<1>6. d \in Docs
  BY <1>5 DEF IsHistory, Docs
<1>7. Extended(r, op, d, HistoryNow(stored)) /\ ~(op.kind \in Bringing)
  BY <1>1, <1>4 DEF Extended, Bringing
<1> HIDE DEF d
<1>8. g \in Seq(Docs) /\ o \in 1..Len(g) /\ g[o] = d /\ \A c \in C : g[c] = h[c]
  BY <1>2, <1>6, BesideEdited
<1> HIDE DEF g
<1>9. CatalogTrue(stored, g, catalogCache') /\ DefaultTrue(stored, g, dflt')
  BY <1>1, <1>8 DEF CatalogTrue, DefaultTrue, Settled
<1>10. catalogCache'.cell # 0 => stored["catalog"] # NoDoc
  BY <1>1 DEF Settled
<1>11. Extended(r, q.op, g[o], HistoryNow(stored)) /\ ~(q.op.kind \in Bringing)
  BY <1>7, <1>8 DEF op
<1>12. On(r, cache, IF "history" = "history" /\ q.op.kind \in Bringing THEN {q.op.item} ELSE {})
  BY <1>1, <1>8, <1>9, <1>10, <1>11, SavingFits
<1> QED
  BY <1>11, <1>12

LEMMA WithHistoryFits ==
    ASSUME NEW r, NEW h, NEW C, NEW H, NEW set, NEW cache, Settled(h, C, H, set, cache),
           NEW q \in Request, NEW o \in H, h[o] = HistoryNow(stored), WithHistory(r, q, o, h),
           catalogCache \in [cell : Nat, isDefault : BOOLEAN, fresh : BOOLEAN]
    PROVE  On(r, cache, {})
<1>1. CASE NotFound(r, q, o, h)
  <2>1. /\ heap' = h /\ req' = [req EXCEPT ![r] = Done]
        /\ catalogCache' = catalogCache /\ dflt' = dflt
    BY <1>1 DEF NotFound
  <2>2. /\ DefaultTrue(stored, heap', dflt') /\ CatalogTrue(stored, heap', catalogCache')
        /\ catalogCache'.cell # 0 => stored["catalog"] # NoDoc
        /\ HistoryTrue(stored, heap', cache)
    BY <2>1 DEF Settled, Beside
  <2> QED
    BY <2>1, <2>2, DoneFits
<1> QED
  BY <1>1, RollingBackFits, TogglingFits DEF WithHistory

LEMMA RecordFits ==
    ASSUME NEW r \in Requests, NEW h, NEW C, NEW H, NEW set, NEW cache, World(h, C, H, set),
           NEW q \in Request, q.op.kind \in Bringing, MayBring(q), r \in set,
           NEW o \in H, h[o] = HistoryNow(stored), Record(r, q, o, h),
           dflt' \in C, catalogCache'.cell \in C \cup {0}, stored["catalog"] # NoDoc,
           CatalogTrue(stored, h, catalogCache'), stored["catalog"][q.op.item] = q.op.body
    PROVE  On(r, cache, {q.op.item})
<1> DEFINE i == q.op.item
           d == Recorded(h[o], r, i, q.op.body, q.op.kind)
           g == [h EXCEPT ![o] = d]
<1>1. Saving(r, q, "history", o, g)
  BY DEF Record
<1>2. /\ IsHistory(h[o]) /\ \A s \in set : NotIn(s, h[o])
      /\ i \in Items /\ q.op.body \in Body(i)
  BY SoundIs DEF World, Maps, Request, MayBring
<1>3. NotIn(r, h[o]) /\ r \in Requests \cup {First}
  BY <1>2
<1> HIDE DEF i
<1>4. IsHistory(d)
  BY <1>2, <1>3, RecordedIs
<1>5. d \in Docs
  BY <1>4 DEF IsHistory, Docs
<1>6. Extended(r, q.op, d, HistoryNow(stored))
  BY <1>2 DEF Extended, i
<1> HIDE DEF d
<1>7. g \in Seq(Docs) /\ o \in 1..Len(g) /\ g[o] = d /\ \A c \in C : g[c] = h[c]
  BY <1>5, BesideEdited
<1> HIDE DEF g
<1>8. CatalogTrue(stored, g, catalogCache') /\ DefaultTrue(stored, g, dflt')
  BY <1>7 DEF CatalogTrue, DefaultTrue
<1>9. Extended(r, q.op, g[o], HistoryNow(stored))
  BY <1>6, <1>7
<1>10. On(r, cache, IF "history" = "history" /\ q.op.kind \in Bringing THEN {q.op.item} ELSE {})
  BY <1>1, <1>7, <1>8, <1>9, SavingFits
<1> QED
  BY <1>10

-------------------------------------------------------------------------------
(* The steps between two answers. *)

LEMMA SettledIs ==
    ASSUME Inv, NEW r \in Requests,
           Fits(r, req[r], stored, heap, dflt, catalogCache, vcsCache)
    PROVE  /\ World(heap, CatalogCells, HistoryCells, Silents)
           /\ dflt \in CatalogCells /\ req[r] \in Request
           /\ catalogCache \in CatalogCaches(CatalogCells) /\ vcsCache \in HistoryCaches(HistoryCells)
           /\ catalogCache \in [cell : Nat, isDefault : BOOLEAN, fresh : BOOLEAN]
           /\ ~Saves(req[r], "catalog") /\ ~Saves(req[r], "history") =>
                 Settled(heap, CatalogCells, HistoryCells, Silents, vcsCache)
           /\ heap \in Seq(Docs) /\ Len(heap) \in Nat
<1>1. /\ World(heap, CatalogCells, HistoryCells, Silents)
      /\ dflt \in CatalogCells /\ req[r] \in Request
      /\ catalogCache \in CatalogCaches(CatalogCells) /\ vcsCache \in HistoryCaches(HistoryCells)
  BY SceneIs DEF Scene
<1>2. heap \in Seq(Docs) /\ Len(heap) \in Nat
  BY DEF Inv, Typed
<1>3. catalogCache \in [cell : Nat, isDefault : BOOLEAN, fresh : BOOLEAN]
  BY DEF Inv, Typed
<1>4. vcsCache.cell \in HistoryCells \cup {0} /\ catalogCache.cell \in CatalogCells \cup {0}
  BY <1>1 DEF HistoryCaches, CatalogCaches
<1>5. ASSUME ~Saves(req[r], "catalog"), ~Saves(req[r], "history")
      PROVE  Settled(heap, CatalogCells, HistoryCells, Silents, vcsCache)
  BY <1>1, <1>4, <1>5 DEF Fits, Settled, Beside
<1> QED
  BY <1>1, <1>2, <1>3, <1>5

LEMMA BeginFits ==
    ASSUME Inv, Quiet, calm, NEW r \in Requests, NEW op \in Operation, Begin(r, op)
    PROVE  Alone(r) /\ stored' = stored /\ Owed(req[r]) = {} /\ On(r, vcsCache', {})
<1> DEFINE q == [req[r] EXCEPT !.op = op]
           doc == IF op.kind = "clear" THEN EmptyCatalog
                  ELSE [EmptyCatalog EXCEPT ![op.item] = op.body]
           C == CatalogCells
           H == HistoryCells
           new == Len(heap) + 1
           h == Append(heap, doc)
<1>1. /\ req[r].step = "idle" /\ stored' = stored
      /\ \A s \in Requests : req[s].step \in {"idle", "done"}
      /\ \/ op.kind \in {"save", "delete"} /\ NeedCatalog(r, q, heap) /\ vcsCache' = vcsCache
         \/ /\ op.kind \in {"rollback", "toggle"} /\ Usable(vcsCache)
            /\ WithHistory(r, q, vcsCache.cell, heap) /\ vcsCache' = vcsCache
         \/ /\ op.kind \in {"rollback", "toggle"} /\ Fetch(r, q, "look")
            /\ UNCHANGED <<heap, catalogCache, dflt>>
         \/ /\ op.kind \in {"clear", "import"} /\ Saving(r, q, "catalog", new, h)
            /\ UNCHANGED <<catalogCache, dflt, vcsCache>>
  BY DEF Begin
<1>2. /\ Rests(req[r]) /\ Alone(r)
      /\ Fits(r, req[r], stored, heap, dflt, catalogCache, vcsCache)
  BY <1>1, AloneIs DEF Rests
<1>3. Owed(req[r]) = {} /\ ~Saves(req[r], "catalog") /\ ~Saves(req[r], "history")
  BY <1>2, RestingIs DEF Owed
<1>4. /\ Settled(heap, C, H, Silents, vcsCache) /\ req[r] \in Request
      /\ catalogCache \in [cell : Nat, isDefault : BOOLEAN, fresh : BOOLEAN]
      /\ vcsCache \in HistoryCaches(H)
  BY <1>2, <1>3, SettledIs
<1>5. /\ op \in [kind : Kinds, item : Items, body : Bodies \cup {Absent}, num : Asked \cup {0}]
      /\ op.kind \in {"save", "import"} => op.body \in Body(op.item)
      /\ op.kind # "create"
  BY OperationIs
<1>6. q \in Request /\ q.op = op
  BY <1>4, <1>5 DEF Request
<1> HIDE DEF q, C, H
<1>7. CASE op.kind \in {"save", "delete"} /\ NeedCatalog(r, q, heap) /\ vcsCache' = vcsCache
  <2>1. MayBring(q)
    BY <1>5, <1>6, <1>7 DEF MayBring, Bringing
  <2>2. On(r, vcsCache, {})
    BY <1>4, <1>6, <1>7, <2>1, NeedCatalogFits
  <2> QED
    BY <1>1, <1>2, <1>3, <1>7, <2>2
<1>8. CASE /\ op.kind \in {"rollback", "toggle"} /\ Usable(vcsCache)
           /\ WithHistory(r, q, vcsCache.cell, heap) /\ vcsCache' = vcsCache
  <2> DEFINE o == vcsCache.cell
  <2>1. o \in H /\ heap[o] = HistoryNow(stored) /\ WithHistory(r, q, o, heap)
    BY <1>4, <1>8 DEF Settled, Beside, HistoryTrue, Usable
  <2> HIDE DEF o
  <2>2. On(r, vcsCache, {})
    BY <1>4, <1>6, <2>1, WithHistoryFits
  <2> QED
    BY <1>1, <1>2, <1>3, <1>8, <2>2
<1>9. CASE /\ op.kind \in {"rollback", "toggle"} /\ Fetch(r, q, "look")
           /\ UNCHANGED <<heap, catalogCache, dflt>>
  <2> DEFINE step == "look"
             map == "history"
  <2>1. step \in {"look", "read", "record"} /\ map \in Maps /\ step # "record"
    BY DEF Maps
  <2>2. /\ req' = [req EXCEPT ![r] = Call([q EXCEPT !.step = step], "get", map)]
        /\ vcsCache'.cell = vcsCache.cell
    BY <1>4, <1>9 DEF Fetch, HistoryCaches
  <2>3. /\ DefaultTrue(stored, heap', dflt') /\ CatalogTrue(stored, heap', catalogCache')
        /\ catalogCache'.cell # 0 => stored["catalog"] # NoDoc
        /\ HistoryTrue(stored, heap', vcsCache')
    BY <1>4, <1>9, <2>2 DEF Settled, Beside, HistoryTrue
  <2> HIDE DEF step, map
  <2>4. On(r, vcsCache', IF step = "record" THEN {q.op.item} ELSE {})
    BY <1>6, <2>1, <2>2, <2>3, CallFits
  <2> QED
    BY <1>1, <1>2, <1>3, <2>1, <2>4
<1>10. CASE /\ op.kind \in {"clear", "import"} /\ Saving(r, q, "catalog", new, h)
            /\ UNCHANGED <<catalogCache, dflt, vcsCache>>
  <2>1. IsCatalog(doc)
    BY <1>5, <1>10, EmptyIs, EditIs
  <2>2. doc \in Docs
    BY <2>1 DEF IsCatalog, Docs
  <2>3. Edited(op, doc, CatalogNow(stored))
    BY <1>10 DEF Edited
  <2> HIDE DEF doc
  <2>4. World(heap, C, H, Silents)
    BY <1>4 DEF Settled, Beside
  <2>5. /\ h \in Seq(Docs) /\ new \in 1..Len(h) /\ h[new] = doc
        /\ \A c \in C \cup H : h[c] = heap[c]
    <3>1. h = Append(heap, doc)
      OBVIOUS
    <3> HIDE DEF h
    <3>2. Grown(h, heap, doc, C \cup H)
      BY <2>2, <2>4, <3>1, BesideGrown
    <3> QED
      BY <3>2 DEF Grown
  <2> HIDE DEF h, new
  <2>6. /\ DefaultTrue(stored, h, dflt') /\ HistoryTrue(stored, h, vcsCache')
        /\ catalogCache'.cell # 0 => stored["catalog"] # NoDoc
    BY <1>4, <1>10, <2>5 DEF Settled, Beside, HistoryTrue, DefaultTrue
  <2>7. Edited(q.op, h[new], CatalogNow(stored))
    BY <1>6, <2>3, <2>5
  <2>8. On(r, vcsCache', IF "catalog" = "history" /\ q.op.kind \in Bringing THEN {q.op.item} ELSE {})
    BY <1>6, <1>10, <2>5, <2>6, <2>7, SavingFits
  <2> QED
    BY <1>1, <1>2, <1>3, <2>8
<1> QED
  BY <1>1, <1>7, <1>8, <1>9, <1>10

LEMMA NoDocIs ==
    ASSUME NEW d
    PROVE  (IsCatalog(d) => d # NoDoc) /\ (IsHistory(d) => d # NoDoc)
<1>1. IsCatalog(d) => d # NoDoc
  BY NoDocAssumption DEF IsCatalog, Values
<1>2. IsHistory(d) => d # NoDoc
  BY NoDocAssumption DEF IsHistory, Commit
<1> QED
  BY <1>1, <1>2

\* The request whose call is answered, and what it was told.
AtWork(r) ==
    /\ Alone(r) /\ Apt(r, req[r], stored, heap, dflt) /\ req[r] \in Request
    /\ Fits(r, req[r], stored, heap, dflt, catalogCache, vcsCache)
    /\ Calls(req[r]) /\ Brings(req[r]) /\ Told(req[r], stored)
    /\ World(heap, CatalogCells, HistoryCells, Silents)
    /\ dflt \in CatalogCells
    /\ catalogCache \in CatalogCaches(CatalogCells) /\ vcsCache \in HistoryCaches(HistoryCells)

LEMMA AtWorkIs ==
    ASSUME Inv, Quiet, calm, NEW r \in Requests, ~Rests(req[r])
    PROVE  /\ AtWork(r) /\ Short(stored)
           /\ ~Saves(req[r], "catalog") /\ ~Saves(req[r], "history") =>
                 Settled(heap, CatalogCells, HistoryCells, Silents, vcsCache)
           /\ catalogCache \in [cell : Nat, isDefault : BOOLEAN, fresh : BOOLEAN]
<1>1. Alone(r) /\ Short(stored) /\ Fits(r, req[r], stored, heap, dflt, catalogCache, vcsCache)
  BY AloneIs
<1>2. Apt(r, req[r], stored, heap, dflt)
  BY <1>1 DEF Fits
<1>3. Told(req[r], stored)
  BY <1>2 DEF Apt
<1>4. Calls(req[r]) /\ Brings(req[r])
  BY WaitingIs
<1>5. /\ World(heap, CatalogCells, HistoryCells, Silents)
      /\ dflt \in CatalogCells /\ req[r] \in Request
      /\ catalogCache \in CatalogCaches(CatalogCells) /\ vcsCache \in HistoryCaches(HistoryCells)
      /\ catalogCache \in [cell : Nat, isDefault : BOOLEAN, fresh : BOOLEAN]
      /\ ~Saves(req[r], "catalog") /\ ~Saves(req[r], "history") =>
            Settled(heap, CatalogCells, HistoryCells, Silents, vcsCache)
  BY <1>1, SettledIs
<1> QED
  BY <1>1, <1>2, <1>3, <1>4, <1>5 DEF AtWork

LEMMA CatalogReadFits ==
    ASSUME Inv, Quiet, calm, NEW r \in Requests, CatalogRead(r)
    PROVE  Alone(r) /\ stored' = stored /\ On(r, vcsCache', Owed(req[r]))
<1> DEFINE q == req[r]
           C == CatalogCells
           H == HistoryCells
           new == Len(heap) + 1
           D == C \cup {new}
           h == Append(heap, q.got)
           p == Call([q EXCEPT !.step = "default", !.cell = dflt, !.text = heap[dflt]],
                     "check", "catalog")
<1>1. /\ q.step = "read" /\ q.map = "catalog" /\ q.answer # "none"
      /\ stored' = stored /\ vcsCache' = vcsCache
      /\ \/ q.got # NoDoc /\ WithCatalog(r, q, new, FALSE, TRUE, h)
         \/ /\ q.got = NoDoc /\ req' = [req EXCEPT ![r] = p]
            /\ UNCHANGED <<heap, catalogCache, dflt>>
  BY DEF CatalogRead, Answered
<1>2. ~Rests(q) /\ ~Saves(q, "catalog") /\ ~Saves(q, "history") /\ ~Owes(q)
  BY <1>1 DEF Rests, Saves, Owes
<1>3. AtWork(r) /\ Settled(heap, C, H, Silents, vcsCache)
  BY <1>2, AtWorkIs
<1>4. q.got = stored["catalog"]
  BY <1>1, <1>3 DEF AtWork, Told, Calls
<1>5. MayBring(q) /\ Owed(q) = {} /\ q \in Request /\ Alone(r)
  BY <1>1, <1>2, <1>3 DEF AtWork, Brings, MayBring, Owed
<1>6. CASE q.got # NoDoc /\ WithCatalog(r, q, new, FALSE, TRUE, h)
  <2>1. Sound("catalog", q.got, Silents)
    BY <1>1, <1>6, WaitingIs DEF Kept
  <2>2. q.got \in Docs
    BY <2>1, SoundIs DEF Maps
  <2>3. World(heap, C, H, Silents) /\ vcsCache.cell \in H \cup {0} /\ HistoryTrue(stored, heap, vcsCache)
    BY <1>3 DEF Settled, Beside
  <2> HIDE DEF C, H
  <2>4. World(h, D, H, Silents)
    BY <2>1, <2>3, WorldGrown
  <2>5. Grown(h, heap, q.got, C \cup H)
    <3>1. h = Append(heap, q.got)
      OBVIOUS
    <3> HIDE DEF h
    <3> QED
      BY <2>2, <2>3, <3>1, BesideGrown
  <2> HIDE DEF h
  <2>6. HistoryTrue(stored, h, vcsCache)
    BY <2>3, <2>5 DEF Grown, HistoryTrue
  <2>7. Beside(h, D, H, Silents, vcsCache)
    BY <2>3, <2>4, <2>6 DEF Beside
  <2>8. new \in D /\ h[new] = stored["catalog"] /\ stored["catalog"] # NoDoc
    BY <1>4, <1>6, <2>5 DEF Grown
  <2> HIDE DEF D, q, new
  <2>9. PICK isDefault, isFresh : WithCatalog(r, q, new, isDefault, isFresh, h)
    BY <1>6
  <2>10. On(r, vcsCache, {})
    BY <1>5, <2>7, <2>8, <2>9, WithCatalogFits
  <2> QED
    BY <1>1, <1>5, <2>10 DEF q
<1>7. CASE /\ q.got = NoDoc /\ req' = [req EXCEPT ![r] = p]
           /\ UNCHANGED <<heap, catalogCache, dflt>>
  <2> DEFINE text == heap[dflt]
             q1 == [q EXCEPT !.step = "default", !.cell = dflt, !.text = text]
  <2>1. stored["catalog"] = NoDoc /\ text = EmptyCatalog
    BY <1>3, <1>4, <1>7 DEF Settled, DefaultTrue
  <2>2. text \in Docs /\ dflt \in Nat
    BY <1>3 DEF AtWork, World
  <2> HIDE DEF text
  <2>3. /\ q1 \in Request /\ q1.step = "default" /\ q1.cell = dflt /\ q1.text = text
        /\ q1.op = q.op
    BY <1>5, <2>2 DEF Request
  <2>4. p = Call(q1, "check", "catalog")
    BY DEF text
  <2> HIDE DEF q1, p
  <2>5. /\ p.step = "default" /\ p.cell = dflt /\ p.text = text /\ p.answer = "none"
        /\ p.call = "check" /\ p.map = "catalog"
    BY <2>3, <2>4, CallIs DEF Maps
  <2>6. Told(p, stored) /\ ~Saves(p, "catalog") /\ ~Saves(p, "history") /\ ~Owes(p)
    BY <2>5 DEF Told, Saves, Owes
  <2>7. Apt(r, p, stored, heap, dflt)
    BY <2>1, <2>5, <2>6 DEF Apt, text
  <2>8. Fits(r, p, stored, heap', dflt', catalogCache', vcsCache)
    BY <1>3, <1>7, <2>7 DEF Fits, Settled, Beside
  <2>9. Owed(p) = {}
    BY <2>6 DEF Owed
  <2>10. On(r, vcsCache, {})
    BY <1>7, <2>8, <2>9 DEF On
  <2> QED
    BY <1>1, <1>5, <2>10
<1> QED
  BY <1>1, <1>6, <1>7

LEMMA DefaultSavedFits ==
    ASSUME Inv, Quiet, calm, NEW r \in Requests, DefaultSaved(r)
    PROVE  Alone(r) /\ stored' = stored /\ On(r, vcsCache', Owed(req[r]))
<1> DEFINE q == req[r]
           isFresh == q.answer = "thrown" => catalogCache.fresh
<1>1. /\ q.step = "default" /\ q.map = "catalog" /\ q.answer # "none"
      /\ stored' = stored /\ vcsCache' = vcsCache
      /\ WithCatalog(r, q, dflt, TRUE, isFresh, heap)
  BY DEF DefaultSaved, Answered
<1>2. ~Rests(q) /\ ~Saves(q, "catalog") /\ ~Saves(q, "history") /\ ~Owes(q)
  BY <1>1 DEF Rests, Saves, Owes
<1>3. AtWork(r) /\ Settled(heap, CatalogCells, HistoryCells, Silents, vcsCache)
  BY <1>2, AtWorkIs
<1>4. MayBring(q) /\ Owed(q) = {} /\ q \in Request /\ Alone(r)
  BY <1>1, <1>2, <1>3 DEF AtWork, Brings, MayBring, Owed
<1>5. heap[dflt] = stored["catalog"]
  BY <1>1, <1>3 DEF AtWork, Told, Apt
<1>6. stored["catalog"] # NoDoc
  BY <1>1, <1>3, <1>5, EmptyIs, NoDocIs DEF AtWork, Told, Apt
<1>7. Beside(heap, CatalogCells, HistoryCells, Silents, vcsCache) /\ dflt \in CatalogCells
  BY <1>3 DEF Settled
<1>8. PICK isDefault, fresh : WithCatalog(r, q, dflt, isDefault, fresh, heap)
  BY <1>1
<1> HIDE DEF q, isFresh
<1>9. On(r, vcsCache, {})
  BY <1>4, <1>5, <1>6, <1>7, <1>8, WithCatalogFits
<1> QED
  BY <1>1, <1>4, <1>9 DEF q

LEMMA CatalogSavedFits ==
    ASSUME Inv, Quiet, calm, NEW r \in Requests, CatalogSaved(r)
    PROVE  Alone(r) /\ stored' = stored /\ On(r, vcsCache', Owed(req[r]))
<1> DEFINE q == req[r]
           C == CatalogCells
           H == HistoryCells
<1>1. /\ q.step = "check" /\ q.map = "catalog" /\ q.answer # "none"
      /\ stored' = stored /\ dflt' = dflt
      /\ catalogCache' = [cell |-> q.cell, isDefault |-> FALSE, fresh |-> TRUE]
      /\ \/ /\ q.op.kind \in {"delete", "clear"} /\ req' = [req EXCEPT ![r] = Done]
            /\ UNCHANGED <<heap, vcsCache>>
         \/ /\ q.op.kind \notin {"delete", "clear"} /\ Usable(vcsCache)
            /\ Record(r, q, vcsCache.cell, heap) /\ UNCHANGED vcsCache
         \/ /\ q.op.kind \notin {"delete", "clear"} /\ Fetch(r, q, "record") /\ UNCHANGED heap
  BY DEF CatalogSaved, Answered
<1>2. ~Rests(q) /\ ~Saves(q, "history") /\ Saves(q, "catalog")
  BY <1>1 DEF Rests, Saves
<1>3. AtWork(r)
  BY <1>2, AtWorkIs
<1>4. heap[q.cell] = stored["catalog"] /\ q.text = stored["catalog"] /\ q.answer = "ok"
  BY <1>1, <1>3 DEF AtWork, Told, Apt
<1>5. stored["catalog"] # NoDoc
  <2>1. Sound("catalog", q.text, Silents)
    BY <1>1 DEF Inv, Carries
  <2> QED
    BY <1>4, <2>1, NoDocIs DEF Sound
<1>6. /\ CatalogTrue(stored, heap, catalogCache') /\ DefaultTrue(stored, heap, dflt')
      /\ catalogCache'.cell # 0 => stored["catalog"] # NoDoc
  BY <1>1, <1>4, <1>5 DEF CatalogTrue, DefaultTrue
<1>7. HistoryTrue(stored, heap, vcsCache) /\ q \in Request /\ Alone(r)
  BY <1>2, <1>3 DEF AtWork, Fits
<1>8. MayBring(q) /\ (q.op.kind \notin {"delete", "clear"} <=> q.op.kind \in Bringing)
  BY <1>1, <1>3 DEF AtWork, MayBring, Calls, Brings, Request, Kinds, Bringing
<1>9. Owes(q) <=> q.op.kind \in Bringing
  BY <1>1, <1>4 DEF Owes
<1>10. q.op.kind \in Bringing => stored["catalog"][q.op.item] = q.op.body
  BY <1>3, <1>9 DEF AtWork, Apt
<1>11. World(heap, C, H, Silents) /\ dflt' \in C /\ vcsCache \in HistoryCaches(H) /\ r \in Silents
  BY <1>1, <1>3, WaitingIs DEF AtWork
<1>12. catalogCache'.cell \in C \cup {0}
  BY <1>1, WaitingIs
<1> HIDE DEF C, H
<1>13. CASE /\ q.op.kind \in {"delete", "clear"} /\ req' = [req EXCEPT ![r] = Done]
            /\ UNCHANGED <<heap, vcsCache>>
  <2>1. Owed(q) = {}
    BY <1>8, <1>9, <1>13 DEF Owed
  <2>2. On(r, vcsCache', {})
    BY <1>6, <1>7, <1>13, DoneFits
  <2> QED
    BY <1>1, <1>7, <2>1, <2>2
<1>14. CASE /\ q.op.kind \notin {"delete", "clear"} /\ Usable(vcsCache)
            /\ Record(r, q, vcsCache.cell, heap) /\ UNCHANGED vcsCache
  <2> DEFINE o == vcsCache.cell
  <2>1. o \in H /\ heap[o] = HistoryNow(stored) /\ Record(r, q, o, heap)
    BY <1>7, <1>11, <1>14 DEF HistoryCaches, HistoryTrue, Usable
  <2>2. Owed(q) = {q.op.item} /\ q.op.kind \in Bringing
    BY <1>8, <1>9, <1>14 DEF Owed
  <2> HIDE DEF o, q
  <2>3. On(r, vcsCache, {q.op.item})
    BY <1>5, <1>6, <1>7, <1>8, <1>10, <1>11, <1>12, <2>1, <2>2, RecordFits
  <2> QED
    BY <1>1, <1>7, <1>14, <2>2, <2>3 DEF q
<1>15. CASE q.op.kind \notin {"delete", "clear"} /\ Fetch(r, q, "record") /\ UNCHANGED heap
  <2> DEFINE step == "record"
             map == "history"
  <2>1. step \in {"look", "read", "record"} /\ map \in Maps /\ step = "record"
    BY DEF Maps
  <2>2. /\ req' = [req EXCEPT ![r] = Call([q EXCEPT !.step = step], "get", map)]
        /\ vcsCache'.cell = vcsCache.cell
    BY <1>11, <1>15 DEF Fetch, HistoryCaches
  <2>3. /\ DefaultTrue(stored, heap', dflt') /\ CatalogTrue(stored, heap', catalogCache')
        /\ HistoryTrue(stored, heap', vcsCache')
    BY <1>6, <1>7, <1>15, <2>2 DEF HistoryTrue
  <2>4. Owed(q) = {q.op.item} /\ q.op.kind \in Bringing
    BY <1>8, <1>9, <1>15 DEF Owed
  <2> HIDE DEF step, map
  <2>5. On(r, vcsCache', IF step = "record" THEN {q.op.item} ELSE {})
    BY <1>5, <1>6, <1>7, <1>10, <2>1, <2>2, <2>3, <2>4, CallFits
  <2> QED
    BY <1>1, <1>7, <2>1, <2>4, <2>5
<1> QED
  BY <1>1, <1>13, <1>14, <1>15

LEMMA HistoryReadFits ==
    ASSUME Inv, Quiet, calm, NEW r \in Requests, HistoryRead(r)
    PROVE  Alone(r) /\ stored' = stored /\ On(r, vcsCache', Owed(req[r]))
<1> DEFINE q == req[r]
           C == CatalogCells
           H == HistoryCells
           new == Len(heap) + 1
           G == H \cup {new}
           d == IF q.got = NoDoc THEN EmptyHistory ELSE q.got
           h == Append(heap, d)
<1>1. /\ q.map = "history" /\ q.answer # "none" /\ stored' = stored
      /\ vcsCache' = [cell |-> new, fresh |-> TRUE]
      /\ \/ q.step = "look" /\ WithHistory(r, q, new, h)
         \/ q.step = "record" /\ Record(r, q, new, h) /\ UNCHANGED <<catalogCache, dflt>>
  BY DEF HistoryRead, Answered
<1>2. /\ ~Rests(q) /\ ~Saves(q, "catalog") /\ ~Saves(q, "history")
      /\ Owes(q) <=> q.op.kind \in Bringing /\ q.step = "record"
  BY <1>1 DEF Rests, Saves, Owes
<1>3. /\ AtWork(r) /\ Settled(heap, C, H, Silents, vcsCache)
      /\ catalogCache \in [cell : Nat, isDefault : BOOLEAN, fresh : BOOLEAN]
  BY <1>2, AtWorkIs
<1>4. d = HistoryNow(stored)
  BY <1>1, <1>3 DEF AtWork, Told, Calls, HistoryNow
<1>5. q \in Request /\ Alone(r) /\ World(heap, C, H, Silents)
  BY <1>3 DEF AtWork
<1>6. r \in Silents /\ Kept("history", q.got, Silents)
  BY <1>1, WaitingIs
<1>7. Sound("history", d, Silents)
  BY <1>6, EmptyIs, SoundIs DEF Kept, Maps
<1>8. d \in Docs
  BY <1>7, SoundIs DEF Maps
<1> HIDE DEF d, C, H
<1>9. World(h, C, G, Silents)
  BY <1>5, <1>7, WorldGrown
<1>10. Grown(h, heap, d, C \cup H)
  <2>1. h = Append(heap, d)
    OBVIOUS
  <2> HIDE DEF h
  <2> QED
    BY <1>5, <1>8, <2>1, BesideGrown
<1> HIDE DEF h
<1>11. new \in G /\ h[new] = HistoryNow(stored) /\ vcsCache'.cell = new
  BY <1>1, <1>4, <1>10 DEF Grown
<1>12. HistoryTrue(stored, h, vcsCache')
  BY <1>11 DEF HistoryTrue
<1>13. CatalogTrue(stored, h, catalogCache) /\ DefaultTrue(stored, h, dflt)
  BY <1>3, <1>10 DEF Settled, CatalogTrue, DefaultTrue, Grown
<1>14. Settled(h, C, G, Silents, vcsCache')
  BY <1>3, <1>9, <1>11, <1>12, <1>13 DEF Settled, Beside
<1> HIDE DEF G, new
<1>15. CASE q.step = "look" /\ WithHistory(r, q, new, h)
  <2>1. Owed(q) = {}
    BY <1>2, <1>15 DEF Owed
  <2> HIDE DEF q
  <2>2. On(r, vcsCache', {})
    BY <1>3, <1>5, <1>11, <1>14, <1>15, WithHistoryFits
  <2> QED
    BY <1>1, <1>5, <2>1, <2>2 DEF q
<1>16. CASE q.step = "record" /\ Record(r, q, new, h) /\ UNCHANGED <<catalogCache, dflt>>
  <2>1. q.op.kind \in Bringing /\ MayBring(q)
    BY <1>3, <1>16 DEF AtWork, Calls, Brings, MayBring
  <2>2. Owed(q) = {q.op.item} /\ stored["catalog"] # NoDoc /\ stored["catalog"][q.op.item] = q.op.body
    BY <1>2, <1>3, <1>16, <2>1 DEF Owed, AtWork, Apt
  <2>3. dflt' \in C /\ catalogCache'.cell \in C \cup {0} /\ CatalogTrue(stored, h, catalogCache')
    BY <1>3, <1>13, <1>16 DEF Settled
  <2> HIDE DEF q
  <2>4. On(r, vcsCache', {q.op.item})
    BY <1>5, <1>6, <1>9, <1>11, <1>16, <2>1, <2>2, <2>3, RecordFits
  <2> QED
    BY <1>1, <1>5, <2>2, <2>4 DEF q
<1> QED
  BY <1>1, <1>15, <1>16

LEMMA HistorySavedFits ==
    ASSUME Inv, Quiet, calm, NEW r \in Requests, HistorySaved(r)
    PROVE  Alone(r) /\ stored' = stored /\ On(r, vcsCache', Owed(req[r]))
<1> DEFINE q == req[r]
<1>1. /\ q.step = "check" /\ q.map = "history" /\ q.answer # "none"
      /\ vcsCache' = [cell |-> q.cell, fresh |-> TRUE]
      /\ req' = [req EXCEPT ![r] = Done]
      /\ UNCHANGED <<stored, heap, dflt, catalogCache>>
  BY DEF HistorySaved, Answered
<1>2. ~Rests(q) /\ ~Saves(q, "catalog")
  BY <1>1 DEF Rests, Saves
<1>3. AtWork(r)
  BY <1>2, AtWorkIs
<1>4. heap[q.cell] = stored["history"] /\ q.text = stored["history"] /\ q.answer = "ok"
  BY <1>1, <1>3 DEF AtWork, Told, Apt
<1>5. stored["history"] # NoDoc
  <2>1. Sound("history", q.text, Silents)
    BY <1>1 DEF Inv, Carries
  <2> QED
    BY <1>4, <2>1, SoundIs, NoDocIs DEF Maps
<1>6. HistoryTrue(stored, heap', vcsCache')
  BY <1>1, <1>4, <1>5 DEF HistoryTrue, HistoryNow
<1>7. /\ DefaultTrue(stored, heap', dflt') /\ CatalogTrue(stored, heap', catalogCache')
      /\ catalogCache'.cell # 0 => stored["catalog"] # NoDoc
  BY <1>1, <1>2, <1>3 DEF AtWork, Fits
<1>8. Owed(q) = {} /\ Alone(r)
  BY <1>1, <1>3, <1>4 DEF Owed, Owes, AtWork
<1>9. On(r, vcsCache', {})
  BY <1>1, <1>6, <1>7, DoneFits
<1> QED
  BY <1>1, <1>8, <1>9

-------------------------------------------------------------------------------
(* What the promise sees of the two documents. *)

EntryOf(rev) == [num |-> rev.num, body |-> rev.body, working |-> rev.working]
Entries(revs) == [k \in DOMAIN revs |-> EntryOf(revs[k])]
Shown(g) == [i \in Items |-> Entries(g.revs[i])]
Entry == [num : Nat, body : Bodies, working : BOOLEAN]

LEMMA EntriesAre ==
    ASSUME NEW i \in Items, NEW s \in Seq(RevOf(i))
    PROVE  /\ Entries(s) \in Seq(Entry) /\ Len(Entries(s)) = Len(s) /\ Len(s) \in Nat
           /\ DOMAIN Entries(s) = 1..Len(s) /\ DOMAIN s = 1..Len(s)
           /\ \A k \in 1..Len(s) : Entries(s)[k] = EntryOf(s[k]) /\ s[k] \in RevOf(i)
<1>1. DOMAIN s = 1..Len(s) /\ Len(s) \in Nat /\ \A k \in 1..Len(s) : s[k] \in RevOf(i)
  OBVIOUS
<1>2. Body(i) \subseteq Bodies
  BY DEF Body, Bodies
<1>3. \A rev \in RevOf(i) : EntryOf(rev) \in Entry
  BY <1>2 DEF RevOf, EntryOf, Entry
<1>4. Entries(s) = [k \in 1..Len(s) |-> EntryOf(s[k])]
  BY <1>1 DEF Entries
<1>5. \A k \in 1..Len(s) : EntryOf(s[k]) \in Entry
  BY <1>1, <1>3
<1> DEFINE t == Entries(s)
           n == Len(s)
<1>6. t \in [1..n -> Entry]
  BY <1>4, <1>5
<1>7. t \in Seq(Entry) /\ Len(t) = n
  <2> HIDE DEF t, n
  <2>1. n \in Nat
    BY <1>1 DEF n
  <2> QED
    BY <1>6, <2>1
<1> QED
  BY <1>1, <1>4, <1>7

LEMMA SameLists ==
    ASSUME NEW T, NEW a \in Seq(T), NEW b \in Seq(T), Len(a) = Len(b),
           \A k \in 1..Len(a) : a[k] = b[k]
    PROVE  a = b
OBVIOUS

LEMMA NoEntries == Entries(<<>>) = <<>>
BY DEF Entries

\* A list of entries tells a revision and those before it, and so does what is kept.
Topped(all, rev, s) == all = <<EntryOf(rev)>> \o Entries(s)
CutAlike(all, rev, s, n) == Entries(Up(<<rev>> \o s, n)) = Up(all, n)

LEMMA EntriesUp ==
    ASSUME NEW i \in Items, NEW s \in Seq(RevOf(i)), NEW rev \in RevOf(i),
           NEW n \in Nat, NEW all, Topped(all, rev, s)
    PROVE  CutAlike(all, rev, s, n)
<1> DEFINE t == <<rev>> \o s
           T == Entries(s)
           m == IF Len(t) > n THEN n ELSE Len(t)
           a == Entries(SubSeq(t, 1, m))
           b == SubSeq(all, 1, m)
<1>1. T \in Seq(Entry) /\ Len(T) = Len(s) /\ \A k \in 1..Len(s) : T[k] = EntryOf(s[k])
  BY EntriesAre
<1>2. EntryOf(rev) \in Entry
  <2>1. Body(i) \subseteq Bodies
    BY DEF Body, Bodies
  <2> QED
    BY <2>1 DEF RevOf, EntryOf, Entry
<1>3. /\ t \in Seq(RevOf(i)) /\ Len(t) = Len(s) + 1 /\ Len(s) \in Nat /\ t[1] = rev
      /\ \A k \in 1..Len(s) : t[k + 1] = s[k]
  BY Prepended
<1>4. /\ all \in Seq(Entry) /\ Len(all) = Len(T) + 1 /\ all[1] = EntryOf(rev)
      /\ \A k \in 1..Len(T) : all[k + 1] = T[k]
  <2> HIDE DEF T
  <2> DEFINE e == EntryOf(rev)
  <2>1. all = <<e>> \o T /\ e \in Entry
    BY <1>2 DEF T, Topped
  <2> HIDE DEF e
  <2>2. /\ <<e>> \o T \in Seq(Entry) /\ Len(<<e>> \o T) = Len(T) + 1 /\ (<<e>> \o T)[1] = e
        /\ \A k \in 1..Len(T) : (<<e>> \o T)[k + 1] = T[k]
    BY <1>1, <2>1, Prepended
  <2> QED
    BY <2>1, <2>2 DEF e
<1> HIDE DEF T, t
<1>5. Len(all) = Len(t) /\ Len(t) \in Nat
  BY <1>1, <1>3, <1>4
<1>6. \A k \in 1..Len(t) : all[k] = EntryOf(t[k])
  <2> SUFFICES ASSUME NEW k \in 1..Len(t) PROVE all[k] = EntryOf(t[k])
    OBVIOUS
  <2>1. CASE k = 1
    BY <1>3, <1>4, <2>1
  <2>2. CASE k # 1
    <3> DEFINE c == Len(s)
               l == k - 1
    <3>1. c \in Nat /\ k \in 1..c + 1
      BY <1>3
    <3> HIDE DEF c
    <3>2. l \in 1..c /\ k = l + 1
      BY <2>2, <3>1
    <3> HIDE DEF l
    <3>3. l \in 1..Len(s) /\ l \in 1..Len(T)
      BY <1>1, <3>2 DEF c
    <3>4. all[l + 1] = T[l] /\ t[l + 1] = s[l] /\ T[l] = EntryOf(s[l])
      BY <1>1, <1>3, <1>4, <3>3
    <3> QED
      BY <3>2, <3>4
  <2> QED
    BY <2>1, <2>2
<1>7. m \in 0..Len(t) /\ m \in 0..Len(all) /\ m = IF Len(all) > n THEN n ELSE Len(all)
  <2> DEFINE c == Len(t)
  <2>1. c \in Nat
    BY <1>5
  <2>2. (IF c > n THEN n ELSE c) \in 0..c
    <3> HIDE DEF c
    <3> QED
      BY <2>1
  <2> QED
    BY <1>5, <2>2
<1> HIDE DEF m
<1> DEFINE h == SubSeq(t, 1, m)
<1>8. h \in Seq(RevOf(i)) /\ Len(h) = m /\ \A k \in 1..m : h[k] = t[k]
  BY <1>3, <1>7, HeadIs
<1>9. b \in Seq(Entry) /\ Len(b) = m /\ \A k \in 1..m : b[k] = all[k]
  BY <1>4, <1>7, HeadIs
<1> HIDE DEF h, b
<1>10. /\ Entries(h) \in Seq(Entry) /\ Len(Entries(h)) = m
       /\ \A k \in 1..m : Entries(h)[k] = EntryOf(h[k])
  BY <1>8, EntriesAre
<1>11. \A k \in 1..m : k \in 1..Len(t)
  BY <1>5, <1>7
<1>12. \A k \in 1..m : Entries(h)[k] = b[k]
  BY <1>6, <1>8, <1>9, <1>10, <1>11
<1>13. Entries(h) = b
  BY <1>9, <1>10, <1>12, SameLists
<1>14. Up(t, n) = h
  BY DEF Up, h, m
<1>15. Up(all, n) = b
  BY <1>7 DEF Up, b
<1> QED
  BY <1>13, <1>14, <1>15 DEF t, CutAlike

Bounded(g) == \A i \in Items : Len(g.revs[i]) <= MaxRevisions

\* The newest of the entries of an item, before any is dropped.
Newer(log, i, body, working) ==
    [num |-> IF log[i] = <<>> THEN 1 ELSE Head(log[i]).num + 1, body |-> body, working |-> working]

LEMMA ShownIs ==
    ASSUME NEW g, IsHistory(g)
    PROVE  /\ Shown(g) \in [Items -> Seq(Entry)]
           /\ \A i \in Items : Shown(g)[i] = Entries(g.revs[i]) /\ g.revs[i] \in Seq(RevOf(i))
<1>1. \A i \in Items : g.revs[i] \in Seq(RevOf(i))
  BY DEF IsHistory
<1>2. \A i \in Items : Entries(g.revs[i]) \in Seq(Entry)
  BY <1>1, EntriesAre
<1> QED
  BY <1>1, <1>2 DEF Shown

LEMMA RecordedShown ==
    ASSUME NEW g, IsHistory(g), Bounded(g), NEW i \in Items, NEW r \in Requests \cup {First},
           NEW body \in Body(i), NEW kind, NEW text, text = Recorded(g, r, i, body, kind)
    PROVE  /\ Bounded(text)
           /\ \E working \in BOOLEAN :
                 Shown(text) = [Shown(g) EXCEPT ![i] =
                     Up(<<Newer(Shown(g), i, body, working)>> \o Shown(g)[i], MaxRevisions)]
<1> DEFINE revs == g.revs[i]
           rev == NewRev(g, r, i, body, kind)
           t == Up(<<rev>> \o revs, MaxRevisions)
           working == kind = "create" \/ revs = <<>>
           log == Shown(g)
           next == Newer(log, i, body, working)
           all == <<next>> \o log[i]
<1>1. text.revs = [g.revs EXCEPT ![i] = t]
  BY DEF Recorded, NewRev
<1>2. rev \in RevOf(i)
  BY NewRevIs
<1>3. /\ log \in [Items -> Seq(Entry)]
      /\ \A j \in Items : log[j] = Entries(g.revs[j]) /\ g.revs[j] \in Seq(RevOf(j))
  BY ShownIs
<1>4. revs \in Seq(RevOf(i)) /\ log[i] = Entries(revs)
  BY <1>3
<1>5. g.revs \in [Items -> Seq(Rev)]
  BY DEF IsHistory
<1>6. EntryOf(rev) = next
  <2>1. /\ Entries(revs) \in Seq(Entry) /\ Len(Entries(revs)) = Len(revs) /\ Len(revs) \in Nat
        /\ \A k \in 1..Len(revs) : Entries(revs)[k] = EntryOf(revs[k])
    BY <1>4, EntriesAre
  <2>2. Entries(revs) = <<>> <=> revs = <<>>
    BY <1>4, <2>1
  <2>3. revs # <<>> => Head(Entries(revs)).num = Head(revs).num
    <3> SUFFICES ASSUME revs # <<>> PROVE Head(Entries(revs)).num = Head(revs).num
      OBVIOUS
    <3> HIDE DEF revs
    <3>1. Head(revs) = revs[1] /\ 1 \in 1..Len(revs) /\ Entries(revs) # <<>>
      BY <1>4, <2>1, <2>2
    <3>2. Head(Entries(revs)) = Entries(revs)[1]
      BY <2>1, <3>1
    <3>3. Head(Entries(revs)) = EntryOf(revs[1])
      BY <2>1, <3>1, <3>2
    <3> QED
      BY <3>1, <3>3 DEF EntryOf
  <2>4. rev.num = IF log[i] = <<>> THEN 1 ELSE Head(log[i]).num + 1
    <3>1. rev.num = IF revs = <<>> THEN 1 ELSE Head(revs).num + 1
      BY DEF NewRev
    <3> HIDE DEF rev, revs
    <3> QED
      BY <1>4, <2>2, <2>3, <3>1
  <2>5. rev.body = body
    BY DEF NewRev
  <2>6. rev.working = working
    BY DEF NewRev
  <2> HIDE DEF rev, working
  <2> QED
    BY <2>4, <2>5, <2>6 DEF EntryOf, Newer
<1>7. working \in BOOLEAN
  OBVIOUS
<1> HIDE DEF rev, working
<1>8. Entries(t) = Up(all, MaxRevisions)
  <2> HIDE DEF revs
  <2>1. Topped(all, rev, revs) /\ MaxRevisions \in Nat
    BY <1>4, <1>6, LimitAssumption DEF Topped
  <2> HIDE DEF all, next, log
  <2>2. revs \in Seq(RevOf(i)) /\ rev \in RevOf(i)
    BY <1>2, <1>4
  <2>3. CutAlike(all, rev, revs, MaxRevisions)
    BY <2>1, <2>2, EntriesUp
  <2> QED
    BY <2>3 DEF CutAlike
<1>9. Len(t) <= MaxRevisions
  <2>1. <<rev>> \o revs \in Seq(RevOf(i))
    BY <1>2, <1>4, Prepended
  <2> DEFINE s == <<rev>> \o revs
             n == Len(s)
             m == IF n > MaxRevisions THEN MaxRevisions ELSE n
  <2> HIDE DEF s
  <2>2. n \in Nat /\ MaxRevisions \in Nat
    BY <2>1, LimitAssumption DEF s
  <2> HIDE DEF n
  <2>3. m \in 0..n /\ m <= MaxRevisions
    BY <2>2
  <2>4. Up(s, MaxRevisions) = SubSeq(s, 1, m)
    BY DEF Up, n
  <2> HIDE DEF m
  <2>5. Len(SubSeq(s, 1, m)) = m
    BY <2>1, <2>3, HeadIs DEF s, n
  <2> QED
    BY <2>3, <2>4, <2>5 DEF s
<1> HIDE DEF t, all
<1>10. \A j \in Items : text.revs[j] = IF j = i THEN t ELSE g.revs[j]
  BY <1>1, <1>5
<1>11. Bounded(text)
  BY <1>9, <1>10 DEF Bounded
<1>12. \A j \in Items : Shown(text)[j] = IF j = i THEN Up(all, MaxRevisions) ELSE log[j]
  BY <1>3, <1>8, <1>10 DEF Shown
<1>13. Shown(text) = [log EXCEPT ![i] = Up(all, MaxRevisions)]
  <2>1. Shown(text) = [j \in Items |-> Shown(text)[j]]
    BY DEF Shown
  <2> DEFINE now == Shown(text)
             new == Up(all, MaxRevisions)
  <2> HIDE DEF now, new, log
  <2>2. now = [j \in Items |-> now[j]] /\ \A j \in Items : now[j] = IF j = i THEN new ELSE log[j]
    BY <1>12, <2>1 DEF now, new
  <2>3. now = [log EXCEPT ![i] = new]
    BY <1>3, <2>2
  <2> QED
    BY <2>3 DEF now, new
<1>14. Shown(text) = [Shown(g) EXCEPT ![i] =
                         Up(<<Newer(Shown(g), i, body, working)>> \o Shown(g)[i], MaxRevisions)]
  BY <1>13 DEF all
<1> QED
  BY <1>7, <1>11, <1>14

LEMMA ToggledShown ==
    ASSUME NEW g, IsHistory(g), Bounded(g), NEW i \in Items, NEW k \in 1..Len(g.revs[i]),
           NEW text, text = Toggled(g, i, k)
    PROVE  /\ Bounded(text) /\ k \in 1..MaxRevisions /\ k \in DOMAIN Shown(g)[i]
           /\ \E working \in BOOLEAN : Shown(text) = [Shown(g) EXCEPT ![i][k].working = working]
<1> DEFINE revs == g.revs[i]
           rev == [revs[k] EXCEPT !.working = ~revs[k].working]
           t == [revs EXCEPT ![k] = rev]
           log == Shown(g)
           working == ~revs[k].working
<1>1. g \in [revs : [Items -> Seq(Rev)], commits : Seq(Commit)]
  BY DEF IsHistory
<1>2. text.revs = [g.revs EXCEPT ![i] = t]
  <2> DEFINE all == [g.revs EXCEPT ![i] = t]
  <2>1. text = [g EXCEPT !.revs = all]
    BY DEF Toggled
  <2> HIDE DEF all
  <2>2. text.revs = all
    BY <1>1, <2>1
  <2> QED
    BY <2>2 DEF all
<1>3. /\ log \in [Items -> Seq(Entry)]
      /\ \A j \in Items : log[j] = Entries(g.revs[j]) /\ g.revs[j] \in Seq(RevOf(j))
  BY ShownIs
<1>4. revs \in Seq(RevOf(i)) /\ k \in 1..Len(revs) /\ revs[k] \in RevOf(i)
  BY <1>3
<1>5. working \in BOOLEAN
  BY <1>4 DEF RevOf
<1>6. rev \in RevOf(i) /\ EntryOf(rev) = [EntryOf(revs[k]) EXCEPT !.working = working]
  <2> DEFINE old == revs[k]
  <2>1. old \in RevOf(i)
    BY <1>4
  <2> HIDE DEF old
  <2>2. [old EXCEPT !.working = ~old.working] \in RevOf(i)
    BY <2>1 DEF RevOf
  <2>3. EntryOf([old EXCEPT !.working = ~old.working]) = [EntryOf(old) EXCEPT !.working = ~old.working]
    BY <2>1 DEF RevOf, EntryOf
  <2> QED
    BY <2>2, <2>3 DEF old
<1> HIDE DEF rev, working
<1>7. /\ t \in Seq(RevOf(i)) /\ Len(t) = Len(revs)
      /\ \A l \in 1..Len(revs) : t[l] = IF l = k THEN rev ELSE revs[l]
  <2> HIDE DEF revs
  <2> QED
    BY <1>4, <1>6
<1>8. /\ Entries(revs) \in Seq(Entry) /\ Len(Entries(revs)) = Len(revs) /\ Len(revs) \in Nat
      /\ DOMAIN Entries(revs) = 1..Len(revs)
      /\ \A l \in 1..Len(revs) : Entries(revs)[l] = EntryOf(revs[l])
  BY <1>4, EntriesAre
<1> HIDE DEF t
<1>9. /\ Entries(t) \in Seq(Entry) /\ Len(Entries(t)) = Len(revs)
      /\ \A l \in 1..Len(revs) : Entries(t)[l] = EntryOf(t[l])
  BY <1>7, EntriesAre
<1> DEFINE e == [Entries(revs) EXCEPT ![k].working = working]
<1>10. Entries(t) = e
  <2> DEFINE old == Entries(revs)
             new == Entries(t)
             n == Len(revs)
  <2>1. /\ old \in Seq(Entry) /\ Len(old) = n /\ n \in Nat /\ k \in 1..n
        /\ new \in Seq(Entry) /\ Len(new) = n
    BY <1>4, <1>8, <1>9
  <2>2. /\ \A l \in 1..n : l # k => new[l] = old[l]
        /\ new[k] = [old[k] EXCEPT !.working = working]
    <3>1. \A l \in 1..n : l # k => new[l] = old[l]
      BY <1>7, <1>8, <1>9
    <3>2. new[k] = EntryOf(rev) /\ old[k] = EntryOf(revs[k])
      BY <1>4, <1>7, <1>8, <1>9
    <3> QED
      BY <1>6, <3>1, <3>2
  <2> HIDE DEF old, new, n
  <2>3. new = [old EXCEPT ![k] = [old[k] EXCEPT !.working = working]]
    BY <2>1, <2>2
  <2> QED
    BY <2>3 DEF old, new
<1>11. \A j \in Items : text.revs[j] = IF j = i THEN t ELSE g.revs[j]
  BY <1>1, <1>2
<1>12. Bounded(text)
  BY <1>7, <1>11 DEF Bounded
<1>13. k \in 1..MaxRevisions
  <2> DEFINE n == Len(revs)
  <2>1. n <= MaxRevisions /\ n \in Nat /\ k \in 1..n
    BY <1>4, <1>8 DEF Bounded
  <2> HIDE DEF n
  <2> QED
    BY <2>1, LimitAssumption
<1>14. k \in DOMAIN log[i]
  BY <1>3, <1>4, <1>8
<1>15. Shown(text) = [log EXCEPT ![i] = e]
  <2> DEFINE now == Shown(text)
  <2>1. /\ now = [j \in Items |-> now[j]]
        /\ \A j \in Items : now[j] = IF j = i THEN e ELSE log[j]
    BY <1>3, <1>10, <1>11 DEF Shown
  <2> HIDE DEF now, e, log
  <2>2. now = [log EXCEPT ![i] = e]
    BY <1>3, <2>1
  <2> QED
    BY <2>2 DEF now
<1>16. Shown(text) = [Shown(g) EXCEPT ![i][k].working = working]
  <2>1. log[i] = Entries(revs)
    BY <1>3
  <2> QED
    BY <1>15, <2>1
<1> QED
  BY <1>5, <1>12, <1>13, <1>14, <1>16

LEMMA EditedIs ==
    ASSUME NEW c, IsCatalog(c), NEW op, op.item \in Items, NEW text, Edited(op, text, c),
           op.kind \in Bringing => op.body \in Body(op.item)
    PROVE  /\ op.kind \in Bringing => text[op.item] = op.body
           /\ op.kind = "delete" =>
                 /\ text \in [Items -> Bodies \cup {Absent}] /\ text[op.item] = Absent
                 /\ \A j \in Items \ {op.item} : (c[j] = Absent) <=> (text[j] = Absent)
<1> DEFINE i == op.item
<1>1. c \in [Items -> Values] /\ EmptyCatalog \in [Items -> Values]
  BY EmptyIs DEF IsCatalog
<1>2. ASSUME op.kind \in Bringing
      PROVE  text[i] = op.body
  <2>1. text = [c EXCEPT ![i] = op.body] \/ text = [EmptyCatalog EXCEPT ![i] = op.body]
    BY <1>2 DEF Edited, Bringing
  <2> QED
    BY <1>1, <2>1
<1>3. ASSUME op.kind = "delete"
      PROVE  /\ text \in [Items -> Bodies \cup {Absent}] /\ text[i] = Absent
             /\ \A j \in Items \ {i} : (c[j] = Absent) <=> (text[j] = Absent)
  <2>1. text = Without(c, i)
    BY <1>3 DEF Edited
  <2>2. IsCatalog(Without(c, i)) /\ IsCatalog(Stripped(c, i))
    BY StrippedIs
  <2>3. text \in [Items -> Values] /\ Stripped(c, i) \in [Items -> Values]
    BY <2>1, <2>2 DEF IsCatalog
  <2>4. text[i] = Absent /\ \A j \in Items \ {i} : text[j] = Stripped(c, i)[j]
    BY <2>1, <2>3 DEF Without
  <2>5. ASSUME NEW j \in Items \ {i}
        PROVE  (c[j] = Absent) <=> (text[j] = Absent)
    <3>1. text[j] = IF j \in Groups /\ c[j] # Absent THEN Filtered(c[j], Range(c[j]) \ {i}) ELSE c[j]
      BY <2>4 DEF Stripped
    <3>2. CASE j \in Groups /\ c[j] # Absent
      <4>1. c[j] \in Members
        BY <3>2 DEF IsCatalog
      <4>2. text[j] \in Members
        BY <3>1, <3>2, <4>1, BodyAssumption
      <4> QED
        BY <3>2, <4>2, ItemAssumption
    <3>3. CASE ~(j \in Groups /\ c[j] # Absent)
      BY <3>1, <3>3
    <3> QED
      BY <3>2, <3>3
  <2> QED
    BY <2>3, <2>4, <2>5 DEF Values
<1> QED
  BY <1>2, <1>3

\* What op makes of a log: a new revision of its item, or a mark on one it has.
Lengthened(op, log, new) ==
    /\ op.kind \in Bringing => \E working \in BOOLEAN :
          new = [log EXCEPT ![op.item] =
                    Up(<<Newer(log, op.item, op.body, working)>> \o log[op.item], MaxRevisions)]
    /\ op.kind \notin Bringing => \E k \in 1..MaxRevisions :
          /\ k \in DOMAIN log[op.item]
          /\ \E working \in BOOLEAN : new = [log EXCEPT ![op.item][k].working = working]

LEMMA ExtendedIs ==
    ASSUME NEW g, IsHistory(g), Bounded(g), NEW r \in Requests, NEW op, op.item \in Items,
           NEW text, Extended(r, op, text, g)
    PROVE  Bounded(text) /\ Lengthened(op, Shown(g), Shown(text))
<1> DEFINE i == op.item
           body == op.body
           kind == op.kind
<1>1. CASE kind \in Bringing
  <2>1. text = Recorded(g, r, i, body, kind)
    BY <1>1 DEF Extended, Bringing
  <2>2. i \in Items /\ body \in Body(i) /\ r \in Requests \cup {First}
    BY <1>1 DEF Extended, Bringing
  <2> HIDE DEF i, body, kind
  <2>3. /\ Bounded(text)
        /\ \E working \in BOOLEAN :
              Shown(text) = [Shown(g) EXCEPT ![i] =
                  Up(<<Newer(Shown(g), i, body, working)>> \o Shown(g)[i], MaxRevisions)]
    BY <2>1, <2>2, RecordedShown
  <2> QED
    BY <1>1, <2>3 DEF Lengthened, i, body, kind
<1>2. CASE kind \notin Bringing
  <2>1. PICK k \in 1..Len(g.revs[i]) : text = Toggled(g, i, k)
    BY <1>2 DEF Extended
  <2>2. i \in Items
    OBVIOUS
  <2> HIDE DEF i, body, kind
  <2>3. /\ Bounded(text) /\ k \in 1..MaxRevisions /\ k \in DOMAIN Shown(g)[i]
        /\ \E working \in BOOLEAN : Shown(text) = [Shown(g) EXCEPT ![i][k].working = working]
    BY <2>1, <2>2, ToggledShown
  <2> QED
    BY <1>2, <2>3 DEF Lengthened, i, body, kind
<1> QED
  BY <1>1, <1>2

-------------------------------------------------------------------------------
(* The API server answers. *)

LEMMA GetFits ==
    ASSUME Inv, Quiet, calm, NEW r \in Requests, Serve(r), req[r].call \in {"get", "check"}
    PROVE  Alone(r) /\ stored' = stored /\ On(r, vcsCache', Owed(req[r]))
<1> DEFINE q == req[r]
           answer == IF stored[q.map] # NoDoc THEN "ok" ELSE "refused"
           a == Answer(q, answer)
           got == IF q.call = "get" THEN stored[q.map] ELSE NoDoc
           p == [a EXCEPT !.got = got]
<1>1. /\ q.call # "none" /\ q.answer = "none"
      /\ req' = [req EXCEPT ![r] = p] /\ stored' = stored
      /\ heap' = heap /\ dflt' = dflt /\ catalogCache' = catalogCache /\ vcsCache' = vcsCache
  BY DEF Serve, Waiting, memory
<1>2. q \in Request /\ stored \in [Maps -> Docs] /\ Calls(q)
  BY WaitingIs DEF Inv, Typed
<1>3. ~Rests(q)
  BY <1>1, <1>2 DEF Calls, Rests
<1>4. Alone(r) /\ Fits(r, q, stored, heap, dflt, catalogCache, vcsCache) /\ Apt(r, q, stored, heap, dflt)
  BY <1>3, AtWorkIs DEF AtWork
<1>5. q.map \in Maps /\ NoDoc \in Docs /\ got \in Docs
  BY <1>2 DEF Request, Docs
<1> HIDE DEF q
<1>6. /\ p.step = q.step /\ p.map = q.map /\ p.cell = q.cell /\ p.op = q.op /\ p.text = q.text
      /\ p.got = got
      /\ q.call = "get" => p.call = "get" /\ p.answer = answer
      /\ q.call = "check" => /\ p.answer = "none"
                             /\ p.call = IF answer = "ok" THEN "put" ELSE "post"
  <2>1. CASE q.call = "get"
    <3>1. a = [q EXCEPT !.answer = answer] /\ answer \in {"ok", "refused"}
      BY <2>1 DEF Answer
    <3> HIDE DEF answer, got
    <3>2. /\ a \in Request /\ a.step = q.step /\ a.map = q.map /\ a.cell = q.cell /\ a.op = q.op
          /\ a.text = q.text /\ a.call = q.call /\ a.answer = answer
      BY <1>2, <3>1 DEF Request, q
    <3> HIDE DEF a
    <3> QED
      BY <1>5, <2>1, <3>2 DEF Request
  <2>2. CASE q.call = "check"
    <3> DEFINE call == IF answer = "ok" THEN "put" ELSE "post"
    <3>1. a = Call(q, call, q.map)
      BY <2>2 DEF Answer
    <3>2. call \in {"put", "post"}
      OBVIOUS
    <3> HIDE DEF answer, got, call
    <3>3. /\ a \in Request /\ a.step = q.step /\ a.map = q.map /\ a.cell = q.cell /\ a.op = q.op
          /\ a.text = q.text /\ a.call = call /\ a.answer = "none"
      BY <1>2, <1>5, <3>1, <3>2 DEF Call, Request, q
    <3> HIDE DEF a
    <3> QED
      BY <1>5, <2>2, <3>3 DEF Request, call
  <2> QED
    BY <2>1, <2>2 DEF q
<1> HIDE DEF p
<1>7. Told(p, stored)
  <2>1. CASE q.call = "get"
    BY <1>2, <1>4, <1>6, <2>1 DEF Told, Apt, Calls, q
  <2>2. CASE q.call = "check"
    BY <1>4, <1>6, <2>2 DEF Told, Apt
  <2> QED
    BY <2>1, <2>2 DEF q
<1>8. q.step \in {"default", "check"} => p.answer = "none" /\ q.answer = "none"
  BY <1>1, <1>2, <1>6 DEF Calls, q
<1>9. Owes(p) <=> Owes(q)
  BY <1>6, <1>8 DEF Owes
<1>10. Owed(p) = Owed(q)
  BY <1>6, <1>9 DEF Owed
<1>11. /\ Saves(p, "catalog") <=> Saves(q, "catalog")
       /\ Saves(p, "history") <=> Saves(q, "history")
  BY <1>6 DEF Saves
<1>12. Apt(r, p, stored, heap, dflt)
  BY <1>4, <1>6, <1>7, <1>8, <1>9, <1>11 DEF Apt, Saves
<1>13. Fits(r, p, stored, heap', dflt', catalogCache', vcsCache')
  BY <1>1, <1>4, <1>11, <1>12 DEF Fits
<1>14. On(r, vcsCache', Owed(q))
  BY <1>1, <1>10, <1>13 DEF On
<1> QED
  BY <1>1, <1>4, <1>14 DEF q

\* A text is stored.
Puts(r, p) ==
    LET q == req[r] IN
    /\ q.step \in {"default", "check"} /\ q.answer = "none"
    /\ q.step = "default" => stored["catalog"] = NoDoc
    /\ stored' = [stored EXCEPT ![q.map] = q.text]
    /\ UNCHANGED memory
    /\ req' = [req EXCEPT ![r] = p]
    /\ p.step = q.step /\ p.map = q.map /\ p.cell = q.cell /\ p.op = q.op /\ p.text = q.text
    /\ p.answer = "ok" /\ p.call \in {"put", "post"}

LEMMA PutIs ==
    ASSUME Inv, Quiet, calm, NEW r \in Requests, Serve(r), req[r].call \notin {"get", "check"}
    PROVE  \E p : Puts(r, p)
<1> DEFINE q == req[r]
           a == Answer(q, "ok")
           p == [a EXCEPT !.got = NoDoc]
<1>1. q \in Request /\ Calls(q) /\ q.call # "none" /\ q.answer = "none"
  BY WaitingIs DEF Inv, Typed, Serve, Waiting
<1>2. q.call \in {"put", "post"}
  BY <1>1 DEF Request
<1>3. ~Rests(q) /\ q.step \in {"default", "check"}
  BY <1>1, <1>2 DEF Calls, Rests, Request
<1>4. Apt(r, q, stored, heap, dflt)
  BY <1>3, AtWorkIs DEF AtWork
<1>5. /\ q.call = "put" => stored[q.map] # NoDoc
      /\ q.call = "post" => stored[q.map] = NoDoc
      /\ q.step = "default" => stored["catalog"] = NoDoc
  BY <1>1, <1>4 DEF Apt, Told
<1>6. /\ req' = [req EXCEPT ![r] = p]
      /\ stored' = [stored EXCEPT ![q.map] = q.text] /\ UNCHANGED memory
  <2> DEFINE ok == IF q.call = "post" THEN ~(stored[q.map] # NoDoc) ELSE stored[q.map] # NoDoc
  <2>1. ok
    BY <1>2, <1>5
  <2>2. /\ req' = [req EXCEPT ![r] = [Answer(q, IF ok THEN "ok" ELSE "refused")
                       EXCEPT !.got = IF q.call = "get" THEN stored[q.map] ELSE NoDoc]]
        /\ stored' = IF ok /\ q.call \in {"put", "post"} THEN [stored EXCEPT ![q.map] = q.text]
                     ELSE stored
        /\ UNCHANGED memory
    BY DEF Serve
  <2> HIDE DEF ok, q
  <2> QED
    BY <1>2, <2>1, <2>2
<1>7. a = [q EXCEPT !.answer = "ok"]
  BY <1>2 DEF Answer
<1>8. /\ p.step = q.step /\ p.map = q.map /\ p.cell = q.cell /\ p.op = q.op /\ p.text = q.text
      /\ p.call = q.call /\ p.answer = "ok"
  BY <1>1, <1>7 DEF Request
<1> HIDE DEF p
<1>9. Puts(r, p)
  BY <1>1, <1>2, <1>3, <1>5, <1>6, <1>8 DEF Puts
<1> QED
  BY <1>9

LEMMA NowIs ==
    ASSUME Inv, Short(stored)
    PROVE  /\ IsCatalog(CatalogNow(stored)) /\ IsHistory(HistoryNow(stored))
           /\ Bounded(HistoryNow(stored))
<1>1. /\ stored["catalog"] # NoDoc => IsCatalog(stored["catalog"])
      /\ stored["history"] # NoDoc => IsHistory(stored["history"])
  BY DEF Inv, Kept, Sound, Maps
<1> QED
  BY <1>1, EmptyIs DEF CatalogNow, HistoryNow, Short, Bounded

LEMMA PutFits ==
    ASSUME Inv, Quiet, calm, NEW r \in Requests, NEW p, Puts(r, p)
    PROVE  /\ Alone(r) /\ Short(stored) /\ Short(stored')
           /\ Fits(r, p, stored', heap', dflt', catalogCache', vcsCache')
           /\ Apt(r, req[r], stored, heap, dflt)
           /\ Owed(req[r]) = IF Saves(p, "history") /\ p.op.kind \in Bringing THEN {p.op.item} ELSE {}
           /\ Owed(p) = IF Saves(p, "catalog") /\ p.op.kind \in Bringing THEN {p.op.item} ELSE {}
<1> DEFINE q == req[r]
<1>1. /\ q.step \in {"default", "check"} /\ q.answer = "none"
      /\ q.step = "default" => stored["catalog"] = NoDoc
      /\ stored' = [stored EXCEPT ![q.map] = q.text]
      /\ heap' = heap /\ dflt' = dflt /\ catalogCache' = catalogCache /\ vcsCache' = vcsCache
      /\ p.step = q.step /\ p.map = q.map /\ p.cell = q.cell /\ p.op = q.op /\ p.text = q.text
      /\ p.answer = "ok" /\ p.call \in {"put", "post"}
  BY DEF Puts, memory
<1>2. ~Rests(q)
  BY <1>1 DEF Rests
<1>3. /\ AtWork(r) /\ Short(stored)
  BY <1>2, AtWorkIs
<1>4. /\ Alone(r) /\ Apt(r, q, stored, heap, dflt) /\ q \in Request /\ Calls(q) /\ Brings(q)
      /\ Fits(r, q, stored, heap, dflt, catalogCache, vcsCache)
  BY <1>3 DEF AtWork
<1>5. /\ IsCatalog(CatalogNow(stored)) /\ IsHistory(HistoryNow(stored)) /\ Bounded(HistoryNow(stored))
  BY <1>3, NowIs
<1>6. Sound(q.map, q.text, Silents) /\ q.map \in Maps /\ stored \in [Maps -> Docs]
  BY <1>1, <1>4 DEF Inv, Carries, Typed, Request
<1>7. q.text # NoDoc
  BY <1>6, SoundIs, NoDocIs DEF Maps
<1>8. /\ q.map = "catalog" => stored'["catalog"] = q.text /\ stored'["history"] = stored["history"]
      /\ q.map = "history" => stored'["history"] = q.text /\ stored'["catalog"] = stored["catalog"]
      /\ stored'[p.map] = p.text
      /\ q.map = "catalog" \/ q.map = "history"
  BY <1>1, <1>6 DEF Maps
<1>9. /\ Saves(p, "catalog") <=> q.step = "check" /\ q.map = "catalog"
      /\ Saves(p, "history") <=> q.step = "check" /\ q.map = "history"
      /\ Saves(q, "catalog") <=> q.step = "check" /\ q.map = "catalog"
      /\ Saves(q, "history") <=> q.step = "check" /\ q.map = "history"
      /\ q.step = "default" => q.map = "catalog"
  BY <1>1, <1>4 DEF Saves, Calls
<1>10. Owes(q) <=> Saves(p, "history") /\ p.op.kind \in Bringing
  BY <1>1, <1>9 DEF Owes
<1>11. Owes(p) <=> Saves(p, "catalog") /\ p.op.kind \in Bringing
  BY <1>1, <1>9 DEF Owes
<1>12. /\ Owed(q) = IF Saves(p, "history") /\ p.op.kind \in Bringing THEN {p.op.item} ELSE {}
       /\ Owed(p) = IF Saves(p, "catalog") /\ p.op.kind \in Bringing THEN {p.op.item} ELSE {}
  BY <1>1, <1>10, <1>11 DEF Owed
<1>13. Told(p, stored')
  BY <1>1, <1>8 DEF Told
<1>14. q.op.item \in Items
  BY <1>4 DEF Request
<1>15. ASSUME Owes(p)
       PROVE  stored'["catalog"] # NoDoc /\ stored'["catalog"][p.op.item] = p.op.body
  <2>1. Edited(q.op, q.text, CatalogNow(stored)) /\ q.op.kind \in Bringing /\ q.map = "catalog"
    BY <1>1, <1>4, <1>9, <1>11, <1>15 DEF Apt
  <2>2. q.op.body \in Body(q.op.item)
    BY <1>4, <1>9, <1>11, <1>15, <2>1 DEF Brings
  <2> DEFINE op == q.op
             text == q.text
  <2>3. /\ op.item \in Items /\ Edited(op, text, CatalogNow(stored))
        /\ op.body \in Body(op.item) /\ op.kind \in Bringing
    BY <1>14, <2>1, <2>2
  <2> HIDE DEF op, text
  <2>4. text[op.item] = op.body
    BY <1>5, <2>3, EditedIs
  <2> QED
    BY <1>1, <1>7, <1>8, <2>1, <2>4 DEF op, text
<1>16. Apt(r, p, stored', heap, dflt)
  <2>1. heap[p.cell] = p.text
    BY <1>1, <1>4 DEF Apt
  <2>2. p.step = "default" => p.cell = dflt /\ p.text = EmptyCatalog
    BY <1>1, <1>4 DEF Apt
  <2>3. p.answer # "none"
    BY <1>1
  <2> QED
    BY <1>13, <1>15, <2>1, <2>2, <2>3 DEF Apt
<1>17. /\ DefaultTrue(stored', heap, dflt)
       /\ catalogCache.cell # 0 => stored'["catalog"] # NoDoc
  BY <1>4, <1>7, <1>8 DEF Fits, DefaultTrue
<1>18. ~Saves(p, "catalog") => CatalogTrue(stored', heap, catalogCache)
  BY <1>1, <1>4, <1>8, <1>9 DEF Fits, CatalogTrue
<1>19. ~Saves(p, "history") => HistoryTrue(stored', heap, vcsCache)
  BY <1>1, <1>4, <1>8, <1>9 DEF Fits, HistoryTrue, HistoryNow
<1>20. Fits(r, p, stored', heap', dflt', catalogCache', vcsCache')
  BY <1>1, <1>16, <1>17, <1>18, <1>19 DEF Fits
<1>21. Short(stored')
  <2>1. CASE q.map = "catalog"
    BY <1>3, <1>8, <2>1 DEF Short, HistoryNow
  <2>2. CASE q.map = "history"
    <3> DEFINE op == q.op
               text == q.text
               g == HistoryNow(stored)
    <3>1. Extended(r, op, text, g)
      BY <1>1, <1>4, <1>9, <2>2 DEF Apt
    <3>2. op.item \in Items /\ IsHistory(g) /\ Bounded(g)
      BY <1>5, <1>14
    <3> HIDE DEF op, text, g
    <3>3. Bounded(text)
      BY <3>1, <3>2, ExtendedIs
    <3> QED
      BY <1>7, <1>8, <2>2, <3>3 DEF Short, Bounded, HistoryNow, text
  <2> QED
    BY <1>8, <2>1, <2>2
<1> QED
  BY <1>3, <1>4, <1>12, <1>20, <1>21

LEMMA PutNow ==
    ASSUME Inv, Quiet, calm, NEW r \in Requests, NEW p, Puts(r, p)
    PROVE  /\ AtWork(r) /\ req[r].map \in Maps /\ req[r].op.item \in Items /\ req[r].op.kind \in Kinds
           /\ req[r].map = "catalog" => /\ CatalogNow(stored') = req[r].text
                                        /\ HistoryNow(stored') = HistoryNow(stored)
           /\ req[r].map = "history" => /\ HistoryNow(stored') = req[r].text
                                        /\ CatalogNow(stored') = CatalogNow(stored)
<1> DEFINE q == req[r]
<1>1. q.step \in {"default", "check"} /\ stored' = [stored EXCEPT ![q.map] = q.text]
  BY DEF Puts
<1>2. ~Rests(q)
  BY <1>1 DEF Rests
<1>3. AtWork(r)
  BY <1>2, AtWorkIs
<1>4. q.map \in Maps /\ q.op.item \in Items /\ q.op.kind \in Kinds
  BY <1>3 DEF AtWork, Request
<1>5. Sound(q.map, q.text, Silents) /\ stored \in [Maps -> Docs]
  BY <1>1 DEF Inv, Carries, Typed
<1>6. q.text # NoDoc
  BY <1>4, <1>5, SoundIs, NoDocIs DEF Maps
<1>7. /\ q.map = "catalog" => stored'["catalog"] = q.text /\ stored'["history"] = stored["history"]
      /\ q.map = "history" => stored'["history"] = q.text /\ stored'["catalog"] = stored["catalog"]
  BY <1>1, <1>5 DEF Maps
<1> QED
  BY <1>3, <1>4, <1>6, <1>7 DEF CatalogNow, HistoryNow

-------------------------------------------------------------------------------
(* Every step is one of the promise, or none. *)

\* A step of the promise, from a catalog c, a log and a set owing to d, new and owed.
Promised(c, log, owing, d, new, owed) ==
    \/ d = c /\ new = log /\ owed = owing
    \/ \E i \in Items :
          \/ /\ owing = {} /\ owed = {i} /\ new = log
             /\ \E body \in Bodies :
                   d = [c EXCEPT ![i] = body] \/ d = [EmptyCatalog EXCEPT ![i] = body]
          \/ /\ owing = {i} /\ owed = {} /\ d = c
             /\ \E working \in BOOLEAN :
                   new = [log EXCEPT ![i] = Up(<<Newer(log, i, c[i], working)>> \o log[i], MaxRevisions)]
          \/ /\ owing = {} /\ owed = {} /\ new = log
             /\ d \in [Items -> Bodies \cup {Absent}] /\ d[i] = Absent
             /\ \A j \in Items \ {i} : (c[j] = Absent) <=> (d[j] = Absent)
          \/ /\ owing = {} /\ owed = {} /\ d = c
             /\ \E k \in 1..MaxRevisions :
                   /\ k \in DOMAIN log[i]
                   /\ \E working \in BOOLEAN : new = [log EXCEPT ![i][k].working = working]
    \/ owing = {} /\ owed = {} /\ new = log /\ d = EmptyCatalog

LEMMA CatalogPut ==
    ASSUME NEW q, q.op.item \in Items, q.op.kind \in Kinds, q.op.kind # "toggle",
           q.op.kind \in Bringing => q.op.body \in Body(q.op.item),
           NEW c, IsCatalog(c), Edited(q.op, q.text, c), NEW log
    PROVE  Promised(c, log, {}, q.text, log, IF q.op.kind \in Bringing THEN {q.op.item} ELSE {})
<1> DEFINE op == q.op
           i == op.item
           d == q.text
<1>1. CASE op.kind \in Bringing
  <2>1. op.body \in Bodies
    BY <1>1 DEF Body, Bodies
  <2>2. d = [c EXCEPT ![i] = op.body] \/ d = [EmptyCatalog EXCEPT ![i] = op.body]
    BY <1>1 DEF Edited, Bringing
  <2> HIDE DEF d
  <2> QED
    BY <1>1, <2>1, <2>2 DEF Promised, d
<1>2. CASE op.kind = "delete"
  <2> HIDE DEF op, d
  <2>1. op.item \in Items /\ Edited(op, d, c) /\ op.kind \notin Bringing
    BY <1>2 DEF Bringing, op, d
  <2>2. /\ d \in [Items -> Bodies \cup {Absent}] /\ d[op.item] = Absent
        /\ \A j \in Items \ {op.item} : (c[j] = Absent) <=> (d[j] = Absent)
    BY <1>2, <2>1, EditedIs
  <2>3. Promised(c, log, {}, d, log, {})
    BY <2>1, <2>2 DEF Promised
  <2> QED
    BY <2>1, <2>3 DEF op, d
<1>3. CASE op.kind = "clear"
  <2>1. d = EmptyCatalog /\ op.kind \notin Bringing
    BY <1>3 DEF Edited, Bringing
  <2> QED
    BY <2>1 DEF Promised
<1> QED
  BY <1>1, <1>2, <1>3 DEF Kinds, Bringing

LEMMA HistoryPut ==
    ASSUME NEW r \in Requests, NEW q, q.op.item \in Items, NEW c,
           NEW g, IsHistory(g), Bounded(g), Extended(r, q.op, q.text, g),
           q.op.kind \in Bringing => c[q.op.item] = q.op.body
    PROVE  Promised(c, Shown(g), IF q.op.kind \in Bringing THEN {q.op.item} ELSE {},
                    c, Shown(q.text), {})
<1> DEFINE op == q.op
           d == q.text
           log == Shown(g)
           new == Shown(d)
<1>1. /\ op.item \in Items /\ Extended(r, op, d, g)
      /\ op.kind \in Bringing => c[op.item] = op.body
  OBVIOUS
<1> HIDE DEF op, d
<1>2. Lengthened(op, Shown(g), Shown(d))
  BY <1>1, ExtendedIs
<1>3. CASE op.kind \in Bringing
  <2>1. c[op.item] = op.body
    BY <1>1, <1>3
  <2>2. \E working \in BOOLEAN :
            new = [log EXCEPT ![op.item] =
                      Up(<<Newer(log, op.item, c[op.item], working)>> \o log[op.item], MaxRevisions)]
    BY <1>2, <1>3, <2>1 DEF Lengthened
  <2> HIDE DEF log, new
  <2>3. Promised(c, log, {op.item}, c, new, {})
    BY <1>1, <2>2 DEF Promised
  <2> QED
    BY <1>3, <2>3 DEF op, d, log, new
<1>4. CASE op.kind \notin Bringing
  <2>1. \E k \in 1..MaxRevisions :
            /\ k \in DOMAIN log[op.item]
            /\ \E working \in BOOLEAN : new = [log EXCEPT ![op.item][k].working = working]
    BY <1>2, <1>4 DEF Lengthened
  <2> HIDE DEF log, new
  <2>2. Promised(c, log, {}, c, new, {})
    BY <1>1, <2>1 DEF Promised
  <2> QED
    BY <1>4, <2>2 DEF op, d, log, new
<1> QED
  BY <1>3, <1>4

LEMMA PutKeeps ==
    ASSUME Inv, Quiet, calm, NEW r \in Requests, NEW p, Puts(r, p)
    PROVE  /\ Quiet'
           /\ Promised(CatalogNow(stored), Shown(HistoryNow(stored)), Owing(req),
                       CatalogNow(stored'), Shown(HistoryNow(stored')), Owing(req'))
<1> DEFINE q == req[r]
           c == CatalogNow(stored)
           g == HistoryNow(stored)
<1>1. /\ q.step \in {"default", "check"} /\ q.answer = "none"
      /\ q.step = "default" => stored["catalog"] = NoDoc
      /\ req' = [req EXCEPT ![r] = p]
      /\ p.step = q.step /\ p.map = q.map /\ p.op = q.op
  BY DEF Puts
<1>2. /\ Alone(r) /\ Short(stored) /\ Short(stored')
      /\ Fits(r, p, stored', heap', dflt', catalogCache', vcsCache')
      /\ Apt(r, q, stored, heap, dflt)
      /\ Owed(q) = IF Saves(p, "history") /\ p.op.kind \in Bringing THEN {p.op.item} ELSE {}
      /\ Owed(p) = IF Saves(p, "catalog") /\ p.op.kind \in Bringing THEN {p.op.item} ELSE {}
  BY PutFits
<1>3. Quiet' /\ req'[r] = p /\ \A s \in Requests : s # r => Rests(req'[s])
  BY <1>1, <1>2, QuietAgain
<1>4. Owing(req) = Owed(q)
  BY <1>2, OwingIs DEF Alone
<1>5. Owing(req') = Owed(p)
  <2> DEFINE reqs == req'
  <2>1. reqs[r] = p /\ \A s \in Requests : s # r => Rests(reqs[s])
    BY <1>3
  <2> HIDE DEF reqs
  <2>2. Owing(reqs) = Owed(reqs[r])
    BY <2>1, OwingIs
  <2> QED
    BY <2>1, <2>2 DEF reqs
<1>6. /\ Calls(q) /\ Brings(q) /\ q.map \in Maps /\ q.op.item \in Items /\ q.op.kind \in Kinds
      /\ q.map = "catalog" => CatalogNow(stored') = q.text /\ HistoryNow(stored') = g
      /\ q.map = "history" => HistoryNow(stored') = q.text /\ CatalogNow(stored') = c
  BY PutNow DEF AtWork
<1>7. IsCatalog(c) /\ IsHistory(g) /\ Bounded(g)
  BY <1>2, NowIs
<1>8. CASE q.step = "default"
  <2>1. ~Saves(p, "history") /\ ~Saves(p, "catalog") /\ q.map = "catalog"
    BY <1>1, <1>6, <1>8 DEF Saves, Calls
  <2>2. Owing(req) = {} /\ Owing(req') = {}
    BY <1>2, <1>4, <1>5, <2>1
  <2>3. q.text = EmptyCatalog /\ c = EmptyCatalog
    BY <1>1, <1>2, <1>8 DEF Apt, CatalogNow
  <2> QED
    BY <1>3, <1>6, <2>1, <2>2, <2>3 DEF Promised
<1>9. CASE q.step = "check" /\ q.map = "catalog"
  <2>1. ~Saves(p, "history") /\ Saves(p, "catalog") /\ Saves(q, "catalog")
    BY <1>1, <1>9 DEF Saves
  <2>2. Owing(req) = {} /\ Owing(req') = IF q.op.kind \in Bringing THEN {q.op.item} ELSE {}
    BY <1>1, <1>2, <1>4, <1>5, <2>1
  <2>3. Edited(q.op, q.text, c)
    BY <1>1, <1>2, <2>1 DEF Apt
  <2>4. q.op.kind # "toggle" /\ (q.op.kind \in Bringing => q.op.body \in Body(q.op.item))
    BY <1>6, <1>9 DEF Calls, Brings
  <2> DEFINE log == Shown(g)
  <2> HIDE DEF c, g
  <2>5. Promised(c, log, {}, q.text, log, IF q.op.kind \in Bringing THEN {q.op.item} ELSE {})
    <3> HIDE DEF q, log
    <3> QED
      BY <1>6, <1>7, <2>3, <2>4, CatalogPut
  <2> QED
    BY <1>3, <1>6, <1>9, <2>2, <2>5 DEF c, g
<1>10. CASE q.step = "check" /\ q.map = "history"
  <2>1. Saves(p, "history") /\ ~Saves(p, "catalog") /\ Saves(q, "history")
    BY <1>1, <1>10 DEF Saves
  <2>2. Owing(req') = {} /\ Owing(req) = IF q.op.kind \in Bringing THEN {q.op.item} ELSE {}
    BY <1>1, <1>2, <1>4, <1>5, <2>1
  <2>3. Extended(r, q.op, q.text, g)
    BY <1>1, <1>2, <2>1 DEF Apt
  <2>4. q.op.kind \in Bringing => c[q.op.item] = q.op.body
    <3>1. q.op.kind \in Bringing => Owes(q)
      BY <1>1, <1>10 DEF Owes
    <3> QED
      BY <1>2, <3>1 DEF Apt, CatalogNow
  <2> HIDE DEF c, g
  <2>5. Promised(c, Shown(g), IF q.op.kind \in Bringing THEN {q.op.item} ELSE {},
                 c, Shown(q.text), {})
    <3> HIDE DEF q
    <3> QED
      BY <1>6, <1>7, <2>3, <2>4, HistoryPut
  <2> QED
    BY <1>3, <1>6, <1>10, <2>2, <2>5 DEF c, g
<1> QED
  BY <1>1, <1>6, <1>8, <1>9, <1>10 DEF Maps

\* A step that stores nothing leaves the promise where it is.
LEMMA OnKeeps ==
    ASSUME Inv, Quiet, calm, NEW r \in Requests, Alone(r), stored' = stored,
           On(r, vcsCache', Owed(req[r]))
    PROVE  Quiet' /\ Owing(req') = Owing(req)
<1>1. PICK q : /\ req' = [req EXCEPT ![r] = q] /\ Owed(q) = Owed(req[r])
               /\ Fits(r, q, stored, heap', dflt', catalogCache', vcsCache')
  BY DEF On
<1>2. Short(stored') /\ Fits(r, q, stored', heap', dflt', catalogCache', vcsCache')
  BY <1>1 DEF Quiet
<1>3. Quiet' /\ req'[r] = q /\ \A s \in Requests : s # r => Rests(req'[s])
  BY <1>1, <1>2, QuietAgain
<1>4. Owing(req) = Owed(req[r])
  BY OwingIs DEF Alone
<1>5. Owing(req') = Owed(q)
  <2> DEFINE reqs == req'
  <2>1. reqs[r] = q /\ \A s \in Requests : s # r => Rests(reqs[s])
    BY <1>3
  <2> HIDE DEF reqs
  <2>2. Owing(reqs) = Owed(reqs[r])
    BY <2>1, OwingIs
  <2> QED
    BY <2>1, <2>2 DEF reqs
<1> QED
  BY <1>1, <1>3, <1>4, <1>5

Advances ==
    /\ Quiet'
    /\ Promised(CatalogNow(stored), Shown(HistoryNow(stored)), Owing(req),
                CatalogNow(stored'), Shown(HistoryNow(stored')), Owing(req'))

LEMMA CalmSteps == Inv /\ Quiet /\ calm /\ [Next]_vars => Advances
<1> SUFFICES ASSUME Inv, Quiet, calm, [Next]_vars
             PROVE  Advances
  OBVIOUS
<1>1. ASSUME NEW r \in Requests, Alone(r), stored' = stored, On(r, vcsCache', Owed(req[r]))
      PROVE  Advances
  <2>1. Quiet' /\ Owing(req') = Owing(req)
    BY <1>1, OnKeeps
  <2> QED
    BY <1>1, <2>1 DEF Promised, Advances
<1>2. ASSUME NEW r \in Requests, NEW op \in Operation, Begin(r, op)
      PROVE  Advances
  <2>1. Alone(r) /\ stored' = stored /\ Owed(req[r]) = {} /\ On(r, vcsCache', {})
    BY <1>2, BeginFits
  <2> QED
    BY <1>1, <2>1
<1>3. ASSUME NEW r \in Requests, Serve(r)
      PROVE  Advances
  <2>1. CASE req[r].call \in {"get", "check"}
    <3>1. Alone(r) /\ stored' = stored /\ On(r, vcsCache', Owed(req[r]))
      BY <1>3, <2>1, GetFits
    <3> QED
      BY <1>1, <3>1
  <2>2. CASE req[r].call \notin {"get", "check"}
    <3>1. PICK p : Puts(r, p)
      BY <1>3, <2>2, PutIs
    <3> QED
      BY <3>1, PutKeeps DEF Advances
  <2> QED
    BY <2>1, <2>2
<1>4. ASSUME NEW r \in Requests, CatalogFailed(r)
      PROVE  Advances
  <2>1. req[r].step = "check" /\ req[r].answer = "thrown"
    BY <1>4 DEF CatalogFailed, Answered
  <2>2. ~Rests(req[r])
    BY <2>1 DEF Rests
  <2>3. Told(req[r], stored)
    BY <2>2, AtWorkIs DEF AtWork
  <2> QED
    BY <2>1, <2>3 DEF Told
<1>5. ASSUME NEW r \in Requests,
             \/ CatalogRead(r) \/ DefaultSaved(r) \/ CatalogSaved(r)
             \/ HistoryRead(r) \/ HistorySaved(r)
      PROVE  Advances
  <2>1. Alone(r) /\ stored' = stored /\ On(r, vcsCache', Owed(req[r]))
    BY <1>5, CatalogReadFits, DefaultSavedFits, CatalogSavedFits, HistoryReadFits, HistorySavedFits
  <2> QED
    BY <1>1, <2>1
<1>6. ASSUME NEW r \in Requests, Fail(r)
      PROVE  Advances
  BY <1>6 DEF Fail
<1>7. CASE Restart
  BY <1>7 DEF Restart
<1>8. CASE UNCHANGED vars
  <2>1. /\ calm' = calm /\ stored' = stored /\ heap' = heap /\ dflt' = dflt
        /\ catalogCache' = catalogCache /\ vcsCache' = vcsCache /\ req' = req
    BY <1>8 DEF vars
  <2>2. Quiet'
    BY <2>1 DEF Quiet
  <2> QED
    BY <2>1, <2>2 DEF Promised, Advances
<1> QED
  <2>1. ASSUME NEW r \in Requests, Step(r)
        PROVE  Advances
    BY <1>3, <1>4, <1>5, <2>1 DEF Step
  <2>2. CASE Next
    BY <1>2, <1>6, <1>7, <2>1, <2>2 DEF Next
  <2> QED
    BY <1>8, <2>2

LEMMA StartsQuiet ==
    ASSUME Init
    PROVE  /\ Short(stored) /\ Quiet /\ Owing(req) = {}
<1>1. /\ heap = <<EmptyCatalog>> /\ dflt = 1
      /\ catalogCache = NoCatalog /\ vcsCache = NoHistory
      /\ req = [r \in Requests |-> Idle]
  BY DEF Init
<1>2. \A r \in Requests : Rests(req[r]) /\ ~Owes(req[r])
  BY <1>1 DEF Rests, Owes, Idle
<1>3. Short(stored)
  <2>1. Len(<<>>) <= MaxRevisions
    <3>1. Len(<<>>) = 0
      OBVIOUS
    <3> QED
      BY <3>1, LimitAssumption
  <2>2. IsHistory(EmptyHistory) /\ Bounded(EmptyHistory)
    BY <2>1, EmptyIs DEF Bounded, EmptyHistory
  <2>3. CASE stored = [map \in Maps |-> NoDoc]
    BY <2>2, <2>3 DEF Short, HistoryNow, Maps, Bounded
  <2>4. ASSUME NEW i \in Apps, NEW body \in Texts,
               stored = [map \in Maps |->
                  IF map = "catalog" THEN [EmptyCatalog EXCEPT ![i] = body]
                  ELSE Recorded(EmptyHistory, First, i, body, "create")]
        PROVE  Short(stored)
    <3> DEFINE g == EmptyHistory
               text == Recorded(EmptyHistory, First, i, body, "create")
    <3>1. i \in Items /\ body \in Body(i) /\ First \in Requests \cup {First}
      BY DEF Items, Body
    <3>2. text = Recorded(EmptyHistory, First, i, body, "create")
      OBVIOUS
    <3>3. stored["history"] = text
      BY <2>4 DEF Maps
    <3> HIDE DEF text
    <3>4. Bounded(text)
      BY <2>2, <3>1, <3>2, RecordedShown
    <3> QED
      BY <2>2, <3>3, <3>4 DEF Short, HistoryNow, Bounded
  <2> QED
    BY <2>3, <2>4 DEF Init
<1>4. catalogCache.cell = 0 /\ vcsCache.cell = 0 /\ heap[dflt] = EmptyCatalog
  BY <1>1 DEF NoCatalog, NoHistory
<1>5. Quiet
  BY <1>2, <1>3, <1>4 DEF Quiet, DefaultTrue, CatalogTrue, HistoryTrue
<1>6. Owing(req) = {}
  BY <1>2 DEF Owing
<1> QED
  BY <1>3, <1>5, <1>6

LEMMA AlwaysQuiet == Spec => [](Inv /\ Quiet)
<1>1. Init => Inv /\ Quiet
  BY Starts, StartsQuiet
<1>2. calm' = calm \/ ~[Next]_vars
  BY DEF Next, Step, vars, Begin, Serve, Fail, CatalogRead, DefaultSaved, CatalogFailed,
     CatalogSaved, HistoryRead, HistorySaved, Restart
<1>3. Inv /\ Quiet /\ [Next]_vars => Inv' /\ Quiet'
  <2>1. Inv /\ [Next]_vars => Inv'
    BY Steps
  <2>2. ASSUME Inv, Quiet, [Next]_vars PROVE Quiet'
    <3>1. CASE calm
      BY <2>2, <3>1, CalmSteps DEF Advances
    <3>2. CASE ~calm
      BY <1>2, <2>2, <3>2 DEF Quiet
    <3> QED
      BY <3>1, <3>2
  <2> QED
    BY <2>1, <2>2
<1> QED
  BY <1>1, <1>3, PTL DEF Spec

-------------------------------------------------------------------------------
(* The mapping. *)

LEMMA SeenIs ==
    ASSUME NEW doc
    PROVE  /\ [i \in Items |-> IF doc # NoDoc
                  THEN [k \in DOMAIN doc.revs[i] |->
                          [num |-> doc.revs[i][k].num, body |-> doc.revs[i][k].body,
                           working |-> doc.revs[i][k].working]]
                  ELSE <<>>]
              = Shown(IF doc = NoDoc THEN EmptyHistory ELSE doc)
<1>1. CASE doc = NoDoc
  BY <1>1, NoEntries DEF Shown, EmptyHistory
<1>2. CASE doc # NoDoc
  BY <1>2 DEF Shown, Entries, EntryOf
<1> QED
  BY <1>1, <1>2

\* The mapping, in a calm behaviour.
LEMMA MappedIs ==
    ASSUME calm
    PROVE  /\ CatalogOf(stored["catalog"]) = CatalogNow(stored)
           /\ LogOf(stored["history"]) = Shown(HistoryNow(stored))
           /\ Unrecorded = Owing(req)
<1>1. LogOf(stored["history"]) = Shown(HistoryNow(stored))
  BY SeenIs DEF LogOf, HistoryNow
<1>2. Unrecorded = Owing(req)
  BY DEF Unrecorded, Owing, Owes, Bringing
<1> QED
  BY <1>1, <1>2 DEF CatalogOf, CatalogNow

LEMMA MappedNext ==
    ASSUME calm'
    PROVE  /\ CatalogOf(stored["catalog"])' = CatalogNow(stored')
           /\ LogOf(stored["history"])' = Shown(HistoryNow(stored'))
           /\ Unrecorded' = Owing(req')
<1>1. LogOf(stored["history"])' = Shown(HistoryNow(stored'))
  BY SeenIs DEF LogOf, HistoryNow
<1>2. Unrecorded' = Owing(req')
  BY DEF Unrecorded, Owing, Owes, Bringing
<1> QED
  BY <1>1, <1>2 DEF CatalogOf, CatalogNow

LEMMA PromiseBegins == Init => Promise!Init
<1> SUFFICES ASSUME Init
             PROVE  Promise!Init
  OBVIOUS
<1>1. CASE calm
  <2> DEFINE c == CatalogOf(stored["catalog"])
             log == LogOf(stored["history"])
             g == HistoryNow(stored)
  <2>1. Short(stored) /\ Owing(req) = {} /\ Inv
    BY StartsQuiet, Starts
  <2>2. IsCatalog(CatalogNow(stored)) /\ IsHistory(g)
    BY <2>1, NowIs
  <2>3. c = CatalogNow(stored) /\ log = Shown(g) /\ Unrecorded = {}
    BY <1>1, <2>1, MappedIs
  <2>4. c \in [Items -> Bodies \cup {Absent}]
    BY <2>2, <2>3 DEF IsCatalog, Values
  <2>5. Shown(g) \in [Items -> Seq(Entry)] /\ \A i \in Items : Shown(g)[i] = Entries(g.revs[i])
    BY <2>2, ShownIs
  <2>6. \A i \in Items : Len(Entries(g.revs[i])) <= MaxRevisions
    <3>1. \A i \in Items : g.revs[i] \in Seq(RevOf(i))
      BY <2>2, ShownIs
    <3>2. \A i \in Items : Len(Entries(g.revs[i])) = Len(g.revs[i])
      BY <3>1, EntriesAre
    <3> QED
      BY <2>1, <3>2 DEF Short
  <2>7. DOMAIN log = Items /\ \A i \in Items : log[i] \in Seq(Entry) /\ Len(log[i]) <= MaxRevisions
    BY <2>3, <2>5, <2>6
  <2> HIDE DEF c, log
  <2>8. Promise!Init
    BY <2>3, <2>4, <2>7 DEF Promise!Init, Entry, c, log
  <2> QED
    BY <2>8
<1>2. CASE ~calm
  <2>1. EmptyCatalog \in [Items -> Bodies \cup {Absent}]
    BY DEF EmptyCatalog
  <2>2. <<>> \in Seq(Entry) /\ Len(<<>>) <= MaxRevisions
    <3>1. Len(<<>>) = 0
      OBVIOUS
    <3> QED
      BY <3>1, LimitAssumption
  <2>3. /\ CatalogOf(stored["catalog"]) = EmptyCatalog
        /\ LogOf(stored["history"]) = [i \in Items |-> <<>>] /\ Unrecorded = {}
    BY <1>2 DEF CatalogOf, LogOf, Unrecorded
  <2> QED
    BY <2>1, <2>2, <2>3 DEF Promise!Init, Entry
<1> QED
  BY <1>1, <1>2

LEMMA PromiseSteps == Inv /\ Quiet /\ [Next]_vars => [Promise!Next]_Promise!vars
<1> SUFFICES ASSUME Inv, Quiet, [Next]_vars
             PROVE  [Promise!Next]_Promise!vars
  OBVIOUS
<1>1. calm' = calm
  BY DEF Next, Step, vars, Begin, Serve, Fail, CatalogRead, DefaultSaved, CatalogFailed,
     CatalogSaved, HistoryRead, HistorySaved, Restart
<1>2. CASE ~calm
  <2>1. /\ CatalogOf(stored["catalog"]) = EmptyCatalog
        /\ LogOf(stored["history"]) = [i \in Items |-> <<>>] /\ Unrecorded = {}
    BY <1>2 DEF CatalogOf, LogOf, Unrecorded
  <2>2. /\ CatalogOf(stored["catalog"])' = EmptyCatalog
        /\ LogOf(stored["history"])' = [i \in Items |-> <<>>] /\ Unrecorded' = {}
    BY <1>1, <1>2 DEF CatalogOf, LogOf, Unrecorded
  <2>3. UNCHANGED Promise!vars
    BY <2>1, <2>2 DEF Promise!vars
  <2> QED
    BY <2>3
<1>3. CASE calm
  <2> DEFINE c == CatalogNow(stored)
             log == Shown(HistoryNow(stored))
             owing == Owing(req)
             d == CatalogNow(stored')
             new == Shown(HistoryNow(stored'))
             owed == Owing(req')
  <2>1. Promised(c, log, owing, d, new, owed)
    BY <1>3, CalmSteps DEF Advances
  <2>2. c = CatalogOf(stored["catalog"]) /\ log = LogOf(stored["history"]) /\ owing = Unrecorded
    BY <1>3, MappedIs
  <2>3. d = CatalogOf(stored["catalog"])' /\ new = LogOf(stored["history"])' /\ owed = Unrecorded'
    BY <1>1, <1>3, MappedNext
  <2> HIDE DEF c, log, owing, d, new, owed
  <2>4. CASE d = c /\ new = log /\ owed = owing
    BY <2>2, <2>3, <2>4 DEF Promise!vars
  <2>5. ASSUME NEW i \in Items, NEW body \in Bodies, owing = {}, owed = {i}, new = log,
               d = [c EXCEPT ![i] = body]
        PROVE  Promise!Save(i, body)
    BY <2>2, <2>3, <2>5 DEF Promise!Save
  <2>6. ASSUME NEW i \in Items, NEW body \in Bodies, owing = {}, owed = {i}, new = log,
               d = [EmptyCatalog EXCEPT ![i] = body]
        PROVE  Promise!Import(i, body)
    BY <2>2, <2>3, <2>6 DEF Promise!Import, EmptyCatalog
  <2>7. ASSUME NEW i \in Items, NEW working \in BOOLEAN, owing = {i}, owed = {}, d = c,
               new = [log EXCEPT ![i] = Up(<<Newer(log, i, c[i], working)>> \o log[i], MaxRevisions)]
        PROVE  Promise!Record(i)
    BY <2>2, <2>3, <2>7 DEF Promise!Record, Up, Newer
  <2>8. ASSUME NEW i \in Items, owing = {}, owed = {}, new = log,
               d \in [Items -> Bodies \cup {Absent}], d[i] = Absent,
               \A j \in Items \ {i} : (c[j] = Absent) <=> (d[j] = Absent)
        PROVE  Promise!Remove(i)
    BY <2>2, <2>3, <2>8 DEF Promise!Remove
  <2>9. ASSUME NEW i \in Items, NEW k \in 1..MaxRevisions, NEW working \in BOOLEAN,
               owing = {}, owed = {}, d = c, k \in DOMAIN log[i],
               new = [log EXCEPT ![i][k].working = working]
        PROVE  Promise!Mark(i, k)
    BY <2>2, <2>3, <2>9 DEF Promise!Mark
  <2>10. CASE owing = {} /\ owed = {} /\ new = log /\ d = EmptyCatalog
    <3>1. Promise!Clear
      BY <2>2, <2>3, <2>10 DEF Promise!Clear, EmptyCatalog
    <3> QED
      BY <3>1 DEF Promise!Next
  <2>11. ASSUME NEW i \in Items,
                \/ \E body \in Bodies : Promise!Save(i, body) \/ Promise!Import(i, body)
                \/ Promise!Record(i) \/ Promise!Remove(i)
                \/ \E k \in 1..MaxRevisions : Promise!Mark(i, k)
         PROVE  Promise!Next
    BY <2>11 DEF Promise!Next
  <2> QED
    BY <2>1, <2>4, <2>5, <2>6, <2>7, <2>8, <2>9, <2>10, <2>11 DEF Promised
<1> QED
  BY <1>2, <1>3

\* Requests that neither overlap nor fail do what VersionedCatalog promises, through
\* every cache and however a read replaces a document that is missing: a saved item is
\* the current one, each save is recorded as the next revision of its item, and what is
\* recorded is never rewritten (saveAppDefinition, recordAppCommit, rollbackApp).
THEOREM PromiseKept == Spec => CalmKeepsPromise
<1>1. Inv /\ Quiet /\ [Next]_vars => [Promise!Next]_Promise!vars
  BY PromiseSteps
<1> QED
  BY <1>1, PromiseBegins, AlwaysQuiet, PTL DEF Spec, CalmKeepsPromise, Promise!Spec
=============================================================================
