-------------------------- MODULE RegistryStoreProofs --------------------------
(***************************************************************************)
(* Theorems about the defaulted registries of the web application: nothing *)
(* leaves its type, the last tier stays and no tier is stored twice, the   *)
(* shipped list is not written over a list that was there, and requests    *)
(* that neither overlap nor fail leave the cache in agreement with what is *)
(* stored, keep a default in it and implement ChosenDefault.               *)
(***************************************************************************)
EXTENDS RegistryStore, ListFacts

-------------------------------------------------------------------------------
(* The inductive invariant. *)

Item == [id : Ids, isDefault : BOOLEAN]
Maker == {<<"shipped">>} \cup {<<r, how>> : r \in Requests, how \in {"new", "read"}}
Entries == [id : Ids, isDefault : BOOLEAN, maker : Maker, at : Nat]

\* Lists of entries, in memory and stored: no list of tiers is empty or has an id twice.
Distinct(list) == \A i, k \in 1..Len(list) : list[i].id = list[k].id => i = k
Filled(list) == inPlace \/ list # <<>>
Single(list) == inPlace \/ Distinct(list)
Sound(list) == list \in Seq(Entries) /\ Single(list)
Stored(text) == text \in Seq(Item) /\ Single(text) /\ Filled(text)
SameIds(list, text) ==
    Len(list) = Len(text) /\ \A k \in 1..Len(list) : list[k].id = text[k].id

Asked == IF inPlace THEN VersionOperation ELSE Operation
Cache == [list : Seq(Entries), fresh : BOOLEAN, isShipped : BOOLEAN]
Saving == {"check", "write", "saved"}
Request ==
    [step : {"idle", "read", "answered", "check", "write", "saved", "done"},
     op : Asked, known : BOOLEAN, got : {None} \cup Seq(Item), put : BOOLEAN,
     restores : BOOLEAN, list : Seq(Entries), text : Seq(Item), thrown : BOOLEAN]

Fixed == calm \in BOOLEAN /\ inPlace \in BOOLEAN /\ faults \in 0..MaxFaults
Listed ==
    /\ stored = None \/ Stored(stored)
    /\ Sound(shipped) /\ Filled(shipped)
    /\ cache \in Cache /\ Sound(cache.list)
    /\ cache.fresh => Filled(cache.list)
    /\ cache.isShipped => cache.list = shipped

\* What a request carries, at each of its steps.
Carries(q) ==
    /\ q.step = "answered" => q.got = None \/ Stored(q.got)
    /\ q.step \in {"read", "answered"} => q.op.kind # "clear"
    /\ q.step \in Saving =>
          /\ Sound(q.list) /\ Filled(q.list) /\ Stored(q.text) /\ SameIds(q.list, q.text)
          /\ q.restores => q.op.kind # "clear"
    /\ q.step \notin Saving => q.list = <<>>
Carried == req \in [Requests -> Request] /\ \A r \in Requests : Carries(req[r])

\* Without a fault, a request that began with a ConfigMap finds it.
Finds(q) ==
    faults = 0 /\ q.known /\ q.step \notin {"idle", "done"} =>
        /\ stored # None
        /\ q.step = "answered" => q.got # None
        /\ q.step \in Saving => ~q.restores
Known == \A r \in Requests : Finds(req[r])

\* One request at a time: what it has seen is what is stored, and what it has written.
Sees(q) ==
    /\ q.step \in {"read", "answered"} => ~cache.fresh /\ ~q.thrown
    /\ q.step = "answered" => q.got = stored
    /\ q.step \in Saving =>
          /\ ~q.thrown /\ q.text = Text(q.list)
          /\ q.restores => q.list = shipped
    /\ q.step = "write" => q.put = (stored # None)
    /\ q.step = "saved" => q.text = stored
Undisturbed ==
    calm =>
        /\ \A r, s \in Under : r = s
        /\ Under = {} /\ cache.fresh => Text(cache.list) = stored
        /\ \A r \in Requests : Sees(req[r])

Inv == Fixed /\ Listed /\ Carried /\ Known /\ Undisturbed

-------------------------------------------------------------------------------
(* Lists, and what the edits make of them. *)

LEMMA ListIs ==
    ASSUME NEW T, NEW list \in Seq(T)
    PROVE  /\ Len(list) \in Nat /\ DOMAIN list = 1..Len(list)
           /\ \A k \in 1..Len(list) : list[k] \in T
           /\ list # <<>> <=> 1 \in 1..Len(list)
           /\ list = <<>> <=> Len(list) = 0
OBVIOUS

\* An edit's marks change no entry but its isDefault.
LEMMA MarkedIs ==
    ASSUME NEW list, Sound(list), NEW e
    PROVE  /\ Sound(Marked(list, e)) /\ SameIds(Marked(list, e), list)
           /\ Len(Marked(list, e)) = Len(list)
           /\ list = <<>> <=> Marked(list, e) = <<>>
           /\ \A k \in 1..Len(list) :
                 /\ Marked(list, e)[k].id = list[k].id
                 /\ Marked(list, e)[k].maker = list[k].maker
                 /\ Marked(list, e)[k].at = list[k].at
                 /\ Marked(list, e)[k].isDefault =
                      (Object(list[k]) \in e.on \/ (list[k].isDefault /\ Object(list[k]) \notin e.off))
<1> DEFINE m == Marked(list, e)
           turned(k) == [list[k] EXCEPT !.isDefault =
               Object(list[k]) \in e.on \/ (list[k].isDefault /\ Object(list[k]) \notin e.off)]
<1>1. Len(list) \in Nat /\ DOMAIN list = 1..Len(list) /\ \A k \in 1..Len(list) : list[k] \in Entries
  BY ListIs DEF Sound
<1>2. m = [k \in 1..Len(list) |-> turned(k)]
  BY <1>1 DEF Marked
<1>3. \A k \in 1..Len(list) :
         /\ turned(k) \in Entries /\ turned(k).id = list[k].id
         /\ turned(k).maker = list[k].maker /\ turned(k).at = list[k].at
         /\ turned(k).isDefault =
              (Object(list[k]) \in e.on \/ (list[k].isDefault /\ Object(list[k]) \notin e.off))
  BY <1>1 DEF Entries
<1> HIDE DEF m, turned
<1>4. m \in Seq(Entries) /\ Len(m) = Len(list)
  BY <1>1, <1>2, <1>3
<1>5. \A k \in 1..Len(list) :
         /\ m[k].id = list[k].id /\ m[k].maker = list[k].maker /\ m[k].at = list[k].at
         /\ m[k].isDefault =
              (Object(list[k]) \in e.on \/ (list[k].isDefault /\ Object(list[k]) \notin e.off))
  BY <1>2, <1>3
<1>6. Single(m)
  BY <1>4, <1>5 DEF Sound, Single, Distinct
<1>7. list = <<>> <=> m = <<>>
  BY <1>4, ListIs DEF Sound
<1> QED
  BY <1>4, <1>5, <1>6, <1>7 DEF m, Sound, SameIds

LEMMA TextIs ==
    ASSUME NEW list, Sound(list)
    PROVE  /\ Text(list) \in Seq(Item) /\ Single(Text(list)) /\ SameIds(list, Text(list))
           /\ Len(Text(list)) = Len(list)
           /\ Filled(list) <=> Filled(Text(list))
           /\ \A k \in 1..Len(list) :
                 Text(list)[k] = [id |-> list[k].id, isDefault |-> list[k].isDefault]
<1> DEFINE t == Text(list)
<1>1. Len(list) \in Nat /\ DOMAIN list = 1..Len(list) /\ \A k \in 1..Len(list) : list[k] \in Entries
  BY ListIs DEF Sound
<1>2. t = [k \in 1..Len(list) |-> [id |-> list[k].id, isDefault |-> list[k].isDefault]]
  BY <1>1 DEF Text
<1>3. \A k \in 1..Len(list) : [id |-> list[k].id, isDefault |-> list[k].isDefault] \in Item
  BY <1>1 DEF Entries, Item
<1> HIDE DEF t
<1>4. t \in Seq(Item) /\ Len(t) = Len(list)
  BY <1>1, <1>2, <1>3
<1>5. \A k \in 1..Len(list) : /\ t[k] = [id |-> list[k].id, isDefault |-> list[k].isDefault]
                              /\ t[k].id = list[k].id
  BY <1>2
<1>6. Single(t)
  BY <1>4, <1>5 DEF Sound, Single, Distinct
<1>7. list = <<>> <=> t = <<>>
  BY <1>4, ListIs DEF Sound
<1> QED
  BY <1>4, <1>5, <1>6, <1>7 DEF t, SameIds, Filled

\* The new objects of a list, one for each place.
LEMMA MadeIs ==
    ASSUME NEW text \in Seq(Item), Single(text), NEW maker \in Maker
    PROVE  /\ Sound(Made(text, maker)) /\ Text(Made(text, maker)) = text
           /\ Filled(text) <=> Filled(Made(text, maker))
           /\ Len(Made(text, maker)) = Len(text)
           /\ \A k \in 1..Len(text) :
                 /\ Made(text, maker)[k].id = text[k].id
                 /\ Made(text, maker)[k].isDefault = text[k].isDefault
                 /\ Made(text, maker)[k].maker = maker
                 /\ Made(text, maker)[k].at = k
<1> DEFINE m == Made(text, maker)
           object(k) == Entry(text[k].id, text[k].isDefault, maker, k)
<1>1. Len(text) \in Nat /\ DOMAIN text = 1..Len(text) /\ \A k \in 1..Len(text) : text[k] \in Item
  BY ListIs
<1>2. m = [k \in 1..Len(text) |-> object(k)]
  BY <1>1 DEF Made
<1>3. \A k \in 1..Len(text) :
         /\ object(k) \in Entries /\ object(k).id = text[k].id
         /\ object(k).isDefault = text[k].isDefault
         /\ object(k).maker = maker /\ object(k).at = k
  BY <1>1 DEF Entry, Entries, Item
<1> HIDE DEF m, object
<1>4. m \in Seq(Entries) /\ Len(m) = Len(text)
  BY <1>1, <1>2, <1>3
<1>5. \A k \in 1..Len(text) :
         /\ m[k].id = text[k].id /\ m[k].isDefault = text[k].isDefault
         /\ m[k].maker = maker /\ m[k].at = k
  BY <1>2, <1>3
<1>6. Sound(m)
  BY <1>4, <1>5 DEF Sound, Single, Distinct
<1>7. Text(m) = text
  <2>1. /\ Text(m) \in Seq(Item) /\ Len(Text(m)) = Len(m)
        /\ \A k \in 1..Len(m) : Text(m)[k] = [id |-> m[k].id, isDefault |-> m[k].isDefault]
    BY <1>6, TextIs
  <2>2. \A k \in 1..Len(text) : Text(m)[k] = text[k]
    BY <1>1, <1>4, <1>5, <2>1 DEF Item
  <2> HIDE DEF Text
  <2> QED
    BY <1>4, <2>1, <2>2
<1>8. text = <<>> <=> m = <<>>
  BY <1>4, ListIs
<1> QED
  BY <1>4, <1>5, <1>6, <1>7, <1>8 DEF m, Filled

LEMMA ParsedIs ==
    ASSUME NEW text \in Seq(Item), Single(text), NEW r \in Requests
    PROVE  /\ Sound(Parsed(text, r)) /\ Text(Parsed(text, r)) = text
           /\ Filled(text) <=> Filled(Parsed(text, r))
           /\ Len(Parsed(text, r)) = Len(text)
           /\ \A k \in 1..Len(text) :
                 Parsed(text, r)[k].maker = <<r, "read">> /\ Parsed(text, r)[k].at = k
<1> DEFINE maker == <<r, "read">>
<1>1. maker \in Maker
  BY DEF Maker
<1>2. Parsed(text, r) = Made(text, maker)
  BY DEF Parsed
<1> HIDE DEF maker
<1> DEFINE m == Made(text, maker)
<1>3. /\ Sound(m) /\ Text(m) = text /\ (Filled(text) <=> Filled(m)) /\ Len(m) = Len(text)
      /\ \A k \in 1..Len(text) : m[k].maker = maker /\ m[k].at = k
  BY <1>1, MadeIs
<1> HIDE DEF m
<1> QED
  BY <1>2, <1>3 DEF m, maker

\* The first entry of an id is replaced in its place, or comes to the end.
Replaced(p, base, e) ==
    /\ Len(p) = Len(base)
    /\ \A k \in 1..Len(base) : p[k] = IF IsFirst(base, k, e.id) THEN e ELSE base[k]
Appended(p, base, e) ==
    /\ Len(p) = Len(base) + 1 /\ p[Len(base) + 1] = e
    /\ \A k \in 1..Len(base) : p[k] = base[k]

LEMMA PlacedIs ==
    ASSUME NEW T, NEW base \in Seq(T), NEW e \in T
    PROVE  /\ Placed(base, e) \in Seq(T) /\ Placed(base, e) # <<>>
           /\ e.id \in IdsOf(base) => Replaced(Placed(base, e), base, e)
           /\ e.id \notin IdsOf(base) => Appended(Placed(base, e), base, e)
<1>1. Len(base) \in Nat /\ DOMAIN base = 1..Len(base) /\ \A k \in 1..Len(base) : base[k] \in T
  BY ListIs
<1>2. CASE e.id \in IdsOf(base)
  <2> DEFINE first(k) == IsFirst(base, k, e.id)
             p == [k \in 1..Len(base) |-> IF first(k) THEN e ELSE base[k]]
  <2>1. Placed(base, e) = p
    BY <1>1, <1>2 DEF Placed
  <2> HIDE DEF first
  <2>2. p \in Seq(T) /\ Len(p) = Len(base)
    BY <1>1
  <2>3. \A k \in 1..Len(base) : p[k] = IF first(k) THEN e ELSE base[k]
    OBVIOUS
  <2> HIDE DEF p
  <2>4. p # <<>>
    BY <1>1, <1>2, <2>2 DEF IdsOf
  <2> QED
    BY <1>2, <2>1, <2>2, <2>3, <2>4 DEF first, Replaced
<1>3. CASE e.id \notin IdsOf(base)
  <2>1. Placed(base, e) = Append(base, e)
    BY <1>3 DEF Placed
  <2> DEFINE p == Append(base, e)
  <2>2. /\ p \in Seq(T) /\ Len(p) = Len(base) + 1 /\ p[Len(base) + 1] = e
        /\ \A k \in 1..Len(base) : p[k] = base[k]
    OBVIOUS
  <2> HIDE DEF p
  <2>3. p # <<>>
    BY <1>1, <2>2
  <2> QED
    BY <1>3, <2>1, <2>2, <2>3 DEF p, Appended
<1> QED
  BY <1>2, <1>3

\* Where the entry is, and where the old ones are.
LEMMA PlacedAt ==
    ASSUME NEW T, NEW base \in Seq(T), NEW e \in T
    PROVE  \A k \in 1..Len(Placed(base, e)) :
              \/ Placed(base, e)[k] = e /\ (k \in 1..Len(base) => IsFirst(base, k, e.id))
              \/ k \in 1..Len(base) /\ Placed(base, e)[k] = base[k] /\ ~IsFirst(base, k, e.id)
<1> DEFINE p == Placed(base, e)
           n == Len(base)
           m == Len(p)
<1>1. n \in Nat /\ DOMAIN base = 1..n
  BY ListIs
<1>2. e.id \in IdsOf(base) => Replaced(p, base, e)
  BY PlacedIs
<1>3. e.id \notin IdsOf(base) => Appended(p, base, e)
  BY PlacedIs
<1>4. e.id \notin IdsOf(base) => \A i \in 1..n : ~IsFirst(base, i, e.id)
  BY <1>1 DEF IsFirst, IdsOf
<1> HIDE DEF p, n, m
<1>5. ASSUME NEW k \in 1..m
      PROVE  \/ p[k] = e /\ (k \in 1..n => IsFirst(base, k, e.id))
             \/ k \in 1..n /\ p[k] = base[k] /\ ~IsFirst(base, k, e.id)
  <2>1. CASE e.id \in IdsOf(base)
    <3>1. /\ m = n
          /\ \A i \in 1..n : p[i] = IF IsFirst(base, i, e.id) THEN e ELSE base[i]
      BY <1>2, <2>1 DEF Replaced, n, m
    <3>2. k \in 1..n /\ p[k] = IF IsFirst(base, k, e.id) THEN e ELSE base[k]
      BY <3>1
    <3> QED
      BY <3>2
  <2>2. CASE e.id \notin IdsOf(base)
    <3>1. /\ m = n + 1 /\ p[n + 1] = e
          /\ \A i \in 1..n : p[i] = base[i]
      BY <1>3, <2>2 DEF Appended, n, m
    <3>2. \/ k \in 1..n
          \/ k = n + 1 /\ k \notin 1..n
      BY <1>1, <3>1
    <3> QED
      BY <1>4, <2>2, <3>1, <3>2
  <2> QED
    BY <2>1, <2>2
<1> QED
  BY <1>5 DEF p, n, m

\* Two first entries of an id are one.
LEMMA FirstOnce ==
    ASSUME NEW list, NEW id, NEW i \in Nat \ {0}, NEW k \in Nat \ {0},
           IsFirst(list, i, id), IsFirst(list, k, id)
    PROVE  i = k
<1>1. i < k \/ k < i \/ i = k
  OBVIOUS
<1>2. i < k => i \in 1..(k - 1)
  OBVIOUS
<1>3. k < i => k \in 1..(i - 1)
  OBVIOUS
<1> QED
  BY <1>1, <1>2, <1>3 DEF IsFirst

\* The entry is in one place.
LEMMA PlacedOnce ==
    ASSUME NEW T, NEW base \in Seq(T), NEW e \in T,
           NEW i \in 1..Len(Placed(base, e)), NEW k \in 1..Len(Placed(base, e)),
           i \in 1..Len(base) => IsFirst(base, i, e.id), k \in 1..Len(base) => IsFirst(base, k, e.id)
    PROVE  i = k
<1>1. Len(base) \in Nat /\ DOMAIN base = 1..Len(base) /\ i \in Nat \ {0} /\ k \in Nat \ {0}
  <2>1. Placed(base, e) \in Seq(T)
    BY PlacedIs
  <2>2. Len(Placed(base, e)) \in Nat
    BY <2>1, ListIs
  <2> DEFINE n == Len(Placed(base, e))
  <2>3. i \in 1..n /\ k \in 1..n /\ n \in Nat
    BY <2>2
  <2> HIDE DEF n
  <2> QED
    BY <2>3, ListIs
<1>2. CASE i \in 1..Len(base) /\ k \in 1..Len(base)
  BY <1>1, <1>2, FirstOnce
<1>3. CASE i \notin 1..Len(base) /\ k \notin 1..Len(base)
  <2>1. Len(Placed(base, e)) = Len(base) \/ Len(Placed(base, e)) = Len(base) + 1
    BY PlacedIs DEF Replaced, Appended
  <2> DEFINE n == Len(base)
             m == Len(Placed(base, e))
  <2>2. n \in Nat /\ (m = n \/ m = n + 1) /\ i \in 1..m /\ k \in 1..m /\ i \notin 1..n /\ k \notin 1..n
    BY <1>1, <1>3, <2>1
  <2> HIDE DEF n, m
  <2> QED
    BY <2>2
<1>4. CASE ~(i \in 1..Len(base) <=> k \in 1..Len(base))
  <2>1. e.id \in IdsOf(base)
    BY <1>1, <1>4 DEF IsFirst, IdsOf
  <2>2. Len(Placed(base, e)) = Len(base)
    BY <2>1, PlacedIs DEF Replaced
  <2> QED
    BY <1>4, <2>2
<1> QED
  BY <1>2, <1>3, <1>4

LEMMA PlacedSound ==
    ASSUME NEW base, Sound(base), NEW e \in Entries
    PROVE  Sound(Placed(base, e)) /\ Placed(base, e) # <<>>
<1> DEFINE p == Placed(base, e)
<1>1. base \in Seq(Entries) /\ DOMAIN base = 1..Len(base) /\ Len(base) \in Nat
  BY ListIs DEF Sound
<1>2. p \in Seq(Entries) /\ p # <<>>
  BY <1>1, PlacedIs
<1>3. ASSUME ~inPlace, NEW i \in 1..Len(p), NEW k \in 1..Len(p), p[i].id = p[k].id
      PROVE  i = k
  <2>1. \A j, l \in 1..Len(base) : base[j].id = base[l].id => j = l
    BY <1>3 DEF Sound, Single, Distinct
  <2>2. ASSUME NEW j \in 1..Len(base), base[j].id = e.id
        PROVE  IsFirst(base, j, e.id)
    <3>1. \A l \in 1..(j - 1) : l \in 1..Len(base) /\ l # j
      BY <1>1
    <3> QED
      BY <2>1, <2>2, <3>1 DEF IsFirst
  <2>3. \/ p[i] = e /\ (i \in 1..Len(base) => IsFirst(base, i, e.id))
        \/ i \in 1..Len(base) /\ p[i] = base[i] /\ ~IsFirst(base, i, e.id)
    BY <1>1, PlacedAt
  <2>4. \/ p[k] = e /\ (k \in 1..Len(base) => IsFirst(base, k, e.id))
        \/ k \in 1..Len(base) /\ p[k] = base[k] /\ ~IsFirst(base, k, e.id)
    BY <1>1, PlacedAt
  <2>5. CASE p[i] = e /\ (i \in 1..Len(base) => IsFirst(base, i, e.id))
    <3>1. k \in 1..Len(base) => IsFirst(base, k, e.id)
      BY <1>3, <2>2, <2>4, <2>5
    <3> QED
      BY <1>1, <2>5, <3>1, PlacedOnce
  <2>6. CASE i \in 1..Len(base) /\ p[i] = base[i] /\ ~IsFirst(base, i, e.id)
    <3>1. p[k] # e
      BY <1>3, <2>2, <2>6
    <3> QED
      BY <1>3, <2>1, <2>4, <2>6, <3>1
  <2> QED
    BY <2>3, <2>5, <2>6
<1>4. Single(p)
  BY <1>3 DEF Single, Distinct
<1> QED
  BY <1>2, <1>4 DEF Sound

\* The k-th entry of what is left was the k-th one, or the one after it.
From(list, id, k) == IF \E i \in 1..k : list[i].id = id THEN k + 1 ELSE k

LEMMA FromIs ==
    ASSUME NEW list, NEW id, NEW n \in Nat
    PROVE  /\ \A k \in 1..(n - 1) : From(list, id, k) \in 1..n
           /\ \A i, k \in 1..(n - 1) : From(list, id, i) = From(list, id, k) => i = k
<1>1. ASSUME NEW k \in 1..(n - 1)
      PROVE  From(list, id, k) \in 1..n
  BY <1>1 DEF From
<1>2. ASSUME NEW i \in 1..(n - 1), NEW k \in 1..(n - 1), i < k
      PROVE  From(list, id, i) # From(list, id, k)
  <2>1. (\E j \in 1..i : list[j].id = id) => \E j \in 1..k : list[j].id = id
    BY <1>2
  <2> QED
    BY <1>2, <2>1 DEF From
<1>3. \A i, k \in 1..(n - 1) : i < k \/ k < i \/ i = k
  OBVIOUS
<1> QED
  BY <1>1, <1>2, <1>3

LEMMA WithoutIs ==
    ASSUME NEW T, NEW base \in Seq(T), base # <<>>, NEW id
    PROVE  /\ WithoutFirst(base, id) \in Seq(T) /\ Len(WithoutFirst(base, id)) = Len(base) - 1
           /\ Len(base) > 1 => WithoutFirst(base, id) # <<>>
           /\ \A k \in 1..(Len(base) - 1) :
                 /\ From(base, id, k) \in 1..Len(base)
                 /\ WithoutFirst(base, id)[k] = base[From(base, id, k)]
           /\ \A i, k \in 1..(Len(base) - 1) : From(base, id, i) = From(base, id, k) => i = k
<1> DEFINE w == WithoutFirst(base, id)
           from(k) == From(base, id, k)
           n == Len(base)
<1>1. /\ n \in Nat /\ DOMAIN base = 1..n /\ n # 0 /\ \A k \in 1..n : base[k] \in T
  BY ListIs
<1>2. w = [k \in 1..(n - 1) |-> base[from(k)]]
  BY DEF WithoutFirst, From
<1> HIDE DEF n
<1>3. /\ \A k \in 1..(n - 1) : from(k) \in 1..n
      /\ \A i, k \in 1..(n - 1) : from(i) = from(k) => i = k
  BY <1>1, FromIs
<1> HIDE DEF w, from
<1>4. n - 1 \in Nat
  BY <1>1
<1>5. w \in Seq(T) /\ Len(w) = n - 1 /\ \A k \in 1..(n - 1) : w[k] = base[from(k)]
  BY <1>1, <1>2, <1>3, <1>4
<1>6. n > 1 => w # <<>>
  BY <1>1, <1>5
<1> QED
  BY <1>3, <1>5, <1>6 DEF w, from, n

LEMMA WithoutSound ==
    ASSUME NEW base, Sound(base), base # <<>>, NEW id
    PROVE  Sound(WithoutFirst(base, id)) /\ (Len(base) > 1 => WithoutFirst(base, id) # <<>>)
<1> DEFINE w == WithoutFirst(base, id)
           from(k) == From(base, id, k)
           n == Len(base)
<1>1. base \in Seq(Entries)
  BY DEF Sound
<1>2. w \in Seq(Entries) /\ Len(w) = n - 1 /\ (n > 1 => w # <<>>)
  BY <1>1, WithoutIs
<1>3. \A k \in 1..(n - 1) : from(k) \in 1..n /\ w[k] = base[from(k)]
  BY <1>1, WithoutIs
<1>4. \A i, k \in 1..(n - 1) : from(i) = from(k) => i = k
  BY <1>1, WithoutIs
<1> HIDE DEF w, from, n
<1>5. ASSUME ~inPlace, NEW i \in 1..(n - 1), NEW k \in 1..(n - 1), w[i].id = w[k].id
      PROVE  i = k
  <2>1. from(i) = from(k)
    BY <1>3, <1>5 DEF Sound, Single, Distinct, n
  <2> QED
    BY <1>4, <2>1
<1>6. Single(w)
  BY <1>2, <1>5 DEF Single, Distinct
<1> QED
  BY <1>2, <1>6 DEF w, n, Sound

LEMMA NamedIs ==
    ASSUME NEW list \in Imports
    PROVE  Named(list) \in Seq(Item)
<1> DEFINE kept == {e \in Range(list) : e.id # None}
           n == Filtered(list, kept)
           Brought == [id : Ids \cup {None}, isDefault : BOOLEAN]
<1>1. list \in Seq(Brought)
  BY ListAssumption
<1>2. Named(list) = n
  BY DEF Named
<1>3. n \in Seq(Brought) /\ Range(n) = Range(list) \cap kept
  <2> HIDE DEF kept, Brought
  <2> QED
    BY <1>1, FilteredRange, FilteredElements
<1> HIDE DEF n
<1>4. \A i \in 1..Len(n) : n[i] \in Item
  <2>1. DOMAIN n = 1..Len(n) /\ \A i \in 1..Len(n) : n[i] \in Brought
    <3> HIDE DEF Brought
    <3> QED
      BY <1>3, ListIs
  <2>2. \A i \in 1..Len(n) : n[i].id # None
    BY <1>3, <2>1 DEF Range
  <2> QED
    BY <2>1, <2>2 DEF Item
<1> QED
  BY <1>2, <1>3, <1>4

LEMMA OnlyIs ==
    ASSUME NEW T, T \in {Entries, Item}, NEW list \in Seq(T), Single(list), NEW id
    PROVE  /\ OnlyDefault(list, id) \in Seq(Item) /\ Single(OnlyDefault(list, id))
           /\ Len(OnlyDefault(list, id)) = Len(list)
           /\ \A k \in 1..Len(list) :
                 /\ OnlyDefault(list, id)[k].id = list[k].id
                 /\ OnlyDefault(list, id)[k].isDefault <=> list[k].id = id
<1> DEFINE o == OnlyDefault(list, id)
           only(k) == [id |-> list[k].id, isDefault |-> list[k].id = id]
<1>1. /\ Len(list) \in Nat /\ DOMAIN list = 1..Len(list)
      /\ \A k \in 1..Len(list) : list[k].id \in Ids
  BY ListIs DEF Entries, Item
<1>2. o = [k \in 1..Len(list) |-> only(k)]
  BY <1>1 DEF OnlyDefault
<1>3. ASSUME NEW k \in 1..Len(list)
      PROVE  /\ only(k) \in Item /\ only(k).id = list[k].id
             /\ only(k).isDefault <=> list[k].id = id
  <2>1. PICK chosen \in BOOLEAN : chosen = (list[k].id = id)
    OBVIOUS
  <2>2. only(k) = [id |-> list[k].id, isDefault |-> chosen] /\ list[k].id \in Ids
    BY <1>1, <2>1
  <2>3. only(k) \in Item /\ only(k).id = list[k].id /\ only(k).isDefault = chosen
    BY <2>2 DEF Item
  <2> QED
    BY <2>1, <2>3
<1> HIDE DEF o, only
<1>4. /\ o \in Seq(Item) /\ Len(o) = Len(list)
      /\ \A k \in 1..Len(list) :
            o[k].id = list[k].id /\ (o[k].isDefault <=> list[k].id = id)
  BY <1>1, <1>2, <1>3
<1>5. Single(o)
  BY <1>4 DEF Single, Distinct
<1> QED
  BY <1>4, <1>5 DEF o

\* The kinds of operations on a list that is at hand.
LEMMA OperationIs ==
    ASSUME NEW op \in Asked
    PROVE  /\ op.kind \in {"save", "saveDefault", "choose", "remove", "read", "keep", "clear", "import"}
           /\ op.kind \in {"save", "saveDefault", "choose", "remove"} => op.id \in Ids
           /\ op.kind \in {"keep", "clear", "import"} => inPlace
           /\ op.kind = "import" => op.list \in Imports
<1>1. CASE op \in Operation
  BY <1>1 DEF Operation, Ask
<1>2. CASE op \notin Operation
  <2>1. inPlace /\ op \in VersionOperation
    BY <1>2 DEF Asked
  <2> QED
    BY <1>2, <2>1 DEF VersionOperation, Ask
<1> QED
  BY <1>1, <1>2

LEMMA NewIs ==
    ASSUME NEW r \in Requests, NEW op, op.id \in Ids, NEW isDefault \in BOOLEAN
    PROVE  /\ New(r, op, isDefault) \in Entries /\ New(r, op, isDefault).id = op.id
           /\ New(r, op, isDefault).isDefault = isDefault
           /\ New(r, op, isDefault).maker = <<r, "new">> /\ New(r, op, isDefault).at = 0
BY DEF New, Entry, Entries, Maker

LEMMA AnewIs ==
    ASSUME NEW list, Sound(list), NEW id, NEW r \in Requests
    PROVE  /\ Sound(Anew(list, id, r)) /\ Len(Anew(list, id, r)) = Len(list)
           /\ list # <<>> => Anew(list, id, r) # <<>>
           /\ Text(Anew(list, id, r)) = OnlyDefault(list, id)
           /\ \A k \in 1..Len(list) :
                 Anew(list, id, r)[k].maker = <<r, "new">> /\ Anew(list, id, r)[k].at = k
<1> DEFINE only == OnlyDefault(list, id)
           maker == <<r, "new">>
           m == Made(only, maker)
<1>1. only \in Seq(Item) /\ Single(only) /\ Len(only) = Len(list)
  BY OnlyIs DEF Sound
<1>2. maker \in Maker
  BY DEF Maker
<1>3. Anew(list, id, r) = m
  BY DEF Anew
<1> HIDE DEF only, maker
<1>4. /\ Sound(m) /\ Len(m) = Len(only) /\ Text(m) = only
      /\ \A k \in 1..Len(only) : m[k].maker = maker /\ m[k].at = k
  BY <1>1, <1>2, MadeIs
<1> HIDE DEF m
<1>5. list # <<>> => m # <<>>
  BY <1>1, <1>4, ListIs DEF Sound
<1> QED
  BY <1>1, <1>3, <1>4, <1>5 DEF only, maker

LEMMA EditIs == \A list, off, on : /\ Edit(list, off, on).list = list
                                  /\ Edit(list, off, on).off = off /\ Edit(list, off, on).on = on
BY DEF Edit

LEMMA EditedIs ==
    ASSUME NEW base, Sound(base), Filled(base), NEW r \in Requests, NEW op \in Asked,
           op.kind \notin {"read", "clear"}, ~Refused(base, op)
    PROVE  Sound(Edited(base, r, op).list) /\ Filled(Edited(base, r, op).list)
<1>1. CASE op.kind \in {"save", "saveDefault"}
  <2>1. op.id \in Ids /\ (op.kind = "saveDefault") \in BOOLEAN /\ FALSE \in BOOLEAN
    BY <1>1, OperationIs
  <2> DEFINE e == New(r, op, op.kind = "saveDefault")
             f == New(r, op, FALSE)
  <2>2. e \in Entries /\ f \in Entries
    BY <2>1, NewIs
  <2> HIDE DEF e, f
  <2>3. /\ Sound(Placed(base, e)) /\ Placed(base, e) # <<>>
        /\ Sound(Placed(base, f)) /\ Placed(base, f) # <<>>
    BY <2>2, PlacedSound
  <2>4. SaveVersion(base, r, op).list = Placed(base, e)
    BY EditIs DEF SaveVersion, e
  <2>5. \/ SaveTier(base, r, op).list = Placed(base, f)
        \/ SaveTier(base, r, op).list = Anew(Placed(base, f), op.id, r)
    <3>1. op.kind = "saveDefault" => SaveTier(base, r, op) = Edit(Anew(Placed(base, f), op.id, r), {}, {})
      BY DEF SaveTier, f
    <3>2. op.kind # "saveDefault" =>
             SaveTier(base, r, op) = Edit(Placed(base, f), {}, FirstIfNone(Placed(base, f)))
      BY DEF SaveTier, f
    <3> QED
      BY <3>1, <3>2, EditIs
  <2>6. \/ Edited(base, r, op) = SaveVersion(base, r, op)
        \/ Edited(base, r, op) = SaveTier(base, r, op)
    BY <1>1 DEF Edited
  <2>7. /\ Sound(Anew(Placed(base, f), op.id, r)) /\ Anew(Placed(base, f), op.id, r) # <<>>
    BY <2>3, AnewIs
  <2> QED
    BY <2>3, <2>4, <2>5, <2>6, <2>7 DEF Filled
<1>2. CASE op.kind = "choose"
  <2>1. \/ Edited(base, r, op) = ChooseVersion(base, op)
        \/ Edited(base, r, op) = ChooseTier(base, r, op)
    BY <1>2 DEF Edited
  <2>2. ChooseVersion(base, op).list = base
    BY EditIs DEF ChooseVersion
  <2>3. ChooseTier(base, r, op).list = Anew(base, op.id, r)
    BY EditIs DEF ChooseTier
  <2>4. Sound(Anew(base, op.id, r)) /\ (base # <<>> => Anew(base, op.id, r) # <<>>)
    BY AnewIs
  <2> QED
    BY <2>1, <2>2, <2>3, <2>4 DEF Filled
<1>3. CASE op.kind = "remove"
  <2>1. Edited(base, r, op) = Remove(base, op)
    BY <1>3 DEF Edited
  <2>2. Remove(base, op).list = WithoutFirst(base, op.id)
    BY EditIs DEF Remove
  <2>3. base # <<>> /\ (inPlace \/ Len(base) > 1)
    <3>1. Len(base) \in Nat
      BY ListIs DEF Sound
    <3> QED
      BY <1>3, <3>1 DEF Refused, IdsOf
  <2> QED
    BY <2>1, <2>2, <2>3, WithoutSound DEF Filled
<1>4. CASE op.kind = "import"
  <2>1. Edited(base, r, op) = ImportVersions(r, op)
    BY <1>4 DEF Edited
  <2> DEFINE maker == <<r, "new">>
             named == Named(op.list)
  <2>2. ImportVersions(r, op).list = Made(named, maker)
    BY EditIs DEF ImportVersions
  <2>3. inPlace /\ named \in Seq(Item) /\ maker \in Maker
    BY <1>4, OperationIs, NamedIs DEF Maker
  <2> HIDE DEF named, maker
  <2>4. Sound(Made(named, maker))
    BY <2>3, MadeIs DEF Single
  <2> QED
    BY <2>1, <2>2, <2>3, <2>4 DEF Filled
<1>5. CASE op.kind = "keep"
  <2>1. Edited(base, r, op) = KeepVersions(base)
    BY <1>5 DEF Edited
  <2> QED
    BY <2>1, EditIs DEF KeepVersions
<1> QED
  BY <1>1, <1>2, <1>3, <1>4, <1>5, OperationIs

LEMMA IdleIs ==
    /\ Idle \in Request /\ Idle.step = "idle" /\ Idle.list = <<>> /\ Idle.known = FALSE
    /\ Done \in Request /\ Done.step = "done" /\ Done.list = <<>> /\ Done.known = FALSE
    /\ Carries(Idle) /\ Carries(Done)
<1>1. Ask("read", None, <<>>) \in Asked
  BY DEF Asked, VersionOperation, Operation
<1>2. <<>> \in Seq(Entries) /\ <<>> \in Seq(Item)
  OBVIOUS
<1>3. Idle \in Request /\ Idle.step = "idle" /\ Idle.list = <<>> /\ Idle.known = FALSE
  BY <1>1, <1>2 DEF Idle, Request
<1>4. Done \in Request /\ Done.step = "done" /\ Done.list = <<>> /\ Done.known = FALSE
  BY <1>3 DEF Done, Request
<1> QED
  BY <1>3, <1>4 DEF Carries, Saving

-------------------------------------------------------------------------------
(* Requests. *)

LEMMA CarriedAgain ==
    ASSUME UNCHANGED inPlace, req' \in [Requests -> Request],
           \A r \in Requests : Carries(req'[r])
    PROVE  Carried'
BY DEF Carried, Carries, Request, Asked, Sound, Stored, Single, Filled

LEMMA GoesOn ==
    ASSUME Carried, NEW r \in Requests, NEW p \in Request, Carries(p), Goes(r, p),
           UNCHANGED inPlace
    PROVE  /\ Carried' /\ req'[r] = p
           /\ \A s \in Requests \ {r} : req'[s] = req[s]
<1>1. req' \in [Requests -> Request] /\ \A s \in Requests : req'[s] = IF s = r THEN p ELSE req[s]
  BY DEF Goes, Carried
<1>2. \A s \in Requests : Carries(req'[s])
  BY <1>1 DEF Carried
<1> QED
  BY <1>1, <1>2, CarriedAgain

LEMMA SavesIs ==
    ASSUME NEW q \in Request, NEW list, Sound(list), Filled(list), NEW restores \in BOOLEAN,
           restores => q.op.kind # "clear"
    PROVE  LET p == Saves(q, list, restores)
           IN  /\ p \in Request /\ Carries(p)
               /\ p.step = "check" /\ p.op = q.op /\ p.known = q.known /\ p.thrown = q.thrown
               /\ p.list = list /\ p.text = Text(list) /\ p.restores = restores
<1> DEFINE text == Text(list)
           p == Saves(q, list, restores)
<1>1. text \in Seq(Item) /\ Stored(text) /\ SameIds(list, text)
  BY TextIs DEF Stored
<1>2. list \in Seq(Entries)
  BY DEF Sound
<1>3. p = [q EXCEPT !.step = "check", !.restores = restores, !.list = list, !.text = text]
  BY DEF Saves
<1> HIDE DEF text, p
<1>4. /\ p \in Request
      /\ p.step = "check" /\ p.op = q.op /\ p.known = q.known /\ p.thrown = q.thrown
      /\ p.list = list /\ p.text = text /\ p.restores = restores
  BY <1>1, <1>2, <1>3 DEF Request
<1>5. Carries(p)
  BY <1>1, <1>4 DEF Carries, Saving
<1> QED
  BY <1>4, <1>5 DEF p, text

LEMMA RemarkedIs ==
    ASSUME NEW p \in Request, Carries(p), NEW e
    PROVE  LET m == [p EXCEPT !.list = Marked(p.list, e)]
           IN  /\ m \in Request /\ Carries(m)
               /\ m.step = p.step /\ m.op = p.op /\ m.known = p.known /\ m.got = p.got
               /\ m.put = p.put /\ m.restores = p.restores /\ m.text = p.text
               /\ m.thrown = p.thrown /\ m.list = Marked(p.list, e)
<1> DEFINE list == Marked(p.list, e)
           m == [p EXCEPT !.list = list]
<1>1. Sound(p.list)
  <2>1. Sound(<<>>)
    BY DEF Sound, Single, Distinct
  <2> QED
    BY <2>1 DEF Carries
<1>2. /\ Sound(list) /\ SameIds(list, p.list) /\ (p.list = <<>> <=> list = <<>>)
  BY <1>1, MarkedIs
<1> HIDE DEF list
<1>3. list \in Seq(Entries)
  BY <1>2 DEF Sound
<1>4. /\ m \in Request
      /\ m.step = p.step /\ m.op = p.op /\ m.known = p.known /\ m.got = p.got
      /\ m.put = p.put /\ m.restores = p.restores /\ m.text = p.text
      /\ m.thrown = p.thrown /\ m.list = list
  BY <1>3 DEF Request
<1> HIDE DEF m
<1>5. p.step \in Saving => Filled(list) /\ SameIds(list, p.text)
  BY <1>2 DEF Carries, Filled, SameIds
<1>6. Carries(m)
  BY <1>2, <1>4, <1>5 DEF Carries
<1> QED
  BY <1>4, <1>6 DEF m, list

\* The two ways on from a list at hand.
Ends(r, q, c) ==
    /\ q.op.kind = "read" \/ Refused(c.list, q.op)
    /\ Goes(r, Done) /\ cache' = c /\ UNCHANGED shipped
Turns(r, q, c, e, new) ==
    /\ q.op.kind # "read" /\ ~Refused(c.list, q.op)
    /\ e = Edited(c.list, r, q.op) /\ new = Marked(e.list, e)
    /\ \/ cache' = [c EXCEPT !.list = new] /\ inPlace /\ q.op.kind \notin {"import", "keep"}
          /\ shipped' = IF c.isShipped THEN new ELSE Marked(shipped, e)
       \/ cache' = [c EXCEPT !.list = Marked(c.list, e)]
          /\ shipped' = Marked(shipped, e)
    /\ req' = [s \in Requests |-> IF s = r THEN Saves(q, new, FALSE)
                                  ELSE [req[s] EXCEPT !.list = Marked(req[s].list, e)]]

LEMMA WithListIs ==
    ASSUME NEW r, NEW q, NEW c, WithList(r, q, c)
    PROVE  Ends(r, q, c) \/ \E e, new : Turns(r, q, c, e, new)
<1>1. CASE q.op.kind = "read" \/ Refused(c.list, q.op)
  BY <1>1 DEF WithList, Ends
<1>2. CASE q.op.kind # "read" /\ ~Refused(c.list, q.op)
  <2> DEFINE e == Edited(c.list, r, q.op)
             new == Marked(e.list, e)
             replaced == inPlace /\ q.op.kind \notin {"import", "keep"}
  <2>1. /\ cache' = [c EXCEPT !.list = IF replaced THEN new ELSE Marked(c.list, e)]
        /\ shipped' = IF replaced /\ c.isShipped THEN new ELSE Marked(shipped, e)
        /\ req' = [s \in Requests |-> IF s = r THEN Saves(q, new, FALSE)
                                      ELSE [req[s] EXCEPT !.list = Marked(req[s].list, e)]]
    BY <1>2 DEF WithList
  <2>2. \/ cache' = [c EXCEPT !.list = new] /\ inPlace /\ q.op.kind \notin {"import", "keep"}
           /\ shipped' = IF c.isShipped THEN new ELSE Marked(shipped, e)
        \/ cache' = [c EXCEPT !.list = Marked(c.list, e)]
           /\ shipped' = Marked(shipped, e)
    <3> HIDE DEF e, new
    <3> QED
      BY <2>1
  <2> HIDE DEF replaced
  <2>3. Turns(r, q, c, e, new)
    BY <1>2, <2>1, <2>2 DEF Turns
  <2> QED
    BY <2>3
<1> QED
  BY <1>1, <1>2

\* What an edit leaves in memory is well made, whoever shares it.
LEMMA TurnsKeeps ==
    ASSUME Fixed, Listed, Carried, NEW r \in Requests, NEW q \in Request, NEW c \in Cache,
           q.op.kind # "clear", Sound(c.list), Filled(c.list), c.isShipped => c.list = shipped,
           UNCHANGED <<inPlace, stored>>, NEW e, NEW new, Turns(r, q, c, e, new)
    PROVE  /\ Listed' /\ Carried'
           /\ req'[r] = Saves(q, new, FALSE) /\ Sound(new)
           /\ \A s \in Requests \ {r} :
                 /\ req'[s] = [req[s] EXCEPT !.list = Marked(req[s].list, e)]
                 /\ req'[s].step = req[s].step
<1>1. q.op \in Asked
  BY DEF Request
<1>2. Sound(e.list) /\ Filled(e.list)
  BY <1>1, EditedIs DEF Turns
<1>3. Sound(new) /\ Filled(new)
  BY <1>2, MarkedIs DEF Turns, Filled
<1>4. Carried' /\ req'[r] = Saves(q, new, FALSE)
      /\ \A s \in Requests \ {r} :
            /\ req'[s] = [req[s] EXCEPT !.list = Marked(req[s].list, e)]
            /\ req'[s].step = req[s].step
  <2> DEFINE saves == Saves(q, new, FALSE)
             again(s) == [req[s] EXCEPT !.list = Marked(req[s].list, e)]
  <2>1. saves \in Request /\ Carries(saves)
    BY <1>3, SavesIs
  <2>2. ASSUME NEW s \in Requests
        PROVE  again(s) \in Request /\ Carries(again(s)) /\ again(s).step = req[s].step
    <3>1. req[s] \in Request /\ Carries(req[s])
      BY DEF Carried
    <3> QED
      BY <3>1, RemarkedIs
  <2>3. req' = [s \in Requests |-> IF s = r THEN saves ELSE again(s)]
    BY DEF Turns
  <2> HIDE DEF saves, again
  <2>4. /\ req' \in [Requests -> Request] /\ \A s \in Requests : Carries(req'[s])
    BY <2>1, <2>2, <2>3
  <2>5. Carried'
    BY <2>4, CarriedAgain
  <2>6. req'[r] = saves /\ \A s \in Requests \ {r} : req'[s] = again(s)
    BY <2>3
  <2> QED
    BY <2>2, <2>5, <2>6 DEF saves, again
<1>5. /\ Sound(Marked(shipped, e)) /\ Filled(Marked(shipped, e))
      /\ Sound(Marked(c.list, e)) /\ Filled(Marked(c.list, e))
  BY MarkedIs DEF Listed, Filled
<1>6. \A list : Sound(list) => list \in Seq(Entries)
  BY DEF Sound
<1>7. /\ Sound(shipped') /\ Filled(shipped') /\ cache' \in Cache
      /\ Sound(cache'.list) /\ Filled(cache'.list)
      /\ cache'.isShipped => cache'.list = shipped'
  <2>1. CASE /\ cache' = [c EXCEPT !.list = new] /\ inPlace /\ q.op.kind \notin {"import", "keep"}
             /\ shipped' = IF c.isShipped THEN new ELSE Marked(shipped, e)
    <3>1. cache' \in Cache /\ cache'.list = new /\ cache'.isShipped = c.isShipped
      BY <1>3, <1>6, <2>1 DEF Cache
    <3> QED
      BY <1>3, <1>5, <2>1, <3>1
  <2>2. CASE cache' = [c EXCEPT !.list = Marked(c.list, e)] /\ shipped' = Marked(shipped, e)
    <3> DEFINE again == Marked(c.list, e)
    <3>1. again \in Seq(Entries)
      BY <1>5, <1>6
    <3> HIDE DEF again
    <3>2. cache' = [c EXCEPT !.list = again]
      BY <2>2 DEF again
    <3>3. cache' \in Cache /\ cache'.list = again /\ cache'.isShipped = c.isShipped
      BY <3>1, <3>2 DEF Cache
    <3> QED
      BY <1>5, <2>2, <3>3 DEF again
  <2> QED
    BY <2>1, <2>2 DEF Turns
<1>8. Listed'
  BY <1>7 DEF Listed, Sound, Single, Filled, Stored, Cache
<1> QED
  BY <1>3, <1>4, <1>8

LEMMA EndsKeeps ==
    ASSUME Listed, Carried, NEW r \in Requests, NEW q, NEW c \in Cache,
           Sound(c.list), Filled(c.list), c.isShipped => c.list = shipped,
           UNCHANGED <<inPlace, stored>>, Ends(r, q, c)
    PROVE  /\ Listed' /\ Carried' /\ req'[r] = Done
           /\ \A s \in Requests \ {r} : req'[s] = req[s]
<1>1. Listed'
  BY DEF Ends, Listed, Sound, Single, Filled, Stored, Cache
<1>2. Done \in Request /\ Carries(Done) /\ Goes(r, Done)
  BY IdleIs DEF Ends
<1> QED
  BY <1>1, <1>2, GoesOn

\* The request is where it was, but for what its list says.
Follows(p, q) ==
    p.step = q.step /\ p.known = q.known /\ p.got = q.got /\ p.restores = q.restores

LEMMA WithListKeeps ==
    ASSUME Fixed, Listed, Carried, NEW r \in Requests, NEW q \in Request, NEW c \in Cache,
           q.op.kind # "clear", Sound(c.list), Filled(c.list), c.isShipped => c.list = shipped,
           UNCHANGED <<inPlace, stored>>, WithList(r, q, c)
    PROVE  /\ Listed' /\ Carried'
           /\ \/ req'[r] = Done /\ cache' = c
              \/ \E new : Sound(new) /\ req'[r] = Saves(q, new, FALSE)
           /\ \A s \in Requests \ {r} : Follows(req'[s], req[s])
<1>1. CASE Ends(r, q, c)
  BY <1>1, EndsKeeps DEF Ends, Follows
<1>2. ASSUME NEW e, NEW new, Turns(r, q, c, e, new)
      PROVE  /\ Listed' /\ Carried'
             /\ req'[r] = Saves(q, new, FALSE) /\ Sound(new)
             /\ \A s \in Requests \ {r} : Follows(req'[s], req[s])
  <2>1. /\ Listed' /\ Carried'
        /\ req'[r] = Saves(q, new, FALSE) /\ Sound(new)
        /\ \A s \in Requests \ {r} :
              /\ req'[s] = [req[s] EXCEPT !.list = Marked(req[s].list, e)]
              /\ req'[s].step = req[s].step
    BY <1>2, TurnsKeeps
  <2>2. ASSUME NEW s \in Requests \ {r}
        PROVE  Follows(req'[s], req[s])
    <3>1. req[s] \in Request /\ Carries(req[s])
      BY DEF Carried
    <3> DEFINE m == [req[s] EXCEPT !.list = Marked(req[s].list, e)]
    <3>2. /\ m.step = req[s].step /\ m.known = req[s].known
          /\ m.got = req[s].got /\ m.restores = req[s].restores
      BY <3>1, RemarkedIs
    <3>3. req'[s] = m
      BY <2>1
    <3> HIDE DEF m
    <3> QED
      BY <3>2, <3>3 DEF Follows
  <2> QED
    BY <2>1, <2>2
<1> QED
  BY <1>1, <1>2, WithListIs

-------------------------------------------------------------------------------
(* Steps. *)

\* A request that moves on leaves the others where they are, and meets its part.
LEMMA Follow ==
    ASSUME Inv, NEW r \in Requests, UNCHANGED <<calm, inPlace>>, Carried',
           faults' = 0 => faults = 0, stored # None => stored' # None,
           \A s \in Requests \ {r} : Follows(req'[s], req[s]),
           faults' = 0 /\ req'[r].known /\ req'[r].step \notin {"idle", "done"} =>
              /\ stored' # None
              /\ req'[r].step = "answered" => req'[r].got # None
              /\ req'[r].step \in Saving => ~req'[r].restores,
           calm =>
              /\ \A s \in Under : s = r
              /\ req'[r].step \in {"idle", "done"} /\ cache'.fresh => Text(cache'.list) = stored'
              /\ req'[r].step \in {"read", "answered"} => ~cache'.fresh /\ ~req'[r].thrown
              /\ req'[r].step = "answered" => req'[r].got = stored'
              /\ req'[r].step \in Saving =>
                    /\ ~req'[r].thrown /\ req'[r].text = Text(req'[r].list)
                    /\ req'[r].restores => req'[r].list = shipped'
              /\ req'[r].step = "write" => req'[r].put = (stored' # None)
              /\ req'[r].step = "saved" => req'[r].text = stored'
    PROVE  Known' /\ Undisturbed'
<1>1. Known'
  <2>1. ASSUME NEW s \in Requests
        PROVE  faults' = 0 /\ req'[s].known /\ req'[s].step \notin {"idle", "done"} =>
                  /\ stored' # None
                  /\ req'[s].step = "answered" => req'[s].got # None
                  /\ req'[s].step \in Saving => ~req'[s].restores
    BY DEF Inv, Known, Finds, Follows
  <2> QED
    BY <2>1 DEF Known, Finds
<1>2. ASSUME calm
      PROVE  /\ \A s \in Under' : s = r
             /\ Under' = {} /\ cache'.fresh => Text(cache'.list) = stored'
    BY <1>2 DEF Under, Follows
<1>3. ASSUME calm, NEW s \in Requests, s # r
      PROVE  req'[s].step \in {"idle", "done"}
    BY <1>3 DEF Under, Follows
<1>4. Undisturbed'
  <2>1. ASSUME calm, NEW s \in Requests
        PROVE  Sees(req[s])'
    <3>1. CASE s = r
      BY <2>1, <3>1 DEF Sees
    <3>2. CASE s # r
      BY <1>3, <2>1, <3>2 DEF Sees, Saving
    <3> QED
      BY <3>1, <3>2
  <2> QED
    BY <1>2, <2>1 DEF Undisturbed
<1> QED
  BY <1>1, <1>4

LEMMA BeginSafe ==
    ASSUME Inv, NEW r \in Requests, NEW op \in Asked, Begin(r, op)
    PROVE  Inv'
<1> DEFINE q == [Idle EXCEPT !.op = op, !.known = (stored # None)]
           reads == [q EXCEPT !.step = "read"]
<1>1. /\ q \in Request /\ q.step = "idle" /\ q.op = op /\ q.known = (stored # None)
      /\ q.thrown = FALSE /\ q.list = <<>>
  <2>1. (stored # None) \in BOOLEAN
    OBVIOUS
  <2> QED
    BY <2>1, IdleIs DEF Request, Idle
<1>2. /\ UNCHANGED <<calm, inPlace, stored, faults>> /\ req[r].step = "idle"
      /\ calm => Under = {}
      /\ \/ op.kind # "clear" /\ cache.fresh /\ WithList(r, q, cache)
         \/ /\ op.kind # "clear" /\ Goes(r, reads)
            /\ cache' = [cache EXCEPT !.fresh = FALSE] /\ UNCHANGED shipped
         \/ op.kind = "clear" /\ Goes(r, Saves(q, <<>>, FALSE)) /\ UNCHANGED <<cache, shipped>>
  BY DEF Begin
<1> HIDE DEF q
<1>3. CASE op.kind # "clear" /\ cache.fresh /\ WithList(r, q, cache)
  <2>1. /\ Listed' /\ Carried'
        /\ \/ req'[r] = Done /\ cache' = cache
           \/ \E new : Sound(new) /\ req'[r] = Saves(q, new, FALSE)
        /\ \A s \in Requests \ {r} : Follows(req'[s], req[s])
    BY <1>1, <1>2, <1>3, WithListKeeps DEF Inv, Listed
  <2>2. CASE req'[r] = Done /\ cache' = cache
    BY <1>2, <2>1, <2>2, Follow, IdleIs DEF Inv, Fixed, Undisturbed, Saving
  <2>3. ASSUME NEW new, Sound(new), req'[r] = Saves(q, new, FALSE)
        PROVE  Known' /\ Undisturbed'
    <3> DEFINE p == Saves(q, new, FALSE)
    <3>1. /\ p.step = "check" /\ p.known = q.known /\ p.thrown = FALSE /\ p.list = new
          /\ p.text = Text(new) /\ p.restores = FALSE
      BY <1>1, <2>3, SavesIs DEF Saves, Request
    <3> HIDE DEF p
    <3>2. req'[r] = p
      BY <2>3 DEF p
    <3> QED
      BY <1>1, <1>2, <2>1, <3>1, <3>2, Follow DEF Inv, Fixed
  <2> QED
    BY <1>2, <2>1, <2>2, <2>3 DEF Inv, Fixed
<1>4. CASE /\ op.kind # "clear" /\ Goes(r, reads)
           /\ cache' = [cache EXCEPT !.fresh = FALSE] /\ UNCHANGED shipped
  <2>1. /\ reads \in Request /\ reads.step = "read" /\ reads.op = op /\ reads.list = <<>>
        /\ reads.known = (stored # None) /\ reads.thrown = FALSE
    BY <1>1 DEF Request
  <2> HIDE DEF reads
  <2>2. Carries(reads)
    BY <1>4, <2>1 DEF Carries, Saving
  <2>3. /\ Carried' /\ req'[r] = reads
        /\ \A s \in Requests \ {r} : Follows(req'[s], req[s])
    BY <1>2, <1>4, <2>1, <2>2, GoesOn DEF Inv, Follows
  <2>4. cache' \in Cache /\ cache'.list = cache.list /\ cache'.fresh = FALSE
        /\ cache'.isShipped = cache.isShipped
    BY <1>4 DEF Inv, Listed, Cache
  <2>5. Listed'
    BY <1>2, <1>4, <2>4 DEF Inv, Listed, Sound, Single, Filled, Stored, Cache
  <2>6. Known' /\ Undisturbed'
    BY <1>2, <2>1, <2>3, <2>4, Follow DEF Inv, Fixed, Saving
  <2> QED
    BY <1>2, <2>3, <2>5, <2>6 DEF Inv, Fixed
<1>5. CASE op.kind = "clear" /\ Goes(r, Saves(q, <<>>, FALSE)) /\ UNCHANGED <<cache, shipped>>
  <2> DEFINE p == Saves(q, <<>>, FALSE)
  <2>1. Sound(<<>>) /\ Filled(<<>>)
    <3>1. inPlace
      BY <1>5, OperationIs
    <3> QED
      BY <3>1 DEF Sound, Single, Distinct, Filled
  <2>2. /\ p \in Request /\ Carries(p)
        /\ p.step = "check" /\ p.known = q.known /\ p.thrown = FALSE /\ p.list = <<>>
        /\ p.text = Text(<<>>) /\ p.restores = FALSE
    <3> PICK list : list = <<>>
      OBVIOUS
    <3> PICK restores \in BOOLEAN : restores = FALSE
      OBVIOUS
    <3>1. q \in Request /\ q.thrown = FALSE /\ Sound(list) /\ Filled(list)
      BY <1>1, <2>1
    <3>2. /\ Saves(q, list, restores) \in Request /\ Carries(Saves(q, list, restores))
          /\ Saves(q, list, restores).step = "check"
          /\ Saves(q, list, restores).known = q.known
          /\ Saves(q, list, restores).thrown = q.thrown
          /\ Saves(q, list, restores).list = list
          /\ Saves(q, list, restores).text = Text(list)
          /\ Saves(q, list, restores).restores = restores
      BY <3>1, SavesIs
    <3> QED
      BY <3>1, <3>2
  <2> HIDE DEF p
  <2>3. Goes(r, p)
    BY <1>5 DEF p
  <2>4. /\ Carried' /\ req'[r] = p
        /\ \A s \in Requests \ {r} : Follows(req'[s], req[s])
    BY <1>2, <2>2, <2>3, GoesOn DEF Inv, Follows
  <2>5. Listed'
    BY <1>2, <1>5 DEF Inv, Listed, Sound, Single, Filled, Stored, Cache
  <2>6. Known' /\ Undisturbed'
    BY <1>1, <1>2, <2>2, <2>4, Follow DEF Inv, Fixed
  <2> QED
    BY <1>2, <2>4, <2>5, <2>6 DEF Inv, Fixed
<1> QED
  BY <1>2, <1>3, <1>4, <1>5

LEMMA FaultIs ==
    ASSUME Fixed, UNCHANGED <<calm, inPlace>>, Fault \/ NoFault
    PROVE  /\ Fixed' /\ (faults' = 0 => faults = 0)
           /\ Fault => ~calm /\ faults' # 0
           /\ NoFault => faults' = faults
BY BoundAssumption DEF Fixed, Fault, NoFault

LEMMA ServeReadSafe ==
    ASSUME Inv, NEW r \in Requests, ServeRead(r)
    PROVE  Inv'
<1> DEFINE with(got) == [req[r] EXCEPT !.step = "answered", !.got = got]
<1>1. /\ UNCHANGED <<calm, inPlace, stored, shipped, cache>> /\ req[r].step = "read"
      /\ req[r] \in Request /\ Carries(req[r])
  BY DEF ServeRead, Inv, Carried
<1>2. PICK got : /\ Goes(r, with(got))
                 /\ (got = stored /\ NoFault) \/ (got = None /\ Fault)
  <2>1. \/ Goes(r, with(stored)) /\ NoFault
        \/ Goes(r, with(None)) /\ Fault
    BY DEF ServeRead
  <2> HIDE DEF with
  <2>2. CASE Goes(r, with(stored)) /\ NoFault
    BY <2>2
  <2>3. CASE Goes(r, with(None)) /\ Fault
    BY <2>3
  <2> QED
    BY <2>1, <2>2, <2>3
<1>3. /\ Fixed' /\ (faults' = 0 => faults = 0 /\ got = stored)
      /\ calm => got = stored
  BY <1>1, <1>2, FaultIs DEF Inv
<1>4. got \in {None} \cup Seq(Item) /\ (got = None \/ Stored(got))
  BY <1>2 DEF Inv, Listed, Stored
<1>5. /\ with(got) \in Request /\ with(got).step = "answered" /\ with(got).got = got
      /\ with(got).op = req[r].op /\ with(got).list = req[r].list /\ with(got).known = req[r].known
      /\ with(got).thrown = req[r].thrown
  BY <1>1, <1>4 DEF Request
<1> DEFINE p == with(got)
<1> HIDE DEF with
<1>6. Carries(p)
  BY <1>1, <1>4, <1>5 DEF Carries, Saving
<1>7. /\ Carried' /\ req'[r] = p
      /\ \A s \in Requests \ {r} : Follows(req'[s], req[s])
  BY <1>1, <1>2, <1>5, <1>6, GoesOn DEF Inv, Follows
<1>8. Listed'
  BY <1>1 DEF Inv, Listed, Sound, Single, Filled, Stored, Cache
<1>9. Known' /\ Undisturbed'
  <2>1. faults' = 0 /\ req'[r].known => stored # None
    BY <1>1, <1>3, <1>5, <1>7 DEF Inv, Known, Finds
  <2>2. calm => (\A s \in Under : s = r) /\ ~cache.fresh /\ ~req[r].thrown
    BY <1>1 DEF Inv, Undisturbed, Under, Sees
  <2> QED
    BY <1>1, <1>3, <1>5, <1>7, <2>1, <2>2, Follow DEF Saving
<1> QED
  BY <1>3, <1>7, <1>8, <1>9 DEF Inv

LEMMA ReadSafe ==
    ASSUME Inv, NEW r \in Requests, Read(r)
    PROVE  Inv'
<1> DEFINE got == req[r].got
           q == [req[r] EXCEPT !.got = None]
           c == [list |-> Parsed(got, r), fresh |-> TRUE, isShipped |-> FALSE]
<1>1. /\ UNCHANGED <<calm, inPlace, stored, faults>> /\ req[r].step = "answered"
      /\ req[r] \in Request /\ Carries(req[r]) /\ req[r].op.kind # "clear"
      /\ got = None \/ Stored(got)
  BY DEF Read, Inv, Carried, Carries
<1>2. \/ Initialized(got) /\ WithList(r, q, c)
      \/ ~Initialized(got) /\ Goes(r, Saves(q, shipped, TRUE)) /\ UNCHANGED <<cache, shipped>>
  BY DEF Read
<1>3. /\ q \in Request /\ q.step = "answered" /\ q.op = req[r].op /\ q.known = req[r].known
      /\ q.thrown = req[r].thrown
  BY <1>1 DEF Request
<1>4. calm => (\A s \in Under : s = r) /\ ~cache.fresh /\ got = stored /\ ~req[r].thrown
  BY <1>1 DEF Inv, Undisturbed, Under, Sees
<1>5. faults = 0 /\ req[r].known => stored # None /\ got # None
  BY <1>1 DEF Inv, Known, Finds
<1> HIDE DEF q, got
<1>6. CASE Initialized(got) /\ WithList(r, q, c)
  <2>1. Stored(got)
    BY <1>1, <1>6 DEF Initialized
  <2>2. Sound(Parsed(got, r)) /\ Filled(Parsed(got, r)) /\ Text(Parsed(got, r)) = got
    BY <2>1, ParsedIs DEF Stored
  <2>3. /\ c \in Cache /\ c.list = Parsed(got, r) /\ ~c.isShipped
    BY <2>2 DEF Cache, Sound
  <2> HIDE DEF c
  <2>4. /\ Listed' /\ Carried'
        /\ \/ req'[r] = Done /\ cache' = c
           \/ \E new : Sound(new) /\ req'[r] = Saves(q, new, FALSE)
        /\ \A s \in Requests \ {r} : Follows(req'[s], req[s])
    BY <1>1, <1>3, <1>6, <2>2, <2>3, WithListKeeps DEF Inv
  <2>5. CASE req'[r] = Done /\ cache' = c
    BY <1>1, <1>4, <2>2, <2>3, <2>4, <2>5, Follow, IdleIs DEF Inv, Fixed, Saving
  <2>6. ASSUME NEW new, Sound(new), req'[r] = Saves(q, new, FALSE)
        PROVE  Known' /\ Undisturbed'
    <3> DEFINE p == Saves(q, new, FALSE)
    <3>1. /\ p.step = "check" /\ p.known = q.known /\ p.thrown = q.thrown /\ p.list = new
          /\ p.text = Text(new) /\ p.restores = FALSE
      BY <1>3, <2>6 DEF Saves, Request
    <3> HIDE DEF p
    <3>2. req'[r] = p
      BY <2>6 DEF p
    <3> QED
      BY <1>1, <1>3, <1>4, <1>5, <2>4, <3>1, <3>2, Follow DEF Inv, Fixed
  <2> QED
    BY <1>1, <2>4, <2>5, <2>6 DEF Inv, Fixed
<1>7. CASE ~Initialized(got) /\ Goes(r, Saves(q, shipped, TRUE)) /\ UNCHANGED <<cache, shipped>>
  <2> PICK restores \in BOOLEAN : restores = TRUE
    OBVIOUS
  <2> DEFINE p == Saves(q, shipped, restores)
  <2>1. Sound(shipped) /\ Filled(shipped)
    BY DEF Inv, Listed
  <2>2. /\ p \in Request /\ Carries(p)
        /\ p.step = "check" /\ p.known = q.known /\ p.thrown = q.thrown /\ p.list = shipped
        /\ p.text = Text(shipped)
    <3>1. restores => q.op.kind # "clear"
      BY <1>1, <1>3
    <3>2. /\ p \in Request /\ Carries(p)
          /\ p.step = "check" /\ p.list = shipped /\ p.text = Text(shipped)
      <4>1. q \in Request
        BY <1>3
      <4>2. p \in Request
        BY <2>1, <3>1, <4>1, SavesIs
      <4>3. Carries(p)
        BY <2>1, <3>1, <4>1, SavesIs
      <4>4. p.step = "check" /\ p.list = shipped /\ p.text = Text(shipped)
        BY <4>1 DEF Saves, Request
      <4> QED
        BY <4>2, <4>3, <4>4
    <3>3. p.known = q.known /\ p.thrown = q.thrown
      BY <1>3 DEF Saves, Request
    <3> QED
      BY <3>2, <3>3
  <2> HIDE DEF p
  <2>3. Goes(r, p)
    BY <1>7 DEF p
  <2>4. /\ Carried' /\ req'[r] = p
        /\ \A s \in Requests \ {r} : Follows(req'[s], req[s])
    BY <1>1, <2>2, <2>3, GoesOn DEF Inv, Follows
  <2>5. Listed'
    BY <1>1, <1>7 DEF Inv, Listed, Sound, Single, Filled, Stored, Cache
  <2>6. ~(faults = 0 /\ req[r].known)
    <3>1. Stored(got) => Initialized(got) \/ got = None
      BY ListIs DEF Stored, Single, Filled, Initialized
    <3> QED
      BY <1>1, <1>5, <1>7, <3>1
  <2>7. Known' /\ Undisturbed'
    BY <1>1, <1>3, <1>4, <1>7, <2>2, <2>4, <2>6, Follow DEF Inv, Fixed
  <2> QED
    BY <1>1, <2>4, <2>5, <2>7 DEF Inv, Fixed
<1> QED
  BY <1>2, <1>6, <1>7

\* An answer to the call of a save: nothing of what the request saves has changed.
LEMMA AnsweredKeeps ==
    ASSUME Inv, NEW r \in Requests, req[r].step \in {"check", "write"},
           NEW step \in {"write", "saved"}, NEW put \in BOOLEAN, NEW thrown \in BOOLEAN,
           UNCHANGED <<calm, inPlace, shipped, cache>>, stored' = None \/ Stored(stored'),
           stored # None => stored' # None, Fault \/ NoFault,
           Goes(r, [req[r] EXCEPT !.step = step, !.put = put, !.thrown = thrown]),
           calm =>
              /\ ~thrown
              /\ step = "write" => put = (stored' # None)
              /\ step = "saved" => stored' = req[r].text
    PROVE  Inv'
<1> DEFINE p == [req[r] EXCEPT !.step = step, !.put = put, !.thrown = thrown]
<1>1. req[r] \in Request /\ Carries(req[r]) /\ req[r].step \in Saving
  BY DEF Inv, Carried, Saving
<1>2. /\ p \in Request /\ p.step = step /\ p.put = put /\ p.thrown = thrown
      /\ p.known = req[r].known /\ p.restores = req[r].restores /\ p.op = req[r].op
      /\ p.list = req[r].list /\ p.text = req[r].text
  BY <1>1 DEF Request
<1>3. Goes(r, p)
  OBVIOUS
<1> HIDE DEF p
<1>4. Carries(p)
  BY <1>1, <1>2 DEF Carries, Saving
<1>5. /\ Carried' /\ req'[r] = p
      /\ \A s \in Requests \ {r} : Follows(req'[s], req[s])
  BY <1>2, <1>3, <1>4, GoesOn DEF Inv, Follows
<1>6. Listed'
  BY DEF Inv, Listed, Sound, Single, Filled, Stored, Cache
<1>7. Fixed' /\ (faults' = 0 => faults = 0)
  BY FaultIs DEF Inv
<1>8. faults = 0 /\ req[r].known => stored # None /\ ~req[r].restores
  BY <1>1 DEF Inv, Known, Finds, Saving
<1>9. calm => /\ \A s \in Under : s = r
              /\ req[r].text = Text(req[r].list)
              /\ req[r].restores => req[r].list = shipped
  BY <1>1 DEF Inv, Undisturbed, Under, Sees, Saving
<1>10. Known' /\ Undisturbed'
  <2>1. faults' = 0 /\ req'[r].known => stored' # None /\ ~req'[r].restores
    BY <1>2, <1>5, <1>7, <1>8
  <2>2. req'[r].step \in {"write", "saved"}
    BY <1>2, <1>5
  <2>3. calm =>
           /\ ~req'[r].thrown /\ req'[r].text = Text(req'[r].list)
           /\ req'[r].restores => req'[r].list = shipped'
           /\ req'[r].step = "write" => req'[r].put = (stored' # None)
           /\ req'[r].step = "saved" => req'[r].text = stored'
    BY <1>2, <1>5, <1>9
  <2> QED
    BY <1>5, <1>7, <1>9, <2>1, <2>2, <2>3, Follow DEF Saving
<1> QED
  BY <1>5, <1>6, <1>7, <1>10 DEF Inv

LEMMA ServeCheckSafe ==
    ASSUME Inv, NEW r \in Requests, ServeCheck(r)
    PROVE  Inv'
<1>1. /\ UNCHANGED <<calm, inPlace, stored, shipped, cache>> /\ req[r].step = "check"
      /\ stored = None \/ Stored(stored)
  BY DEF ServeCheck, Inv, Listed
<1>2. PICK put \in BOOLEAN, thrown \in BOOLEAN :
         /\ Goes(r, [req[r] EXCEPT !.step = IF thrown THEN "saved" ELSE "write",
                                   !.put = put, !.thrown = thrown])
         /\ (put = (stored # None) /\ ~thrown /\ NoFault) \/ Fault
  <2>1. /\ (stored # None) \in BOOLEAN /\ FALSE \in BOOLEAN
    OBVIOUS
  <2> QED
    BY <2>1 DEF ServeCheck
<1>3. calm => ~Fault
  BY DEF Fault
<1>4. PICK step \in {"write", "saved"} : step = IF thrown THEN "saved" ELSE "write"
  OBVIOUS
<1>5. Goes(r, [req[r] EXCEPT !.step = step, !.put = put, !.thrown = thrown])
  BY <1>2, <1>4
<1>6. calm => /\ ~thrown /\ step = "write" /\ put = (stored' # None)
  BY <1>1, <1>2, <1>3, <1>4
<1>7. Fault \/ NoFault
  BY <1>2
<1>8. stored' = None \/ Stored(stored')
  BY <1>1
<1> QED
  BY <1>1, <1>5, <1>6, <1>7, <1>8, AnsweredKeeps

LEMMA ServeWriteSafe ==
    ASSUME Inv, NEW r \in Requests, ServeWrite(r)
    PROVE  Inv'
<1>1. /\ UNCHANGED <<calm, inPlace, shipped, cache>> /\ req[r].step = "write"
      /\ req[r] \in Request /\ Carries(req[r])
      /\ stored = None \/ Stored(stored)
  BY DEF ServeWrite, Inv, Carried, Listed
<1>2. Stored(req[r].text) /\ req[r].text # None
  BY <1>1, NoneAssumption DEF Carries, Saving, Stored, Item
<1>3. req[r].put \in BOOLEAN /\ req[r].thrown \in BOOLEAN
  BY <1>1 DEF Request
<1> DEFINE answered(put, thrown) ==
        [req[r] EXCEPT !.step = "saved", !.put = put, !.thrown = thrown]
<1>4. /\ [req[r] EXCEPT !.step = "saved"] = answered(req[r].put, req[r].thrown)
      /\ \A thrown : [req[r] EXCEPT !.step = "saved", !.thrown = thrown] = answered(req[r].put, thrown)
  BY <1>1 DEF Request
<1>5. \A thrown \in BOOLEAN : stored' \in {stored, Applied(req[r])} =>
         /\ stored' = None \/ Stored(stored')
         /\ stored # None => stored' # None
  BY <1>1, <1>2 DEF Applied, Stored, Single, Filled
<1>6. calm => /\ ~req[r].thrown /\ Applied(req[r]) = req[r].text
              /\ ~Fault
  BY <1>1 DEF Inv, Undisturbed, Sees, Saving, Applied, Fault
<1>7. CASE /\ stored' = Applied(req[r]) /\ NoFault
           /\ Goes(r, [req[r] EXCEPT !.step = "saved"])
  <2>1. Goes(r, answered(req[r].put, req[r].thrown))
    BY <1>4, <1>7
  <2>2. /\ stored' = None \/ Stored(stored')
        /\ stored # None => stored' # None
    BY <1>5, <1>7
  <2>3. calm => ~req[r].thrown /\ stored' = req[r].text
    BY <1>6, <1>7
  <2> QED
    BY <1>1, <1>3, <1>7, <2>1, <2>2, <2>3, AnsweredKeeps
<1>8. ASSUME stored' \in {stored, Applied(req[r])}, Fault, NEW thrown \in BOOLEAN,
             Goes(r, [req[r] EXCEPT !.step = "saved", !.thrown = thrown])
      PROVE  Inv'
  <2>1. Goes(r, answered(req[r].put, thrown))
    BY <1>4, <1>8
  <2>2. /\ stored' = None \/ Stored(stored')
        /\ stored # None => stored' # None
    BY <1>5, <1>8
  <2> QED
    BY <1>1, <1>3, <1>6, <1>8, <2>1, <2>2, AnsweredKeeps
<1> QED
  BY <1>7, <1>8 DEF ServeWrite

LEMMA RestoredSafe ==
    ASSUME Inv, NEW r \in Requests, Restored(r)
    PROVE  Inv'
<1> DEFINE q == [req[r] EXCEPT !.thrown = FALSE]
           c == [list |-> shipped, fresh |-> req[r].thrown => cache.fresh, isShipped |-> TRUE]
<1>1. /\ UNCHANGED <<calm, inPlace, stored, faults>> /\ req[r].step = "saved" /\ req[r].restores
      /\ req[r] \in Request /\ Carries(req[r]) /\ req[r].op.kind # "clear"
      /\ Sound(shipped) /\ Filled(shipped)
  BY DEF Restored, Inv, Listed, Carried, Carries, Saving
<1>2. WithList(r, q, c)
  BY DEF Restored
<1>3. /\ q \in Request /\ q.op = req[r].op /\ q.known = req[r].known /\ q.thrown = FALSE
      /\ q.step = "saved"
  BY <1>1 DEF Request
<1>4. /\ c \in Cache /\ c.list = shipped /\ c.isShipped
  <2>1. (req[r].thrown => cache.fresh) \in BOOLEAN /\ shipped \in Seq(Entries)
    BY <1>1 DEF Sound
  <2> QED
    BY <2>1 DEF Cache
<1>5. calm => (\A s \in Under : s = r) /\ stored = Text(shipped)
  BY <1>1 DEF Inv, Undisturbed, Under, Sees, Saving
<1>6. ~(faults = 0 /\ req[r].known)
  BY <1>1 DEF Inv, Known, Finds, Saving
<1> HIDE DEF q, c
<1>7. /\ Listed' /\ Carried'
      /\ \/ req'[r] = Done /\ cache' = c
         \/ \E new : Sound(new) /\ req'[r] = Saves(q, new, FALSE)
      /\ \A s \in Requests \ {r} : Follows(req'[s], req[s])
  BY <1>1, <1>2, <1>3, <1>4, WithListKeeps DEF Inv
<1>8. CASE req'[r] = Done /\ cache' = c
  <2>1. req'[r].step = "done" /\ cache'.list = shipped
    BY <1>4, <1>8, IdleIs
  <2>2. calm => Text(cache'.list) = stored'
    BY <1>1, <1>5, <2>1
  <2>3. Carried' /\ \A s \in Requests \ {r} : Follows(req'[s], req[s])
    BY <1>7
  <2>4. /\ UNCHANGED <<calm, inPlace>> /\ (faults' = 0 => faults = 0)
        /\ stored # None => stored' # None
        /\ calm => \A s \in Under : s = r
    BY <1>1, <1>5
  <2>5. Known' /\ Undisturbed'
    BY <2>1, <2>2, <2>3, <2>4, Follow DEF Saving
  <2> QED
    BY <1>1, <1>7, <2>5 DEF Inv, Fixed
<1>9. ASSUME NEW new, Sound(new), req'[r] = Saves(q, new, FALSE)
      PROVE  Known' /\ Undisturbed'
  <2> DEFINE p == Saves(q, new, FALSE)
  <2>1. /\ p.step = "check" /\ p.known = q.known /\ p.thrown = q.thrown /\ p.list = new
        /\ p.text = Text(new) /\ p.restores = FALSE
    BY <1>3, <1>9 DEF Saves, Request
  <2> HIDE DEF p
  <2>2. req'[r] = p
    BY <1>9 DEF p
  <2> QED
    BY <1>1, <1>3, <1>5, <1>6, <1>7, <2>1, <2>2, Follow
<1> QED
  BY <1>1, <1>7, <1>8, <1>9 DEF Inv, Fixed

LEMMA SavedSafe ==
    ASSUME Inv, NEW r \in Requests, Saved(r)
    PROVE  Inv'
<1> DEFINE c == [list |-> req[r].list, fresh |-> TRUE, isShipped |-> FALSE]
<1>1. /\ UNCHANGED <<calm, inPlace, stored, shipped, faults>> /\ req[r].step = "saved"
      /\ Goes(r, Done) /\ cache' = (IF req[r].thrown THEN cache ELSE c)
      /\ req[r] \in Request /\ Carries(req[r])
      /\ Sound(req[r].list) /\ Filled(req[r].list)
  BY DEF Saved, Inv, Carried, Carries, Saving
<1>2. /\ Carried' /\ req'[r] = Done
      /\ \A s \in Requests \ {r} : Follows(req'[s], req[s])
  BY <1>1, IdleIs, GoesOn DEF Inv, Follows
<1>3. c \in Cache /\ c.list = req[r].list /\ ~c.isShipped
  BY <1>1 DEF Cache, Sound
<1> HIDE DEF c
<1>4. Listed'
  <2>1. /\ cache' \in Cache /\ Sound(cache'.list) /\ (cache'.fresh => Filled(cache'.list))
        /\ cache'.isShipped => cache'.list = shipped
    BY <1>1, <1>3 DEF Inv, Listed
  <2> QED
    BY <1>1, <2>1 DEF Inv, Listed, Sound, Single, Filled, Stored, Cache
<1>5. calm => /\ \A s \in Under : s = r
              /\ ~req[r].thrown /\ Text(req[r].list) = stored
  BY <1>1 DEF Inv, Undisturbed, Under, Sees, Saving
<1>6. Known' /\ Undisturbed'
  BY <1>1, <1>2, <1>3, <1>5, Follow, IdleIs DEF Saving
<1> QED
  BY <1>1, <1>2, <1>4, <1>6 DEF Inv, Fixed

LEMMA ShippedTextIs ==
    /\ ShippedText \in Seq(Item) /\ ShippedText # <<>> /\ Distinct(ShippedText)
    /\ \A k \in 1..Len(ShippedText) : ShippedText[k].isDefault <=> k = 1
<1>1. /\ Shipped \in Seq(Ids) /\ Shipped # <<>>
      /\ \A i, k \in 1..Len(Shipped) : Shipped[i] = Shipped[k] => i = k
  BY ListAssumption DEF IsInjective
<1>2. Len(Shipped) \in Nat /\ DOMAIN Shipped = 1..Len(Shipped) /\ Len(Shipped) # 0
  BY <1>1, ListIs
<1> DEFINE t == ShippedText
           item(k) == [id |-> Shipped[k], isDefault |-> k = 1]
<1>3. t = [k \in 1..Len(Shipped) |-> item(k)]
  BY <1>2 DEF ShippedText
<1>4. ASSUME NEW k \in 1..Len(Shipped)
      PROVE  item(k) \in Item /\ item(k).id = Shipped[k] /\ (item(k).isDefault <=> k = 1)
  <2>1. PICK first \in BOOLEAN : first = (k = 1)
    OBVIOUS
  <2>2. item(k) = [id |-> Shipped[k], isDefault |-> first] /\ Shipped[k] \in Ids
    BY <1>1, <2>1
  <2>3. item(k) \in Item /\ item(k).id = Shipped[k] /\ item(k).isDefault = first
    BY <2>2 DEF Item
  <2> QED
    BY <2>1, <2>3
<1> HIDE DEF t, item
<1>5. /\ t \in Seq(Item) /\ Len(t) = Len(Shipped)
      /\ \A k \in 1..Len(t) : t[k].id = Shipped[k] /\ (t[k].isDefault <=> k = 1)
  BY <1>2, <1>3, <1>4
<1>6. t # <<>>
  BY <1>2, <1>5, ListIs
<1>7. Distinct(t)
  BY <1>1, <1>5 DEF Distinct
<1> QED
  BY <1>5, <1>6, <1>7 DEF t

LEMMA ShippedIs ==
    ASSUME inPlace \in BOOLEAN
    PROVE  /\ Sound(ShippedList(inPlace)) /\ Filled(ShippedList(inPlace))
           /\ inPlace => ShippedList(inPlace) = <<>>
           /\ ~inPlace => /\ ShippedList(inPlace) = Made(ShippedText, <<"shipped">>)
                          /\ Text(ShippedList(inPlace)) = ShippedText
<1>1. Sound(<<>>)
  BY DEF Sound, Single, Distinct
<1> DEFINE maker == <<"shipped">>
           made == Made(ShippedText, maker)
<1>2. maker \in Maker
  BY DEF Maker
<1>3. ShippedList(inPlace) = IF inPlace THEN <<>> ELSE made
  BY DEF ShippedList
<1> HIDE DEF maker
<1>4. Sound(made) /\ Len(made) = Len(ShippedText) /\ Text(made) = ShippedText
  BY <1>2, ShippedTextIs, MadeIs DEF Single
<1> HIDE DEF made
<1>5. made # <<>>
  BY <1>4, ShippedTextIs, ListIs DEF Sound
<1> QED
  BY <1>1, <1>3, <1>4, <1>5 DEF Filled, made, maker

LEMMA RestartSafe ==
    ASSUME Inv, Restart
    PROVE  Inv'
<1>1. /\ Fault /\ shipped' = ShippedList(inPlace) /\ cache' = NoCache
      /\ req' = [r \in Requests |-> IF r \in Under THEN Done ELSE req[r]]
      /\ UNCHANGED <<calm, inPlace, stored>>
  BY DEF Restart
<1>2. Fixed' /\ ~calm /\ faults' # 0
  BY <1>1, FaultIs DEF Inv
<1>3. Carried'
  BY <1>1, CarriedAgain, IdleIs DEF Inv, Carried
<1>4. /\ NoCache \in Cache /\ Sound(NoCache.list) /\ ~NoCache.fresh /\ ~NoCache.isShipped
  BY DEF NoCache, Cache, Sound, Single, Distinct
<1>5. Sound(shipped') /\ Filled(shipped')
  BY <1>1, ShippedIs DEF Inv, Fixed, Filled
<1>6. Listed'
  BY <1>1, <1>4, <1>5 DEF Inv, Listed, Sound, Single, Filled, Stored, Cache
<1> QED
  BY <1>1, <1>2, <1>3, <1>6 DEF Inv, Known, Finds, Undisturbed

\* What is stored when the behaviour begins.
LEMMA FirstStored ==
    ASSUME Init, stored # None
    PROVE  /\ Stored(stored)
           /\ stored = <<>> \/ HasDefault(stored)
           /\ inPlace \/ \A i, k \in DOMAIN stored :
                             stored[i].isDefault /\ stored[k].isDefault => i = k
<1>1. CASE inPlace /\ stored = <<>>
  BY <1>1 DEF Stored, Single, Filled
<1>2. CASE inPlace /\ stored # <<>>
  <2>1. PICK list \in Imports : stored = Named(list) /\ HasDefault(Named(list))
    BY <1>2 DEF Init
  <2> QED
    BY <1>2, <2>1, NamedIs DEF Stored, Single, Filled
<1>3. CASE ~inPlace
  <2>1. PICK list \in Imports : /\ NoneTwice(Named(list))
                                /\ \E id \in IdsOf(Named(list)) : stored = OnlyDefault(Named(list), id)
    BY <1>3 DEF Init
  <2>2. PICK id \in IdsOf(Named(list)) : stored = OnlyDefault(Named(list), id)
    BY <2>1
  <2> DEFINE named == Named(list)
  <2>3. named \in Seq(Item) /\ id \in IdsOf(named) /\ NoneTwice(named)
    BY <2>1, NamedIs
  <2> HIDE DEF named
  <2>4. DOMAIN named = 1..Len(named)
    BY <2>3
  <2>5. Distinct(named)
    BY <2>3, <2>4 DEF Distinct, NoneTwice
  <2>6. /\ stored \in Seq(Item) /\ Single(stored) /\ Len(stored) = Len(named)
        /\ \A k \in 1..Len(named) :
              stored[k].id = named[k].id /\ (stored[k].isDefault <=> named[k].id = id)
    BY <2>2, <2>3, <2>5, OnlyIs DEF Single, named
  <2>7. PICK j \in 1..Len(named) : named[j].id = id
    BY <2>3, <2>4 DEF IdsOf
  <2>8. DOMAIN stored = 1..Len(named)
    BY <2>6
  <2>9. HasDefault(stored) /\ stored # <<>>
    BY <2>6, <2>7, <2>8 DEF HasDefault
  <2> QED
    BY <2>5, <2>6, <2>8, <2>9 DEF Stored, Filled, Distinct
<1> QED
  BY <1>1, <1>2, <1>3 DEF Init

LEMMA Starts == Init => Inv
<1> SUFFICES ASSUME Init
             PROVE  Inv
  OBVIOUS
<1>1. /\ calm \in BOOLEAN /\ inPlace \in BOOLEAN /\ faults = 0
      /\ shipped = ShippedList(inPlace) /\ cache = NoCache
      /\ req = [r \in Requests |-> Idle]
  BY DEF Init
<1>2. Fixed
  BY <1>1, BoundAssumption DEF Fixed
<1>3. stored = None \/ Stored(stored)
  BY FirstStored
<1>4. /\ NoCache \in Cache /\ Sound(NoCache.list) /\ ~NoCache.fresh /\ ~NoCache.isShipped
  BY DEF NoCache, Cache, Sound, Single, Distinct
<1>5. Listed
  BY <1>1, <1>3, <1>4, ShippedIs DEF Listed
<1>6. Carried
  BY <1>1, IdleIs DEF Carried
<1>7. Known /\ Undisturbed
  BY <1>1, <1>4, IdleIs DEF Known, Finds, Undisturbed, Under, Sees, Saving
<1> QED
  BY <1>2, <1>5, <1>6, <1>7 DEF Inv

LEMMA Steps == Inv /\ [Next]_vars => Inv'
<1> SUFFICES ASSUME Inv, [Next]_vars
             PROVE  Inv'
  OBVIOUS
<1>1. ASSUME NEW r \in Requests, NEW op \in Asked, Begin(r, op)
      PROVE  Inv'
  BY <1>1, BeginSafe
<1>2. ASSUME NEW r \in Requests,
             \/ ServeRead(r) \/ Read(r) \/ ServeCheck(r) \/ ServeWrite(r)
             \/ Restored(r) \/ Saved(r)
      PROVE  Inv'
  BY <1>2, ServeReadSafe, ReadSafe, ServeCheckSafe, ServeWriteSafe, RestoredSafe, SavedSafe
<1>3. CASE Restart
  BY <1>3, RestartSafe
<1>4. CASE UNCHANGED vars
  BY <1>4 DEF vars, Inv, Fixed, Listed, Sound, Single, Filled, Stored, Cache, Carried, Carries, Request,
     Asked, Known, Finds, Undisturbed, Under, Sees
<1> QED
  BY <1>1, <1>2, <1>3, <1>4 DEF Next, Asked

LEMMA Always == Spec => []Inv
BY Starts, Steps, PTL DEF Spec

-------------------------------------------------------------------------------
(* Theorems. *)

\* Nothing leaves its type: what a request has to write tells the ids of its list, and
\* the cache that is the shipped list says what that list says, although the edits of
\* versions (version-registry.ts) and the marks of either list change shared entries.
THEOREM TypeCorrect == Spec => []TypeOK
<1>1. Inv => TypeOK
  <2> SUFFICES ASSUME Inv
               PROVE  TypeOK
    OBVIOUS
  <2>1. stored = None \/ stored \in Seq([id : Ids, isDefault : BOOLEAN])
    BY DEF Inv, Listed, Stored, Item
  <2>2. ASSUME NEW r \in Requests
        PROVE  /\ req[r].step \in {"idle", "read", "answered", "check", "write", "saved", "done"}
               /\ req[r].step \in {"check", "write", "saved"} =>
                     IdsOf(req[r].list) = IdsOf(req[r].text)
               /\ req[r].step \in {"idle", "done"} => req[r].list = <<>>
    <3>1. req[r] \in Request /\ Carries(req[r])
      BY DEF Inv, Carried
    <3>2. ASSUME req[r].step \in {"check", "write", "saved"}
          PROVE  IdsOf(req[r].list) = IdsOf(req[r].text)
      <4>1. /\ req[r].list \in Seq(Entries) /\ req[r].text \in Seq(Item)
            /\ SameIds(req[r].list, req[r].text)
        BY <3>1, <3>2 DEF Carries, Saving, Stored, Sound
      <4> DEFINE list == req[r].list
                 text == req[r].text
      <4> HIDE DEF list, text
      <4>2. /\ DOMAIN list = 1..Len(list) /\ DOMAIN text = 1..Len(list)
            /\ \A k \in 1..Len(list) : list[k].id = text[k].id
        BY <4>1 DEF SameIds, list, text
      <4>3. IdsOf(list) = IdsOf(text)
        BY <4>2 DEF IdsOf
      <4> QED
        BY <4>3 DEF list, text
    <3> QED
      BY <3>1, <3>2 DEF Request, Carries, Saving
  <2> QED
    BY <2>1, <2>2 DEF TypeOK, Inv, Fixed, Listed
<1> QED
  BY <1>1, Always, PTL

\* The last tier is never removed (sizing-tiers.ts:171), and no tier is stored twice,
\* whatever overlaps, fails or restarts between the check of the cached list and the
\* write.
THEOREM LastTierStays == Spec => []NeverEmptied
<1>1. Inv => NeverEmptied
  <2> SUFFICES ASSUME Inv, stored # None, ~inPlace
               PROVE  stored # <<>> /\ NoneTwice(stored)
    BY DEF NeverEmptied
  <2>1. stored \in Seq(Item) /\ Distinct(stored) /\ Filled(stored)
    BY DEF Inv, Listed, Stored, Single
  <2>2. DOMAIN stored = 1..Len(stored)
    BY <2>1
  <2> QED
    BY <2>1, <2>2 DEF NoneTwice, Distinct, Filled
<1> QED
  BY <1>1, Always, PTL

\* Between requests that neither overlap nor fail, the cached list says what is stored.
THEOREM CacheAlwaysAgrees == Spec => []CacheAgrees
<1>1. Inv => CacheAgrees
  BY DEF Inv, Undisturbed, CacheAgrees
<1> QED
  BY <1>1, Always, PTL

\* The shipped list is written only "if uninitialized" (sizing-tiers.ts:19): unless a
\* call has failed, a request that began with a list writes no shipped list over it.
THEOREM NeverReinitialized == Spec => InitializedOnce
<1>1. Inv => ~\E r \in Requests :
                  req[r].step = "write" /\ req[r].restores /\ req[r].known /\ faults = 0
  BY DEF Inv, Known, Finds, Saving
<1>2. Inv => \A r \in Requests :
                 req[r].step = "write" /\ req[r].restores /\ req[r].known /\ faults = 0 =>
                     stored' = stored \/ req'[r] = req[r]
  BY <1>1
<1> QED
  BY <1>2, Always, PTL DEF InitializedOnce

-------------------------------------------------------------------------------
(* What the promise allows, about the texts of lists. *)

Plain(id, isDefault) == [id |-> id, isDefault |-> isDefault]
Promoted(text) == [k \in DOMAIN text |-> Plain(text[k].id, text[k].isDefault \/ k = 1)]
Led(text) == IF HasDefault(text) THEN text ELSE Promoted(text)
Unset(text) == [k \in DOMAIN text |-> Plain(text[k].id, FALSE)]
WasDefault(list, id) == \E k \in DOMAIN list : IsFirst(list, k, id) /\ list[k].isDefault
Left(text, id) ==
    IF WasDefault(text, id) THEN Promoted(WithoutFirst(text, id)) ELSE WithoutFirst(text, id)

Promises(i, j) ==
    \/ \E id \in Ids :
          \/ j = Led(Placed(i, Plain(id, FALSE)))
          \/ j = Placed(Unset(i), Plain(id, TRUE))
          \/ id \in IdsOf(i) /\ j = OnlyDefault(i, id)
          \/ id \in IdsOf(i) /\ j = Left(i, id)
    \/ inPlace /\ \E list \in Imports : j = Led(Named(list))
    \/ inPlace /\ j = <<>>
Leads(i, j) == i = j \/ Promises(i, j)

\* A default as long as there is an entry; one default of tiers.
Once(text) ==
    \A i, k \in 1..Len(text) : text[i].isDefault /\ text[k].isDefault => i = k
Good(text) == (text = <<>> \/ HasDefault(text)) /\ (inPlace \/ Once(text))

\* No object comes twice in a list.
Apart(list) ==
    \A i, k \in 1..Len(list) :
        list[i].maker = list[k].maker /\ list[i].at = list[k].at => i = k
Unmade(r, list) == \A k \in 1..Len(list) : list[k].maker # <<r, "new">>

\* text says what list says.
Says(text, list) ==
    /\ Len(text) = Len(list)
    /\ \A k \in 1..Len(list) :
          text[k].id = list[k].id /\ (text[k].isDefault <=> list[k].isDefault)

LEMMA SaysSame ==
    ASSUME NEW a \in Seq(Item), NEW b \in Seq(Item), Says(a, b)
    PROVE  a = b
<1>1. /\ Len(a) = Len(b) /\ Len(a) \in Nat
      /\ \A k \in 1..Len(a) : a[k] \in Item /\ b[k] \in Item
  BY ListIs DEF Says
<1>2. ASSUME NEW k \in 1..Len(a)
      PROVE  a[k] = b[k]
  <2>1. a[k] \in Item /\ b[k] \in Item /\ a[k].id = b[k].id /\ (a[k].isDefault <=> b[k].isDefault)
    BY <1>1 DEF Says
  <2>2. PICK x : x = a[k]
    OBVIOUS
  <2>3. PICK y : y = b[k]
    OBVIOUS
  <2>4. x \in Item /\ y \in Item /\ x.id = y.id /\ x.isDefault = y.isDefault
    BY <2>1, <2>2, <2>3 DEF Item
  <2>5. x = y
    BY <2>4 DEF Item
  <2> QED
    BY <2>2, <2>3, <2>5
<1> QED
  BY <1>1, <1>2

LEMMA TextSays ==
    ASSUME NEW list, Sound(list)
    PROVE  Text(list) \in Seq(Item) /\ Says(Text(list), list) /\ Says(list, Text(list))
<1> DEFINE t == Text(list)
<1>1. /\ t \in Seq(Item) /\ Len(t) = Len(list)
      /\ \A k \in 1..Len(list) : t[k] = [id |-> list[k].id, isDefault |-> list[k].isDefault]
  BY TextIs
<1> HIDE DEF t
<1>2. ASSUME NEW k \in 1..Len(list)
      PROVE  t[k].id = list[k].id /\ (t[k].isDefault <=> list[k].isDefault)
  <2>1. list[k] \in Entries
    BY ListIs DEF Sound
  <2>2. PICK d \in BOOLEAN : d = list[k].isDefault
    BY <2>1 DEF Entries
  <2>3. t[k] = [id |-> list[k].id, isDefault |-> d]
    BY <1>1, <2>2
  <2> QED
    BY <2>2, <2>3
<1>3. Says(t, list)
  BY <1>1, <1>2 DEF Says
<1>4. Says(list, t)
  BY <1>1, <1>2 DEF Says
<1> QED
  BY <1>1, <1>3, <1>4 DEF t

\* Of lists that say the same, the same is said.
Alike(a, b) ==
    /\ IdsOf(a) = IdsOf(b) /\ (HasDefault(a) <=> HasDefault(b)) /\ (a = <<>> <=> b = <<>>)
    /\ \A k \in 1..Len(a) : \A id : IsFirst(a, k, id) <=> IsFirst(b, k, id)
    /\ \A id : WasDefault(a, id) <=> WasDefault(b, id)

LEMMA SaysAlike ==
    ASSUME NEW S, NEW T, NEW a \in Seq(S), NEW b \in Seq(T), Says(a, b)
    PROVE  Alike(a, b)
<1> DEFINE n == Len(a)
<1>1. /\ n \in Nat /\ DOMAIN a = 1..n /\ DOMAIN b = 1..n
      /\ a = <<>> <=> n = 0
      /\ b = <<>> <=> n = 0
      /\ \A k \in 1..n : a[k].id = b[k].id /\ (a[k].isDefault <=> b[k].isDefault)
  BY ListIs DEF Says
<1> HIDE DEF n
<1>2. IdsOf(a) = IdsOf(b)
  BY <1>1 DEF IdsOf
<1>3. HasDefault(a) <=> HasDefault(b)
  BY <1>1 DEF HasDefault
<1>4. ASSUME NEW k \in 1..n, NEW id
      PROVE  IsFirst(a, k, id) <=> IsFirst(b, k, id)
  <2>1. \A i \in 1..(k - 1) : i \in 1..n
    BY <1>1
  <2> QED
    BY <1>1, <2>1 DEF IsFirst
<1>5. ASSUME NEW id
      PROVE  WasDefault(a, id) <=> WasDefault(b, id)
  BY <1>1, <1>4 DEF WasDefault
<1> QED
  BY <1>1, <1>2, <1>3, <1>4, <1>5 DEF Alike, n

-------------------------------------------------------------------------------
(* What the promise allows keeps a default. *)

LEMMA PlainIs ==
    ASSUME NEW id \in Ids, NEW d \in BOOLEAN
    PROVE  Plain(id, d) \in Item /\ Plain(id, d).id = id /\ Plain(id, d).isDefault = d
BY DEF Plain, Item

\* The default of a text is where it was, or first.
Leading(p, text) ==
    /\ Len(p) = Len(text)
    /\ \A k \in 1..Len(text) :
          p[k].id = text[k].id /\ (p[k].isDefault <=> text[k].isDefault \/ k = 1)
LEMMA PromotedIs ==
    ASSUME NEW text \in Seq(Item)
    PROVE  Promoted(text) \in Seq(Item) /\ Leading(Promoted(text), text)
<1> DEFINE p == Promoted(text)
           item(k) == Plain(text[k].id, text[k].isDefault \/ k = 1)
<1>1. Len(text) \in Nat /\ DOMAIN text = 1..Len(text) /\ \A k \in 1..Len(text) : text[k] \in Item
  BY ListIs
<1>2. p = [k \in 1..Len(text) |-> item(k)]
  BY <1>1 DEF Promoted
<1>3. ASSUME NEW k \in 1..Len(text)
      PROVE  /\ item(k) \in Item /\ item(k).id = text[k].id
             /\ item(k).isDefault <=> text[k].isDefault \/ k = 1
  <2>1. PICK d \in BOOLEAN : d = (text[k].isDefault \/ k = 1)
    BY Zenon
  <2>2. text[k].id \in Ids
    BY <1>1 DEF Item
  <2>3. item(k) = Plain(text[k].id, d)
    BY <2>1
  <2> HIDE DEF item
  <2>4. item(k) \in Item /\ item(k).id = text[k].id /\ item(k).isDefault = d
    BY <2>2, <2>3, PlainIs
  <2> QED
    BY <2>1, <2>4, Zenon
<1> HIDE DEF p, item
<1>4. p \in Seq(Item) /\ Len(p) = Len(text)
  BY <1>1, <1>2, <1>3
<1>5. ASSUME NEW k \in 1..Len(text)
      PROVE  p[k].id = text[k].id /\ (p[k].isDefault <=> text[k].isDefault \/ k = 1)
  <2>1. p[k] = item(k)
    BY <1>2
  <2> QED
    BY <1>3, <2>1
<1>6. Leading(p, text)
  BY <1>4, <1>5 DEF Leading
<1> QED
  BY <1>4, <1>6 DEF p

Undone(u, text) ==
    /\ Len(u) = Len(text)
    /\ \A k \in 1..Len(text) : u[k].id = text[k].id /\ ~u[k].isDefault
LEMMA UnsetIs ==
    ASSUME NEW text \in Seq(Item)
    PROVE  Unset(text) \in Seq(Item) /\ Undone(Unset(text), text)
<1> DEFINE u == Unset(text)
           item(k) == Plain(text[k].id, FALSE)
<1>1. Len(text) \in Nat /\ DOMAIN text = 1..Len(text) /\ \A k \in 1..Len(text) : text[k] \in Item
  BY ListIs
<1>2. u = [k \in 1..Len(text) |-> item(k)]
  BY <1>1 DEF Unset
<1>3. ASSUME NEW k \in 1..Len(text)
      PROVE  item(k) \in Item /\ item(k).id = text[k].id /\ ~item(k).isDefault
  BY <1>1 DEF Item, Plain
<1> HIDE DEF u, item
<1>4. u \in Seq(Item) /\ Len(u) = Len(text)
  BY <1>1, <1>2, <1>3
<1>5. \A k \in 1..Len(text) : u[k].id = text[k].id /\ ~u[k].isDefault
  BY <1>2, <1>3
<1> QED
  BY <1>4, <1>5 DEF u, Undone

LEMMA LedGood ==
    ASSUME NEW text \in Seq(Item), inPlace \/ Once(text)
    PROVE  Good(Led(text))
<1>1. CASE HasDefault(text)
  BY <1>1 DEF Led, Good
<1>2. CASE ~HasDefault(text)
  <2> DEFINE p == Promoted(text)
  <2>1. Led(text) = p
    BY <1>2 DEF Led
  <2>2. p \in Seq(Item) /\ Leading(p, text)
    BY PromotedIs
  <2> HIDE DEF p
  <2>3. \A k \in 1..Len(text) : ~text[k].isDefault
    BY <1>2, ListIs DEF HasDefault
  <2>4. Len(p) = Len(text) /\ \A k \in 1..Len(p) : p[k].isDefault <=> k = 1
    BY <2>2, <2>3 DEF Leading
  <2>5. Once(p)
    BY <2>4 DEF Once
  <2>6. p # <<>> => HasDefault(p)
    BY <2>2, <2>4, ListIs DEF HasDefault
  <2> QED
    BY <2>1, <2>5, <2>6 DEF Good
<1> QED
  BY <1>1, <1>2

LEMMA FirstThere ==
    ASSUME NEW T, NEW list \in Seq(T), NEW id \in IdsOf(list)
    PROVE  \E k \in 1..Len(list) : IsFirst(list, k, id)
<1> DEFINE n == Len(list)
           Has == {k \in 1..n : list[k].id = id}
<1>1. n \in Nat /\ DOMAIN list = 1..n
  BY ListIs
<1>2. Has # {}
  BY <1>1 DEF IdsOf
<1> HIDE DEF n
<1>3. Has \in SUBSET Nat
  BY <1>1
<1>4. PICK k \in Has : \A i \in Has : k <= i
  <2> HIDE DEF Has
  <2> QED
    BY <1>2, <1>3, Least
<1>5. ASSUME NEW i \in 1..(k - 1)
      PROVE  list[i].id # id
  <2>1. i \in 1..n /\ ~(k <= i)
    BY <1>1
  <2> QED
    BY <1>4, <2>1
<1>6. IsFirst(list, k, id)
  BY <1>5 DEF IsFirst
<1> QED
  BY <1>6 DEF n

LEMMA PlacedHas ==
    ASSUME NEW T, NEW base \in Seq(T), NEW e \in T
    PROVE  \E k \in 1..Len(Placed(base, e)) : Placed(base, e)[k] = e
<1>1. CASE e.id \in IdsOf(base)
  <2>1. PICK k \in 1..Len(base) : IsFirst(base, k, e.id)
    BY <1>1, FirstThere
  <2>2. Replaced(Placed(base, e), base, e)
    BY <1>1, PlacedIs
  <2> QED
    BY <2>1, <2>2 DEF Replaced
<1>2. CASE e.id \notin IdsOf(base)
  <2>1. Appended(Placed(base, e), base, e)
    BY <1>2, PlacedIs
  <2> DEFINE p == Placed(base, e)
             n == Len(base)
             m == Len(p)
  <2>2. n \in Nat /\ m = n + 1 /\ p[n + 1] = e
    BY <2>1, ListIs DEF Appended
  <2> HIDE DEF p, n, m
  <2>3. n + 1 \in 1..m
    BY <2>2
  <2>4. \E k \in 1..m : p[k] = e
    BY <2>2, <2>3
  <2> QED
    BY <2>4 DEF p, m
<1> QED
  BY <1>1, <1>2

\* What is left is all but the first of the id.
LEMMA FromAll ==
    ASSUME NEW T, NEW list \in Seq(T), NEW id \in IdsOf(list)
    PROVE  /\ \A k \in 1..(Len(list) - 1) : ~IsFirst(list, From(list, id, k), id)
           /\ \A j \in 1..Len(list) :
                 ~IsFirst(list, j, id) => \E k \in 1..(Len(list) - 1) : From(list, id, k) = j
<1> DEFINE n == Len(list)
           has(k) == \E i \in 1..k : list[i].id = id
<1>1. n \in Nat /\ \E m \in 1..n : list[m].id = id
  BY ListIs DEF IdsOf
<1> HIDE DEF n
<1>2. ASSUME NEW k \in 1..(n - 1)
      PROVE  ~IsFirst(list, From(list, id, k), id)
  <2>1. CASE has(k)
    <3>1. From(list, id, k) = k + 1 /\ (k + 1) - 1 = k
      BY <1>1, <2>1 DEF From
    <3> QED
      BY <2>1, <3>1 DEF IsFirst
  <2>2. CASE ~has(k)
    <3>1. From(list, id, k) = k /\ k \in 1..k
      BY <1>1, <2>2 DEF From
    <3> QED
      BY <2>2, <3>1 DEF IsFirst
  <2> QED
    BY <2>1, <2>2
<1>3. ASSUME NEW j \in 1..n, ~IsFirst(list, j, id)
      PROVE  \E k \in 1..(n - 1) : From(list, id, k) = j
  <2>1. CASE \E i \in 1..(j - 1) : list[i].id = id
    <3>1. j - 1 \in 1..(n - 1) /\ (j - 1) + 1 = j
      BY <1>1, <2>1
    <3>2. From(list, id, j - 1) = j
      BY <2>1, <3>1 DEF From
    <3> QED
      BY <3>1, <3>2
  <2>2. CASE ~\E i \in 1..(j - 1) : list[i].id = id
    <3>1. list[j].id # id
      BY <1>3, <2>2 DEF IsFirst
    <3>2. \A i \in 1..j : i \in 1..(j - 1) \/ i = j
      BY <1>1
    <3>3. ~has(j)
      BY <2>2, <3>1, <3>2
    <3>4. PICK m \in 1..n : list[m].id = id
      BY <1>1
    <3>5. m \notin 1..j
      BY <3>3, <3>4
    <3>6. j \in 1..(n - 1)
      BY <1>1, <3>5
    <3>7. From(list, id, j) = j
      BY <3>3 DEF From
    <3> QED
      BY <3>6, <3>7
  <2> QED
    BY <2>1, <2>2
<1> QED
  BY <1>2, <1>3 DEF n

LEMMA SavedGood ==
    ASSUME NEW text \in Seq(Item), Good(text), NEW id \in Ids
    PROVE  Good(Led(Placed(text, Plain(id, FALSE))))
<1> DEFINE e == Plain(id, FALSE)
           p == Placed(text, e)
<1>1. e \in Item /\ ~e.isDefault
  BY DEF Plain, Item
<1> HIDE DEF e
<1>2. /\ p \in Seq(Item)
      /\ \A k \in 1..Len(p) :
            \/ p[k] = e /\ (k \in 1..Len(text) => IsFirst(text, k, e.id))
            \/ k \in 1..Len(text) /\ p[k] = text[k] /\ ~IsFirst(text, k, e.id)
  BY <1>1, PlacedIs, PlacedAt
<1> HIDE DEF p
<1>3. Once(text) => Once(p)
  <2>1. \A k \in 1..Len(p) : p[k].isDefault => k \in 1..Len(text) /\ p[k] = text[k]
    BY <1>1, <1>2
  <2> QED
    BY <2>1 DEF Once
<1>4. Good(Led(p))
  BY <1>2, <1>3, LedGood DEF Good
<1> QED
  BY <1>4 DEF p, e

LEMMA SavedDefaultGood ==
    ASSUME NEW text \in Seq(Item), NEW id \in Ids
    PROVE  Good(Placed(Unset(text), Plain(id, TRUE)))
<1> DEFINE e == Plain(id, TRUE)
           u == Unset(text)
           p == Placed(u, e)
<1>1. e \in Item /\ e.isDefault /\ e.id = id
  BY DEF Plain, Item
<1>2. u \in Seq(Item) /\ \A k \in 1..Len(u) : ~u[k].isDefault
  BY UnsetIs DEF Undone
<1> HIDE DEF e, u
<1>3. /\ p \in Seq(Item) /\ p # <<>>
      /\ \A k \in 1..Len(p) :
            \/ p[k] = e /\ (k \in 1..Len(u) => IsFirst(u, k, e.id))
            \/ k \in 1..Len(u) /\ p[k] = u[k] /\ ~IsFirst(u, k, e.id)
  <2>1. u \in Seq(Item)
    BY <1>2
  <2>2. p \in Seq(Item) /\ p # <<>>
    BY <1>1, <2>1, PlacedIs
  <2>3. \A k \in 1..Len(p) :
            \/ p[k] = e /\ (k \in 1..Len(u) => IsFirst(u, k, e.id))
            \/ k \in 1..Len(u) /\ p[k] = u[k] /\ ~IsFirst(u, k, e.id)
    BY <1>1, <2>1, PlacedAt
  <2> QED
    BY <2>2, <2>3
<1>4. ASSUME NEW i \in 1..Len(p), NEW k \in 1..Len(p), p[i].isDefault, p[k].isDefault
      PROVE  i = k
  <2>1. /\ i \in 1..Len(u) => IsFirst(u, i, e.id)
        /\ k \in 1..Len(u) => IsFirst(u, k, e.id)
    BY <1>2, <1>3, <1>4
  <2> QED
    BY <1>1, <1>2, <2>1, PlacedOnce
<1>5. Once(p)
  BY <1>4 DEF Once
<1>6. HasDefault(p)
  <2>1. PICK k \in 1..Len(p) : p[k] = e
    BY <1>1, <1>2, PlacedHas
  <2>2. k \in DOMAIN p
    BY <1>3, ListIs
  <2> QED
    BY <1>1, <2>1, <2>2 DEF HasDefault
<1> QED
  BY <1>3, <1>5, <1>6 DEF Good, p, u, e

LEMMA OnlyGood ==
    ASSUME NEW text \in Seq(Item), Single(text), NEW id \in IdsOf(text)
    PROVE  Good(OnlyDefault(text, id))
<1> DEFINE o == OnlyDefault(text, id)
<1>1. /\ o \in Seq(Item) /\ Len(o) = Len(text)
      /\ \A k \in 1..Len(text) : o[k].isDefault <=> text[k].id = id
  BY OnlyIs
<1> HIDE DEF o
<1>2. PICK k \in 1..Len(text) : text[k].id = id
  BY ListIs DEF IdsOf
<1>3. HasDefault(o)
  BY <1>1, <1>2, ListIs DEF HasDefault
<1>4. Single(text) => inPlace \/ Once(o)
  BY <1>1 DEF Single, Distinct, Once
<1> QED
  BY <1>3, <1>4 DEF Good, o

LEMMA LeftGood ==
    ASSUME NEW text \in Seq(Item), Good(text), NEW id \in IdsOf(text)
    PROVE  Good(Left(text, id))
<1> DEFINE w == WithoutFirst(text, id)
           n == Len(text)
           from(k) == From(text, id, k)
<1>1. n \in Nat /\ DOMAIN text = 1..n /\ text # <<>>
  BY ListIs DEF IdsOf
<1>2. w \in Seq(Item) /\ Len(w) = n - 1
  BY <1>1, WithoutIs
<1>3. \A k \in 1..(n - 1) : from(k) \in 1..n /\ w[k] = text[from(k)]
  BY <1>1, WithoutIs
<1>4. \A i, k \in 1..(n - 1) : from(i) = from(k) => i = k
  BY <1>1, WithoutIs
<1>5. /\ \A k \in 1..(n - 1) : ~IsFirst(text, from(k), id)
      /\ \A j \in 1..n : ~IsFirst(text, j, id) => \E k \in 1..(n - 1) : from(k) = j
  BY <1>1, FromAll
<1> HIDE DEF w, n, from
<1>6. DOMAIN w = 1..(n - 1)
  BY <1>2, ListIs
<1>7. Once(text) => Once(w)
  BY <1>2, <1>3, <1>4 DEF Once, n
<1>8. CASE ~WasDefault(text, id)
  <2>1. \A k \in 1..n : text[k].isDefault => ~IsFirst(text, k, id)
    BY <1>1, <1>8 DEF WasDefault
  <2>2. HasDefault(text) => HasDefault(w)
    <3>1. ASSUME NEW k \in 1..n, text[k].isDefault
          PROVE  HasDefault(w)
      <4>1. PICK j \in 1..(n - 1) : from(j) = k
        BY <1>5, <2>1, <3>1
      <4>2. w[j].isDefault
        BY <1>3, <3>1, <4>1
      <4> QED
        BY <1>6, <4>2 DEF HasDefault
    <3> QED
      BY <1>1, <3>1 DEF HasDefault
  <2>3. Left(text, id) = w
    BY <1>8 DEF Left, w
  <2> QED
    BY <1>1, <1>7, <2>2, <2>3 DEF Good
<1>9. CASE WasDefault(text, id)
  <2> DEFINE p == Promoted(w)
  <2>1. p \in Seq(Item) /\ Leading(p, w)
    BY <1>2, PromotedIs
  <2>2. Left(text, id) = p
    BY <1>9 DEF Left, w
  <2> HIDE DEF p
  <2>3. Len(p) = n - 1 /\ DOMAIN p = 1..(n - 1)
    BY <1>2, <2>1, ListIs DEF Leading
  <2>4. p # <<>> => HasDefault(p)
    BY <1>2, <2>1, <2>3, ListIs DEF HasDefault, Leading
  <2>5. ASSUME ~inPlace
        PROVE  Once(p)
    <3>1. PICK j \in 1..n : IsFirst(text, j, id) /\ text[j].isDefault
      BY <1>1, <1>9 DEF WasDefault
    <3>2. \A k \in 1..(n - 1) : ~w[k].isDefault
      BY <1>3, <1>5, <2>5, <3>1 DEF Good, Once, n
    <3>3. \A k \in 1..(n - 1) : p[k].isDefault => k = 1
      BY <1>2, <2>1, <3>2 DEF Leading
    <3> QED
      BY <2>3, <3>3 DEF Once
  <2> QED
    BY <2>2, <2>4, <2>5 DEF Good
<1> QED
  BY <1>8, <1>9

LEMMA GoodKept ==
    ASSUME NEW i \in Seq(Item), Single(i), Good(i), NEW j, Promises(i, j)
    PROVE  Good(j)
<1>1. ASSUME NEW id \in Ids,
             \/ j = Led(Placed(i, Plain(id, FALSE)))
             \/ j = Placed(Unset(i), Plain(id, TRUE))
             \/ id \in IdsOf(i) /\ j = OnlyDefault(i, id)
             \/ id \in IdsOf(i) /\ j = Left(i, id)
      PROVE  Good(j)
  BY <1>1, SavedGood, SavedDefaultGood, OnlyGood, LeftGood
<1>2. ASSUME inPlace, NEW list \in Imports, j = Led(Named(list))
      PROVE  Good(j)
  BY <1>2, NamedIs, LedGood
<1>3. ASSUME inPlace, j = <<>>
      PROVE  Good(j)
  BY <1>3 DEF Good
<1> QED
  BY <1>1, <1>2, <1>3 DEF Promises

-------------------------------------------------------------------------------
(* The texts of the lists that the edits make. *)

LEMMA SaysOn ==
    ASSUME NEW a, NEW b, NEW c, Says(a, b), Says(b, c)
    PROVE  Says(a, c)
BY DEF Says

LEMMA PlacedSays ==
    ASSUME NEW S, NEW T, NEW a \in Seq(S), NEW b \in Seq(T), NEW e \in S, NEW f \in T,
           Says(a, b), e.id = f.id, e.isDefault <=> f.isDefault
    PROVE  Says(Placed(a, e), Placed(b, f))
<1> DEFINE p == Placed(a, e)
           q == Placed(b, f)
           n == Len(a)
<1>1. /\ n \in Nat /\ Len(b) = n
      /\ \A k \in 1..n : a[k].id = b[k].id /\ (a[k].isDefault <=> b[k].isDefault)
  BY ListIs DEF Says
<1>2. Alike(a, b)
  BY SaysAlike
<1>3. IdsOf(a) = IdsOf(b)
  BY <1>2 DEF Alike
<1>4. \A k \in 1..n : IsFirst(a, k, e.id) <=> IsFirst(b, k, f.id)
  BY <1>2 DEF Alike
<1>5. e.id \in IdsOf(a) => Replaced(p, a, e) /\ Replaced(q, b, f)
  <2>1. e.id \in IdsOf(a) => Replaced(p, a, e)
    BY PlacedIs
  <2>2. f.id \in IdsOf(b) => Replaced(q, b, f)
    BY PlacedIs
  <2> QED
    BY <1>3, <2>1, <2>2
<1>6. e.id \notin IdsOf(a) => Appended(p, a, e) /\ Appended(q, b, f)
  <2>1. e.id \notin IdsOf(a) => Appended(p, a, e)
    BY PlacedIs
  <2>2. f.id \notin IdsOf(b) => Appended(q, b, f)
    BY PlacedIs
  <2> QED
    BY <1>3, <2>1, <2>2
<1> HIDE DEF p, q
<1>7. CASE e.id \in IdsOf(a)
  <2>1. Len(p) = n /\ Len(q) = n
    BY <1>1, <1>5, <1>7 DEF Replaced
  <2>2. ASSUME NEW k \in 1..n
        PROVE  p[k].id = q[k].id /\ (p[k].isDefault <=> q[k].isDefault)
    <3>1. /\ p[k] = IF IsFirst(a, k, e.id) THEN e ELSE a[k]
          /\ q[k] = IF IsFirst(b, k, f.id) THEN f ELSE b[k]
      BY <1>1, <1>5, <1>7 DEF Replaced
    <3>2. CASE IsFirst(a, k, e.id)
      <4>1. p[k] = e /\ q[k] = f
        BY <1>4, <3>1, <3>2
      <4> QED
        BY <4>1
    <3>3. CASE ~IsFirst(a, k, e.id)
      <4>1. p[k] = a[k] /\ q[k] = b[k]
        BY <1>4, <3>1, <3>3
      <4> QED
        BY <1>1, <4>1
    <3> QED
      BY <3>2, <3>3
  <2>3. Says(p, q)
    BY <2>1, <2>2 DEF Says
  <2> QED
    BY <2>3 DEF p, q
<1>8. CASE e.id \notin IdsOf(a)
  <2> DEFINE m == Len(p)
             o == Len(q)
  <2>1. /\ m = n + 1 /\ p[n + 1] = e
        /\ \A k \in 1..n : p[k] = a[k]
    BY <1>6, <1>8 DEF Appended
  <2>2. /\ o = n + 1 /\ q[n + 1] = f
        /\ \A k \in 1..n : q[k] = b[k]
    BY <1>1, <1>6, <1>8 DEF Appended
  <2> HIDE DEF m, n, o
  <2>3. \A k \in 1..m : k \in 1..n \/ k = n + 1
    BY <1>1, <2>1
  <2>4. ASSUME NEW k \in 1..m
        PROVE  p[k].id = q[k].id /\ (p[k].isDefault <=> q[k].isDefault)
    BY <1>1, <2>1, <2>2, <2>3
  <2>5. o = m
    BY <2>1, <2>2
  <2>6. Says(p, q)
    BY <2>4, <2>5 DEF Says, m, o
  <2> QED
    BY <2>6 DEF p, q
<1> QED
  BY <1>7, <1>8

LEMMA WithoutSays ==
    ASSUME NEW S, NEW T, NEW a \in Seq(S), NEW b \in Seq(T), Says(a, b), a # <<>>, NEW id
    PROVE  Says(WithoutFirst(a, id), WithoutFirst(b, id))
<1> DEFINE v == WithoutFirst(a, id)
           w == WithoutFirst(b, id)
           n == Len(a)
<1>1. /\ n \in Nat /\ Len(b) = n /\ b # <<>>
      /\ \A k \in 1..n : a[k].id = b[k].id /\ (a[k].isDefault <=> b[k].isDefault)
  BY ListIs DEF Says
<1>2. Len(v) = n - 1
  BY WithoutIs
<1>3. Len(w) = n - 1
  <2>1. Len(w) = Len(b) - 1
    BY <1>1, WithoutIs
  <2> QED
    BY <1>1, <2>1
<1>4. \A k \in 1..(n - 1) : From(a, id, k) \in 1..n /\ v[k] = a[From(a, id, k)]
  BY WithoutIs
<1>5. \A k \in 1..(n - 1) : w[k] = b[From(b, id, k)]
  <2>1. \A k \in 1..(Len(b) - 1) : w[k] = b[From(b, id, k)]
    BY <1>1, WithoutIs
  <2> QED
    BY <1>1, <2>1
<1> HIDE DEF v, w, n
<1>6. ASSUME NEW k \in 1..(n - 1)
      PROVE  From(a, id, k) = From(b, id, k)
  <2>1. \A i \in 1..k : i \in 1..n
    BY <1>1
  <2>2. (\E i \in 1..k : a[i].id = id) <=> \E i \in 1..k : b[i].id = id
    BY <1>1, <2>1
  <2> QED
    BY <2>2 DEF From
<1>7. \A k \in 1..(n - 1) : v[k].id = w[k].id /\ (v[k].isDefault <=> w[k].isDefault)
  BY <1>1, <1>4, <1>5, <1>6
<1>8. Says(v, w)
  BY <1>2, <1>3, <1>7 DEF Says
<1> QED
  BY <1>8 DEF v, w

LEMMA OnlySays ==
    ASSUME NEW list, Sound(list), NEW id
    PROVE  OnlyDefault(list, id) = OnlyDefault(Text(list), id)
<1> DEFINE t == Text(list)
           o == OnlyDefault(list, id)
           p == OnlyDefault(t, id)
<1>1. t \in Seq(Item) /\ Single(t) /\ Says(t, list)
  BY TextIs, TextSays
<1> HIDE DEF t
<1>2. /\ o \in Seq(Item) /\ Len(o) = Len(list)
      /\ \A k \in 1..Len(list) : o[k].id = list[k].id /\ (o[k].isDefault <=> list[k].id = id)
  BY OnlyIs DEF Sound
<1>3. /\ p \in Seq(Item) /\ Len(p) = Len(t)
      /\ \A k \in 1..Len(t) : p[k].id = t[k].id /\ (p[k].isDefault <=> t[k].id = id)
  BY <1>1, OnlyIs
<1> HIDE DEF o, p
<1>4. Says(o, p)
  BY <1>1, <1>2, <1>3 DEF Says
<1>5. o = p
  BY <1>2, <1>3, <1>4, SaysSame
<1> QED
  BY <1>5 DEF o, p, t

\* What the marks of e make of a list.
Turned(m, list, e) ==
    \A k \in 1..Len(list) :
        m[k].isDefault <=>
            (Object(list[k]) \in e.on \/ (list[k].isDefault /\ Object(list[k]) \notin e.off))

LEMMA MarkedTurned ==
    ASSUME NEW list, Sound(list), NEW e
    PROVE  Turned(Marked(list, e), list, e)
<1> DEFINE m == Marked(list, e)
<1>1. \A k \in 1..Len(list) :
         /\ m[k].id = list[k].id
         /\ m[k].isDefault =
              (Object(list[k]) \in e.on \/ (list[k].isDefault /\ Object(list[k]) \notin e.off))
  BY MarkedIs
<1> HIDE DEF m
<1>2. ASSUME NEW k \in 1..Len(list)
      PROVE  m[k].isDefault <=>
                (Object(list[k]) \in e.on \/ (list[k].isDefault /\ Object(list[k]) \notin e.off))
  <2>1. m[k].isDefault =
           (Object(list[k]) \in e.on \/ (list[k].isDefault /\ Object(list[k]) \notin e.off))
    BY <1>1
  <2> HIDE DEF Object
  <2> QED
    BY <2>1, Zenon
<1> HIDE DEF Object
<1>3. Turned(m, list, e)
  BY <1>2 DEF Turned
<1> QED
  BY <1>3 DEF m

\* Marks that turn no entry off: none on, or the first.
LEMMA MarkedSays ==
    ASSUME NEW list, Sound(list), NEW e, e.off = {}
    PROVE  /\ Sound(Marked(list, e))
           /\ e.on = {} => Says(Marked(list, e), list)
           /\ e.on = First(list) /\ Apart(list) => Leading(Marked(list, e), list)
<1> DEFINE m == Marked(list, e)
<1>1. /\ Sound(m) /\ Len(m) = Len(list)
      /\ \A k \in 1..Len(list) : m[k].id = list[k].id
      /\ Turned(m, list, e)
  <2>1. Sound(m) /\ Len(m) = Len(list)
    BY MarkedIs
  <2>2. ASSUME NEW k \in 1..Len(list)
        PROVE  m[k].id = list[k].id
    BY <2>2, MarkedIs
  <2>3. Turned(m, list, e)
    BY MarkedTurned
  <2> QED
    BY <2>1, <2>2, <2>3
<1> HIDE DEF m
<1>2. ASSUME NEW k \in 1..Len(list)
      PROVE  m[k].isDefault <=> list[k].isDefault \/ Object(list[k]) \in e.on
  <2>1. m[k].isDefault <=>
           (Object(list[k]) \in e.on \/ (list[k].isDefault /\ Object(list[k]) \notin e.off))
    BY <1>1 DEF Turned
  <2> HIDE DEF Object
  <2> QED
    BY <2>1, Zenon
<1>3. e.on = {} => Says(m, list)
  BY <1>1, <1>2 DEF Says
<1>4. ASSUME e.on = First(list), Apart(list), NEW k \in 1..Len(list)
      PROVE  Object(list[k]) \in e.on <=> k = 1
  <2>1. list # <<>> /\ 1 \in 1..Len(list)
    BY <1>4, ListIs DEF Sound
  <2>2. e.on = {Object(list[1])}
    BY <1>4, <2>1 DEF First
  <2>3. Object(list[k]) = Object(list[1]) => k = 1
    BY <1>4, <2>1 DEF Object, Apart
  <2> QED
    BY <2>2, <2>3
<1>5. e.on = First(list) /\ Apart(list) => Leading(m, list)
  BY <1>1, <1>2, <1>4 DEF Leading
<1> QED
  BY <1>1, <1>3, <1>5 DEF m

LEMMA PromotedText ==
    ASSUME NEW list, Sound(list), NEW m, Sound(m), Leading(m, list)
    PROVE  Text(m) = Promoted(Text(list))
<1> DEFINE t == Text(list)
           p == Promoted(t)
           u == Text(m)
<1>1. t \in Seq(Item) /\ Says(t, list)
  BY TextSays
<1>2. u \in Seq(Item) /\ Says(u, m)
  BY TextSays
<1> HIDE DEF t, u
<1>3. p \in Seq(Item) /\ Leading(p, t)
  BY <1>1, PromotedIs
<1> HIDE DEF p
<1>4. Len(u) = Len(list) /\ Len(p) = Len(list)
  BY <1>1, <1>2, <1>3 DEF Says, Leading
<1>5. ASSUME NEW k \in 1..Len(list)
      PROVE  u[k].id = p[k].id /\ (u[k].isDefault <=> p[k].isDefault)
  <2>1. u[k].id = list[k].id /\ (u[k].isDefault <=> list[k].isDefault \/ k = 1)
    BY <1>2, <1>4 DEF Says, Leading
  <2>2. p[k].id = list[k].id /\ (p[k].isDefault <=> list[k].isDefault \/ k = 1)
    BY <1>1, <1>3 DEF Says, Leading
  <2> QED
    BY <2>1, <2>2
<1>6. Says(u, p)
  BY <1>4, <1>5 DEF Says
<1>7. u = p
  BY <1>2, <1>3, <1>6, SaysSame
<1> QED
  BY <1>7 DEF u, p, t

LEMMA SameText ==
    ASSUME NEW list, Sound(list), NEW m, Sound(m), Says(m, list)
    PROVE  Text(m) = Text(list)
<1>1. Says(Text(m), m) /\ Says(list, Text(list)) /\ Text(m) \in Seq(Item) /\ Text(list) \in Seq(Item)
  BY TextSays
<1>2. Says(Text(m), Text(list))
  BY <1>1, SaysOn
<1> QED
  BY <1>1, <1>2, SaysSame

LEMMA LedText ==
    ASSUME NEW list, Sound(list), Apart(list), NEW e, e.off = {}, e.on = FirstIfNone(list)
    PROVE  Text(Marked(list, e)) = Led(Text(list))
<1> DEFINE m == Marked(list, e)
           t == Text(list)
<1>1. t \in Seq(Item) /\ Says(list, t) /\ list \in Seq(Entries)
  BY TextSays DEF Sound
<1>2. HasDefault(list) <=> HasDefault(t)
  <2>1. Alike(list, t)
    BY <1>1, SaysAlike
  <2> QED
    BY <2>1 DEF Alike
<1>3. CASE HasDefault(list)
  <2>1. Sound(m) /\ Says(m, list)
    BY <1>3, MarkedSays DEF FirstIfNone
  <2> QED
    BY <1>2, <1>3, <2>1, SameText DEF Led
<1>4. CASE ~HasDefault(list)
  <2>1. Sound(m) /\ Leading(m, list)
    BY <1>4, MarkedSays DEF FirstIfNone
  <2> QED
    BY <1>2, <1>4, <2>1, PromotedText DEF Led
<1> QED
  BY <1>3, <1>4

-------------------------------------------------------------------------------
(* Each edit is one the promise allows. *)

\* Every object of the edit is the request's own, or was there.
Makes(base, e, r) ==
    \A k \in 1..Len(e.list) :
        e.list[k].maker = <<r, "new">> \/ \E i \in 1..Len(base) : e.list[k].maker = base[i].maker
Allows(base, e, r) ==
    /\ Sound(e.list) /\ Apart(e.list) /\ Makes(base, e, r)
    /\ Leads(Text(base), Text(Marked(e.list, e)))

LEMMA TextPlaced ==
    ASSUME NEW base, Sound(base), NEW e \in Entries
    PROVE  Text(Placed(base, e)) = Placed(Text(base), Plain(e.id, e.isDefault))
<1> DEFINE b == Text(base)
           f == Plain(e.id, e.isDefault)
           p == Placed(base, e)
           q == Placed(b, f)
           t == Text(p)
<1>1. b \in Seq(Item) /\ Says(base, b) /\ base \in Seq(Entries)
  BY TextSays DEF Sound
<1>2. f \in Item /\ f.id = e.id /\ f.isDefault = e.isDefault
  BY DEF Plain, Item, Entries
<1> HIDE DEF b, f
<1>3. Says(p, q)
  BY <1>1, <1>2, PlacedSays
<1>4. q \in Seq(Item) /\ Sound(p)
  BY <1>1, <1>2, PlacedIs, PlacedSound
<1> HIDE DEF p, q
<1>5. t \in Seq(Item) /\ Says(t, p)
  BY <1>4, TextSays
<1>6. t = q
  BY <1>3, <1>4, <1>5, SaysOn, SaysSame
<1> QED
  BY <1>6 DEF t, q, p, b, f

LEMMA PlacedApart ==
    ASSUME NEW base, Sound(base), Apart(base), NEW r, Unmade(r, base),
           NEW f \in Entries, f.maker = <<r, "new">>, NEW e, e.list = Placed(base, f)
    PROVE  Sound(e.list) /\ Apart(e.list) /\ Makes(base, e, r)
<1> DEFINE p == Placed(base, f)
<1>1. base \in Seq(Entries) /\ Sound(p)
  BY PlacedSound DEF Sound
<1>2. \A k \in 1..Len(p) :
         \/ p[k] = f /\ (k \in 1..Len(base) => IsFirst(base, k, f.id))
         \/ k \in 1..Len(base) /\ p[k] = base[k] /\ ~IsFirst(base, k, f.id)
  BY <1>1, PlacedAt
<1>3. ASSUME NEW i \in 1..Len(p), NEW k \in 1..Len(p), p[i].maker = p[k].maker, p[i].at = p[k].at
      PROVE  i = k
  <2>1. CASE p[i].maker = <<r, "new">>
    <3>1. /\ i \in 1..Len(base) => IsFirst(base, i, f.id)
          /\ k \in 1..Len(base) => IsFirst(base, k, f.id)
      BY <1>2, <1>3, <2>1 DEF Unmade
    <3> QED
      BY <1>1, <3>1, PlacedOnce
  <2>2. CASE p[i].maker # <<r, "new">>
    <3>1. i \in 1..Len(base) /\ p[i] = base[i] /\ k \in 1..Len(base) /\ p[k] = base[k]
      BY <1>2, <1>3, <2>2
    <3> QED
      BY <1>3, <3>1 DEF Apart
  <2> QED
    BY <2>1, <2>2
<1>4. \A k \in 1..Len(p) :
         p[k].maker = <<r, "new">> \/ \E i \in 1..Len(base) : p[k].maker = base[i].maker
  BY <1>2
<1> HIDE DEF p
<1>5. Apart(p)
  BY <1>3 DEF Apart
<1>6. e.list = p
  BY DEF p
<1> QED
  BY <1>1, <1>4, <1>5, <1>6 DEF Makes

LEMMA AnewApart ==
    ASSUME NEW base, NEW list, Sound(list), NEW id, NEW r \in Requests, NEW e, e.list = Anew(list, id, r)
    PROVE  Sound(e.list) /\ Apart(e.list) /\ Makes(base, e, r)
<1> DEFINE a == Anew(list, id, r)
<1>1. /\ Sound(a) /\ Len(a) = Len(list)
      /\ \A k \in 1..Len(list) : a[k].maker = <<r, "new">> /\ a[k].at = k
  BY AnewIs
<1> HIDE DEF a
<1>2. e.list = a
  BY DEF a
<1>3. Apart(a) /\ Makes(base, e, r)
  BY <1>1, <1>2 DEF Apart, Makes
<1> QED
  BY <1>1, <1>2, <1>3

\* Saved, and the first made the default if there is none.
LEMMA SaveAllowed ==
    ASSUME NEW base, Sound(base), Apart(base), NEW r \in Requests, Unmade(r, base),
           NEW op, op.id \in Ids,
           NEW e, e.list = Placed(base, New(r, op, FALSE)), e.off = {}, e.on = FirstIfNone(e.list)
    PROVE  Allows(base, e, r)
<1> DEFINE f == New(r, op, FALSE)
<1>1. f \in Entries /\ f.id = op.id /\ f.isDefault = FALSE /\ f.maker = <<r, "new">>
  BY NewIs
<1>2. e.list = Placed(base, f)
  OBVIOUS
<1> HIDE DEF f
<1>3. Sound(e.list) /\ Apart(e.list) /\ Makes(base, e, r)
  BY <1>1, <1>2, PlacedApart
<1>4. Text(Marked(e.list, e)) = Led(Text(e.list))
  BY <1>3, LedText
<1>5. Text(e.list) = Placed(Text(base), Plain(op.id, FALSE))
  BY <1>1, <1>2, TextPlaced
<1>6. Promises(Text(base), Text(Marked(e.list, e)))
  BY <1>4, <1>5 DEF Promises
<1> QED
  BY <1>3, <1>6 DEF Allows, Leads

\* The default is the entry that was placed.
Crowned(m, base, f) ==
    /\ SameIds(m, Placed(base, f))
    /\ \A k \in 1..Len(m) :
          m[k].isDefault <=> (k \in 1..Len(base) => IsFirst(base, k, f.id))

LEMMA IdsAlike ==
    ASSUME NEW S, NEW T, NEW a \in Seq(S), NEW b \in Seq(T), SameIds(a, b), NEW id
    PROVE  /\ id \in IdsOf(a) <=> id \in IdsOf(b)
           /\ \A k \in 1..Len(a) : IsFirst(a, k, id) <=> IsFirst(b, k, id)
<1> DEFINE n == Len(a)
<1>1. /\ n \in Nat /\ DOMAIN a = 1..n /\ DOMAIN b = 1..n
      /\ \A k \in 1..n : a[k].id = b[k].id
  BY ListIs DEF SameIds
<1> HIDE DEF n
<1>2. id \in IdsOf(a) <=> id \in IdsOf(b)
  BY <1>1 DEF IdsOf
<1>3. ASSUME NEW k \in 1..n
      PROVE  IsFirst(a, k, id) <=> IsFirst(b, k, id)
  <2>1. \A i \in 1..(k - 1) : i \in 1..n
    BY <1>1
  <2> QED
    BY <1>1, <2>1 DEF IsFirst
<1> QED
  BY <1>2, <1>3 DEF n

LEMMA CrownedText ==
    ASSUME NEW base, Sound(base), NEW f \in Entries, NEW m, Sound(m), Crowned(m, base, f)
    PROVE  Text(m) = Placed(Unset(Text(base)), Plain(f.id, TRUE))
<1> DEFINE b == Text(base)
           u == Unset(b)
           g == Plain(f.id, TRUE)
           p == Placed(base, f)
           q == Placed(u, g)
           t == Text(m)
           n == Len(base)
           o == Len(m)
<1>1. base \in Seq(Entries) /\ n \in Nat
  BY ListIs DEF Sound
<1>2. /\ b \in Seq(Item) /\ Len(b) = n
      /\ \A k \in 1..n : b[k].id = base[k].id
  BY TextSays DEF Says
<1> HIDE DEF b
<1>3. /\ u \in Seq(Item) /\ Len(u) = n
      /\ \A k \in 1..n : u[k].id = base[k].id /\ ~u[k].isDefault
  BY <1>2, UnsetIs DEF Undone
<1> HIDE DEF u
<1>4. g \in Item /\ g.id = f.id /\ g.isDefault
  BY DEF Plain, Item, Entries
<1> HIDE DEF g
<1>5. SameIds(base, u)
  BY <1>1, <1>3 DEF SameIds
<1>6. /\ f.id \in IdsOf(base) <=> f.id \in IdsOf(u)
      /\ \A k \in 1..n : IsFirst(base, k, f.id) <=> IsFirst(u, k, f.id)
  BY <1>1, <1>3, <1>5, IdsAlike
<1>7. f.id \in IdsOf(base) => Replaced(p, base, f) /\ Replaced(q, u, g)
  <2>1. f.id \in IdsOf(base) => Replaced(p, base, f)
    BY <1>1, PlacedIs
  <2>2. g.id \in IdsOf(u) => Replaced(q, u, g)
    BY <1>3, <1>4, PlacedIs
  <2> QED
    BY <1>4, <1>6, <2>1, <2>2
<1>8. f.id \notin IdsOf(base) => Appended(p, base, f) /\ Appended(q, u, g)
  <2>1. f.id \notin IdsOf(base) => Appended(p, base, f)
    BY <1>1, PlacedIs
  <2>2. g.id \notin IdsOf(u) => Appended(q, u, g)
    BY <1>3, <1>4, PlacedIs
  <2> QED
    BY <1>4, <1>6, <2>1, <2>2
<1>9. q \in Seq(Item)
  BY <1>3, <1>4, PlacedIs
<1> HIDE DEF p, q
<1>10. t \in Seq(Item) /\ Says(t, m)
  BY TextSays
<1>11. /\ Len(p) = o
       /\ \A k \in 1..o : m[k].id = p[k].id
       /\ \A k \in 1..o : m[k].isDefault <=> (k \in 1..n => IsFirst(base, k, f.id))
  BY DEF Crowned, SameIds, p
<1> HIDE DEF t
<1>12. CASE f.id \in IdsOf(base)
  <2>1. Len(p) = n /\ Len(q) = n
    BY <1>3, <1>7, <1>12 DEF Replaced
  <2>2. ASSUME NEW k \in 1..n
        PROVE  m[k].id = q[k].id /\ (m[k].isDefault <=> q[k].isDefault)
    <3>1. /\ p[k] = IF IsFirst(base, k, f.id) THEN f ELSE base[k]
          /\ q[k] = IF IsFirst(u, k, f.id) THEN g ELSE u[k]
      BY <1>3, <1>4, <1>7, <1>12 DEF Replaced
    <3>2. m[k].id = p[k].id /\ (m[k].isDefault <=> IsFirst(base, k, f.id))
      BY <1>11, <2>1
    <3>3. CASE IsFirst(base, k, f.id)
      <4>1. p[k] = f /\ q[k] = g
        BY <1>6, <3>1, <3>3
      <4> QED
        BY <1>4, <3>2, <3>3, <4>1
    <3>4. CASE ~IsFirst(base, k, f.id)
      <4>1. p[k] = base[k] /\ q[k] = u[k]
        BY <1>6, <3>1, <3>4
      <4> QED
        BY <1>3, <3>2, <3>4, <4>1
    <3> QED
      BY <3>3, <3>4
  <2>3. Says(m, q)
    BY <1>11, <2>1, <2>2 DEF Says, o
  <2> QED
    BY <1>9, <1>10, <2>3, SaysOn, SaysSame DEF t, q, u, g, b
<1>13. CASE f.id \notin IdsOf(base)
  <2> DEFINE lp == Len(p)
             lq == Len(q)
  <2>1. /\ lp = n + 1 /\ p[n + 1] = f
        /\ \A k \in 1..n : p[k] = base[k]
    BY <1>8, <1>13 DEF Appended
  <2>2. /\ lq = n + 1 /\ q[n + 1] = g
        /\ \A k \in 1..n : q[k] = u[k]
    BY <1>3, <1>8, <1>13 DEF Appended
  <2>3. \A k \in 1..n : ~IsFirst(base, k, f.id)
    BY <1>1, <1>13, ListIs DEF IsFirst, IdsOf
  <2>4. o = lp
    BY <1>11
  <2> HIDE DEF lp, lq, n, o
  <2>5. \A k \in 1..o : k \in 1..n \/ (k = n + 1 /\ k \notin 1..n)
    BY <1>1, <2>1, <2>4
  <2>6. ASSUME NEW k \in 1..o
        PROVE  m[k].id = q[k].id /\ (m[k].isDefault <=> q[k].isDefault)
    <3>1. m[k].id = p[k].id /\ (m[k].isDefault <=> (k \in 1..n => IsFirst(base, k, f.id)))
      BY <1>11
    <3>2. CASE k \in 1..n
      BY <1>3, <2>1, <2>2, <2>3, <3>1, <3>2
    <3>3. CASE k = n + 1 /\ k \notin 1..n
      BY <1>4, <2>1, <2>2, <3>1, <3>3
    <3> QED
      BY <2>5, <3>2, <3>3
  <2>7. o = lq
    BY <2>1, <2>2, <2>4
  <2>8. Says(m, q)
    BY <2>6, <2>7 DEF Says, o, lq
  <2> QED
    BY <1>9, <1>10, <2>8, SaysOn, SaysSame DEF t, q, u, g, b
<1> QED
  BY <1>12, <1>13

-------------------------------------------------------------------------------
\* Of tiers, the list is made anew.
LEMMA SaveDefaultTierAllowed ==
    ASSUME NEW base, Sound(base), ~inPlace, NEW r \in Requests, NEW op, op.id \in Ids,
           NEW e, e.list = Anew(Placed(base, New(r, op, FALSE)), op.id, r), e.off = {}, e.on = {}
    PROVE  Allows(base, e, r)
<1> DEFINE f == New(r, op, FALSE)
           p == Placed(base, f)
           a == Anew(p, op.id, r)
<1>1. f \in Entries /\ f.id = op.id
  BY NewIs
<1> HIDE DEF f
<1>2. base \in Seq(Entries) /\ Len(base) \in Nat /\ Sound(p) /\ Distinct(base)
  BY <1>1, PlacedSound, ListIs DEF Sound, Single
<1>3. \A k \in 1..Len(p) :
         \/ p[k] = f /\ (k \in 1..Len(base) => IsFirst(base, k, f.id))
         \/ k \in 1..Len(base) /\ p[k] = base[k] /\ ~IsFirst(base, k, f.id)
  BY <1>1, <1>2, PlacedAt
<1> HIDE DEF p
<1>4. Sound(e.list) /\ Apart(e.list) /\ Makes(base, e, r) /\ e.list = a
  BY <1>2, AnewApart DEF p, f
<1>5. Sound(a) /\ Len(a) = Len(p) /\ Text(a) = OnlyDefault(p, op.id)
  BY <1>2, AnewIs
<1>6. /\ Len(OnlyDefault(p, op.id)) = Len(p)
      /\ \A k \in 1..Len(p) :
            /\ OnlyDefault(p, op.id)[k].id = p[k].id
            /\ OnlyDefault(p, op.id)[k].isDefault <=> p[k].id = op.id
  BY <1>2, OnlyIs DEF Sound
<1> HIDE DEF a
<1>7. Says(Text(a), a)
  BY <1>5, TextSays
<1>8. ASSUME NEW k \in 1..Len(p)
      PROVE  /\ a[k].id = p[k].id
             /\ a[k].isDefault <=> (k \in 1..Len(base) => IsFirst(base, k, f.id))
  <2>1. a[k].id = p[k].id /\ (a[k].isDefault <=> p[k].id = op.id)
    BY <1>5, <1>6, <1>7 DEF Says
  <2>2. CASE p[k] = f /\ (k \in 1..Len(base) => IsFirst(base, k, f.id))
    BY <1>1, <2>1, <2>2
  <2>3. CASE k \in 1..Len(base) /\ p[k] = base[k] /\ ~IsFirst(base, k, f.id)
    <3>1. base[k].id # f.id
      <4>1. \A i \in 1..(k - 1) : i \in 1..Len(base) /\ i # k
        BY <1>2, <2>3
      <4> QED
        BY <1>2, <2>3, <4>1 DEF IsFirst, Distinct
    <3> QED
      BY <1>1, <2>1, <2>3, <3>1
  <2> QED
    BY <1>3, <2>2, <2>3
<1>9. Crowned(a, base, f)
  BY <1>5, <1>8 DEF Crowned, SameIds, p
<1>10. Text(a) = Placed(Unset(Text(base)), Plain(op.id, TRUE))
  BY <1>1, <1>5, <1>9, CrownedText
<1>11. Text(Marked(a, e)) = Text(a)
  BY <1>5, MarkedSays, SameText
<1>12. Promises(Text(base), Text(Marked(e.list, e)))
  BY <1>4, <1>10, <1>11 DEF Promises
<1> QED
  BY <1>4, <1>12 DEF Allows, Leads

\* Of versions, the others are unset: those that were there, which the new one is none of.
LEMMA SaveDefaultVersionAllowed ==
    ASSUME NEW base, Sound(base), Apart(base), NEW r \in Requests, Unmade(r, base),
           NEW op, op.id \in Ids,
           NEW e, e.list = Placed(base, New(r, op, TRUE)), e.off = Objects(base),
           e.on = FirstIfNone(e.list)
    PROVE  Allows(base, e, r)
<1> DEFINE f == New(r, op, TRUE)
           p == Placed(base, f)
           m == Marked(p, e)
<1>1. f \in Entries /\ f.id = op.id /\ f.isDefault = TRUE /\ f.maker = <<r, "new">>
  BY NewIs
<1>2. e.list = p
  OBVIOUS
<1> HIDE DEF f
<1>3. Sound(e.list) /\ Apart(e.list) /\ Makes(base, e, r)
  BY <1>1, <1>2, PlacedApart
<1>4. base \in Seq(Entries) /\ DOMAIN base = 1..Len(base)
  BY ListIs DEF Sound
<1>5. \A k \in 1..Len(p) :
         \/ p[k] = f /\ (k \in 1..Len(base) => IsFirst(base, k, f.id))
         \/ k \in 1..Len(base) /\ p[k] = base[k] /\ ~IsFirst(base, k, f.id)
  BY <1>1, <1>4, PlacedAt
<1>6. \E k \in 1..Len(p) : p[k] = f
  BY <1>1, <1>4, PlacedHas
<1> HIDE DEF p
<1>7. Sound(p) /\ DOMAIN p = 1..Len(p)
  BY <1>2, <1>3, ListIs DEF Sound
<1>8. e.on = {}
  <2>1. HasDefault(p)
    BY <1>1, <1>6, <1>7 DEF HasDefault
  <2> QED
    BY <1>2, <2>1 DEF FirstIfNone
<1>9. Sound(m) /\ SameIds(m, p) /\ Len(m) = Len(p)
  BY <1>7, MarkedIs
<1>14. Turned(m, p, e)
  BY <1>7, MarkedTurned
<1> HIDE DEF m
<1>10. Object(f) \notin e.off
  BY <1>1, <1>4 DEF Objects, Object, Unmade
<1>11. \A k \in 1..Len(base) : Object(base[k]) \in e.off
  BY <1>4 DEF Objects
<1>12. ASSUME NEW k \in 1..Len(p)
       PROVE  m[k].isDefault <=> (k \in 1..Len(base) => IsFirst(base, k, f.id))
  <2>1. m[k].isDefault <=>
           (Object(p[k]) \in e.on \/ (p[k].isDefault /\ Object(p[k]) \notin e.off))
    BY <1>14 DEF Turned
  <2>2. Object(p[k]) \notin e.on
    BY <1>8
  <2> HIDE DEF Object
  <2>3. CASE p[k] = f /\ (k \in 1..Len(base) => IsFirst(base, k, f.id))
    <3>1. p[k].isDefault /\ Object(p[k]) \notin e.off
      BY <1>1, <1>10, <2>3
    <3>2. m[k].isDefault
      BY <2>1, <3>1, Zenon
    <3> QED
      BY <2>3, <3>2
  <2>4. CASE k \in 1..Len(base) /\ p[k] = base[k] /\ ~IsFirst(base, k, f.id)
    <3>1. Object(p[k]) \in e.off
      BY <1>11, <2>4
    <3>2. ~m[k].isDefault
      BY <2>1, <2>2, <3>1, Zenon
    <3> QED
      BY <2>4, <3>2
  <2> QED
    BY <1>5, <2>3, <2>4
<1>13. Crowned(m, base, f)
  BY <1>9, <1>12 DEF Crowned, p
<1>15. Text(m) = Placed(Unset(Text(base)), Plain(op.id, TRUE))
  BY <1>1, <1>9, <1>13, CrownedText
<1>16. Promises(Text(base), Text(Marked(e.list, e)))
  BY <1>2, <1>15 DEF Promises, m
<1> QED
  BY <1>3, <1>16 DEF Allows, Leads

LEMMA ChooseTierAllowed ==
    ASSUME NEW base, Sound(base), NEW r \in Requests, NEW op, op.id \in Ids, op.id \in IdsOf(base),
           NEW e, e.list = Anew(base, op.id, r), e.off = {}, e.on = {}
    PROVE  Allows(base, e, r)
<1>1. Sound(e.list) /\ Apart(e.list) /\ Makes(base, e, r)
  BY AnewApart
<1>2. Text(e.list) = OnlyDefault(Text(base), op.id)
  BY AnewIs, OnlySays
<1>3. Text(Marked(e.list, e)) = Text(e.list)
  BY <1>1, MarkedSays, SameText
<1>4. op.id \in IdsOf(Text(base))
  BY TextSays, SaysAlike DEF Alike, Sound
<1>5. Promises(Text(base), Text(Marked(e.list, e)))
  BY <1>2, <1>3, <1>4 DEF Promises
<1> QED
  BY <1>1, <1>5 DEF Allows, Leads

\* All others are unset, in the lists that have them.
LEMMA ChooseVersionAllowed ==
    ASSUME NEW base, Sound(base), Apart(base), NEW r, NEW op, op.id \in Ids, op.id \in IdsOf(base)
    PROVE  Allows(base, ChooseVersion(base, op), r)
<1> DEFINE e == ChooseVersion(base, op)
           chosen == {Object(base[k]) : k \in {k \in DOMAIN base : base[k].id = op.id}}
           m == Marked(base, e)
           o == OnlyDefault(Text(base), op.id)
<1>1. e.list = base /\ e.off = Objects(base) \ chosen /\ e.on = chosen
  BY EditIs DEF ChooseVersion
<1> HIDE DEF e
<1>2. base \in Seq(Entries) /\ DOMAIN base = 1..Len(base)
  BY ListIs DEF Sound
<1>3. Sound(m) /\ SameIds(m, base) /\ Len(m) = Len(base)
  BY MarkedIs
<1>14. Turned(m, base, e)
  BY MarkedTurned
<1> HIDE DEF m
<1>4. ASSUME NEW k \in 1..Len(base)
      PROVE  /\ Object(base[k]) \in e.on <=> base[k].id = op.id
             /\ Object(base[k]) \notin e.off <=> base[k].id = op.id
  <2>1. Object(base[k]) \in Objects(base)
    BY <1>2 DEF Objects
  <2>2. Object(base[k]) \in chosen <=> base[k].id = op.id
    <3>1. \A i \in 1..Len(base) : Object(base[i]) = Object(base[k]) => i = k
      BY DEF Object, Apart
    <3> HIDE DEF Object
    <3> QED
      BY <1>2, <3>1
  <2> QED
    BY <1>1, <2>1, <2>2
<1>5. ASSUME NEW k \in 1..Len(base)
      PROVE  m[k].isDefault <=> base[k].id = op.id
  <2>1. m[k].isDefault <=>
           (Object(base[k]) \in e.on \/ (base[k].isDefault /\ Object(base[k]) \notin e.off))
    BY <1>14 DEF Turned
  <2> HIDE DEF Object
  <2> QED
    BY <1>4, <2>1, Zenon
<1>6. Text(m) \in Seq(Item) /\ Says(Text(m), m)
  BY <1>3, TextSays
<1>7. o = OnlyDefault(base, op.id)
  BY OnlySays
<1>8. /\ OnlyDefault(base, op.id) \in Seq(Item) /\ Len(OnlyDefault(base, op.id)) = Len(base)
      /\ \A k \in 1..Len(base) :
            /\ OnlyDefault(base, op.id)[k].id = base[k].id
            /\ OnlyDefault(base, op.id)[k].isDefault <=> base[k].id = op.id
  BY <1>2, OnlyIs DEF Sound
<1> HIDE DEF o
<1>9. Says(m, o)
  BY <1>3, <1>5, <1>7, <1>8 DEF Says, SameIds
<1>10. Text(m) = o
  BY <1>6, <1>7, <1>8, <1>9, SaysOn, SaysSame
<1>11. op.id \in IdsOf(Text(base))
  BY TextSays, SaysAlike DEF Alike, Sound
<1>12. Promises(Text(base), Text(Marked(e.list, e)))
  BY <1>1, <1>10, <1>11 DEF Promises, o, m
<1>13. Makes(base, e, r)
  BY <1>1 DEF Makes
<1> QED
  BY <1>1, <1>12, <1>13 DEF Allows, Leads, e

LEMMA RemoveAllowed ==
    ASSUME NEW base, Sound(base), Apart(base), NEW r, NEW op, op.id \in Ids, op.id \in IdsOf(base)
    PROVE  Allows(base, Remove(base, op), r)
<1> DEFINE e == Remove(base, op)
           id == op.id
           w == WithoutFirst(base, id)
           n == Len(base)
           from(k) == From(base, id, k)
           m == Marked(w, e)
<1>1. /\ e.list = w /\ e.off = {}
      /\ e.on = IF WasDefault(base, id) THEN First(w) ELSE {}
  BY EditIs DEF Remove, WasDefault
<1> HIDE DEF e
<1>2. base \in Seq(Entries) /\ base # <<>>
  BY ListIs DEF Sound, IdsOf
<1>3. Sound(w) /\ Len(w) = n - 1
  BY <1>2, WithoutIs, WithoutSound
<1>4. \A k \in 1..(n - 1) : from(k) \in 1..n /\ w[k] = base[from(k)]
  BY <1>2, WithoutIs
<1>5. \A i, k \in 1..(n - 1) : from(i) = from(k) => i = k
  BY <1>2, WithoutIs
<1>6. Text(base) \in Seq(Item) /\ Says(base, Text(base))
  BY TextSays
<1>7. Alike(base, Text(base))
  BY <1>2, <1>6, SaysAlike
<1>8. /\ id \in IdsOf(Text(base)) /\ Text(base) # <<>>
      /\ WasDefault(base, id) <=> WasDefault(Text(base), id)
  BY <1>2, <1>7 DEF Alike
<1>9. Text(w) = WithoutFirst(Text(base), id)
  <2> DEFINE b == Text(base)
             v == WithoutFirst(b, id)
  <2>1. Says(w, v) /\ v \in Seq(Item)
    BY <1>2, <1>6, <1>8, WithoutSays, WithoutIs
  <2>2. Text(w) \in Seq(Item) /\ Says(Text(w), w)
    BY <1>3, TextSays
  <2> HIDE DEF v, w
  <2>3. Text(w) = v
    BY <2>1, <2>2, SaysOn, SaysSame
  <2> QED
    BY <2>3 DEF v
<1> HIDE DEF w, n, from
<1>10. Apart(w)
  <2>1. ASSUME NEW i \in 1..(n - 1), NEW k \in 1..(n - 1), w[i].maker = w[k].maker, w[i].at = w[k].at
        PROVE  i = k
    <3>1. from(i) \in 1..Len(base) /\ from(k) \in 1..Len(base)
      BY <1>4 DEF n
    <3>2. w[i] = base[from(i)] /\ w[k] = base[from(k)]
      BY <1>4
    <3>3. base[from(i)].maker = base[from(k)].maker /\ base[from(i)].at = base[from(k)].at
      BY <2>1, <3>2
    <3>4. from(i) = from(k)
      BY <3>1, <3>3 DEF Apart
    <3> QED
      BY <1>5, <3>4
  <2> QED
    BY <1>3, <2>1 DEF Apart
<1>11. Makes(base, e, r)
  BY <1>1, <1>3, <1>4 DEF Makes, n
<1>12. Text(m) = Left(Text(base), id)
  <2>1. CASE WasDefault(base, id)
    <3>1. Sound(m) /\ Leading(m, w)
      BY <1>1, <1>3, <1>10, <2>1, MarkedSays
    <3> QED
      BY <1>3, <1>8, <1>9, <2>1, <3>1, PromotedText DEF Left
  <2>2. CASE ~WasDefault(base, id)
    <3>1. Sound(m) /\ Says(m, w)
      BY <1>1, <1>3, <2>2, MarkedSays
    <3> QED
      BY <1>3, <1>8, <1>9, <2>2, <3>1, SameText DEF Left
  <2> QED
    BY <2>1, <2>2
<1>13. Promises(Text(base), Text(Marked(e.list, e)))
  BY <1>1, <1>8, <1>12 DEF Promises
<1> QED
  BY <1>1, <1>3, <1>10, <1>11, <1>13 DEF Allows, Leads, e

LEMMA ImportAllowed ==
    ASSUME inPlace, NEW base, NEW r \in Requests, NEW op, op.list \in Imports
    PROVE  Allows(base, ImportVersions(r, op), r)
<1> DEFINE e == ImportVersions(r, op)
           named == Named(op.list)
           maker == <<r, "new">>
           list == Made(named, maker)
<1>1. e.list = list /\ e.off = {} /\ e.on = FirstIfNone(list)
  BY EditIs DEF ImportVersions
<1>2. named \in Seq(Item) /\ Single(named) /\ maker \in Maker
  BY NamedIs DEF Single, Maker
<1> HIDE DEF e, named, maker
<1>3. /\ Sound(list) /\ Text(list) = named /\ Len(list) = Len(named)
      /\ \A k \in 1..Len(named) : list[k].maker = maker /\ list[k].at = k
  BY <1>2, MadeIs
<1> HIDE DEF list
<1>4. Apart(list)
  BY <1>3 DEF Apart
<1>5. Makes(base, e, r)
  BY <1>1, <1>3 DEF Makes, maker
<1>6. Text(Marked(list, e)) = Led(named)
  BY <1>1, <1>3, <1>4, LedText
<1>7. Promises(Text(base), Text(Marked(e.list, e)))
  BY <1>1, <1>6 DEF Promises, named
<1> QED
  BY <1>1, <1>3, <1>4, <1>5, <1>7 DEF Allows, Leads, e

LEMMA GoodLed ==
    ASSUME NEW text \in Seq(Item), Good(text)
    PROVE  Led(text) = text
<1> DEFINE p == Promoted(text)
<1>1. p \in Seq(Item) /\ Leading(p, text)
  BY PromotedIs
<1>2. text = <<>> => p = text
  BY <1>1, ListIs DEF Leading
<1> QED
  BY <1>2 DEF Good, Led

LEMMA KeepAllowed ==
    ASSUME NEW base, Sound(base), Apart(base), Good(Text(base)), NEW r
    PROVE  Allows(base, KeepVersions(base), r)
<1> DEFINE e == KeepVersions(base)
<1>1. e.list = base /\ e.off = {} /\ e.on = FirstIfNone(base)
  BY EditIs DEF KeepVersions
<1> HIDE DEF e
<1>2. Text(Marked(base, e)) = Led(Text(base))
  BY <1>1, LedText
<1>3. Led(Text(base)) = Text(base)
  BY TextSays, GoodLed
<1>4. Makes(base, e, r)
  BY <1>1 DEF Makes
<1> QED
  BY <1>1, <1>2, <1>3, <1>4 DEF Allows, Leads, e

LEMMA EditAllowed ==
    ASSUME inPlace \in BOOLEAN, NEW base, Sound(base), Apart(base), Good(Text(base)),
           NEW r \in Requests, Unmade(r, base),
           NEW op \in Asked, op.kind \notin {"read", "clear"}, ~Refused(base, op),
           op.kind = "choose" => op.id \in IdsOf(base)
    PROVE  Allows(base, Edited(base, r, op), r)
<1>1. CASE op.kind = "save"
  <2> DEFINE list == Placed(base, New(r, op, FALSE))
             e == Edit(list, {}, FirstIfNone(list))
  <2>1. Edited(base, r, op) = SaveVersion(base, r, op) \/ Edited(base, r, op) = SaveTier(base, r, op)
    BY <1>1 DEF Edited
  <2>2. (op.kind = "saveDefault") = FALSE
    BY <1>1
  <2>3. SaveVersion(base, r, op) = e
    BY <2>2 DEF SaveVersion
  <2>4. SaveTier(base, r, op) = e
    BY <1>1 DEF SaveTier
  <2>5. e.list = list /\ e.off = {} /\ e.on = FirstIfNone(list)
    <3> HIDE DEF list
    <3> QED
      BY EditIs
  <2>8. op.id \in Ids
    BY <1>1, OperationIs
  <2>6. Edited(base, r, op) = e
    BY <2>1, <2>3, <2>4
  <2> HIDE DEF e
  <2>7. Allows(base, e, r)
    BY <2>5, <2>8, SaveAllowed
  <2> QED
    BY <2>6, <2>7
<1>2. CASE op.kind = "saveDefault" /\ inPlace
  <2> DEFINE list == Placed(base, New(r, op, TRUE))
             e == Edit(list, Objects(base), FirstIfNone(list))
  <2>1. (op.kind = "saveDefault") = TRUE
    BY <1>2
  <2>2. Edited(base, r, op) = SaveVersion(base, r, op)
    BY <1>2 DEF Edited
  <2>3. SaveVersion(base, r, op) = e
    BY <2>1 DEF SaveVersion
  <2>4. e.list = list /\ e.off = Objects(base) /\ e.on = FirstIfNone(list)
    <3> HIDE DEF list
    <3> QED
      BY EditIs
  <2>6. op.id \in Ids
    BY <1>2, OperationIs
  <2> HIDE DEF e
  <2>5. Allows(base, e, r)
    BY <2>4, <2>6, SaveDefaultVersionAllowed
  <2> QED
    BY <2>2, <2>3, <2>5
<1>3. CASE op.kind = "saveDefault" /\ ~inPlace
  <2> DEFINE list == Anew(Placed(base, New(r, op, FALSE)), op.id, r)
             e == Edit(list, {}, {})
  <2>1. Edited(base, r, op) = e
    BY <1>3 DEF Edited, SaveTier
  <2>2. e.list = list /\ e.off = {} /\ e.on = {}
    <3> HIDE DEF list
    <3> QED
      BY EditIs
  <2>4. op.id \in Ids
    BY <1>3, OperationIs
  <2> HIDE DEF e
  <2>3. Allows(base, e, r)
    BY <1>3, <2>2, <2>4, SaveDefaultTierAllowed
  <2> QED
    BY <2>1, <2>3
<1>4. CASE op.kind = "choose" /\ inPlace
  <2>1. Edited(base, r, op) = ChooseVersion(base, op) /\ op.id \in Ids
    BY <1>4, OperationIs DEF Edited
  <2> QED
    BY <1>4, <2>1, ChooseVersionAllowed
<1>5. CASE op.kind = "choose" /\ ~inPlace
  <2> DEFINE e == Edit(Anew(base, op.id, r), {}, {})
  <2>1. Edited(base, r, op) = e
    BY <1>5 DEF Edited, ChooseTier
  <2>2. e.list = Anew(base, op.id, r) /\ e.off = {} /\ e.on = {}
    BY EditIs
  <2>4. op.id \in Ids
    BY <1>5, OperationIs
  <2> HIDE DEF e
  <2>3. Allows(base, e, r)
    BY <1>5, <2>2, <2>4, ChooseTierAllowed
  <2> QED
    BY <2>1, <2>3
<1>6. CASE op.kind = "remove"
  <2>1. Edited(base, r, op) = Remove(base, op) /\ op.id \in Ids /\ op.id \in IdsOf(base)
    BY <1>6, OperationIs DEF Edited, Refused
  <2> QED
    BY <2>1, RemoveAllowed
<1>7. CASE op.kind = "import"
  <2>1. Edited(base, r, op) = ImportVersions(r, op) /\ op.list \in Imports /\ inPlace
    BY <1>7, OperationIs DEF Edited
  <2> QED
    BY <2>1, ImportAllowed
<1>8. CASE op.kind = "keep"
  <2>1. Edited(base, r, op) = KeepVersions(base)
    BY <1>8 DEF Edited
  <2> QED
    BY <2>1, KeepAllowed
<1> QED
  BY <1>1, <1>2, <1>3, <1>4, <1>5, <1>6, <1>7, <1>8, OperationIs

-------------------------------------------------------------------------------
(* Requests that neither overlap nor fail: what is stored, and what a request writes. *)

\* A request that has its edit still to make has made no object yet.
Waits(q) == q.step \in {"idle", "read", "answered"} \/ (q.step \in Saving /\ q.restores)
Fresh ==
    \A r \in Requests : Waits(req[r]) =>
        /\ Unmade(r, shipped) /\ Unmade(r, cache.list)
        /\ \A s \in Requests : Unmade(r, req[s].list)
Whole ==
    /\ Apart(shipped) /\ Apart(cache.list)
    /\ \A r \in Requests : Apart(req[r].list)

\* Undisturbed, what is stored has the default it should have, and a request writes what
\* the promise allows after it; the shipped list is as it was until it is written.
Keeps(q) ==
    /\ Waits(q) /\ q.step # "idle" /\ q.op.kind = "choose" => q.op.id \in IdsOf(Value)
    /\ q.step \in {"check", "write"} =>
          IF q.restores THEN stored = None ELSE Leads(Value, q.text)
Faithful ==
    calm =>
        /\ stored = None => shipped = ShippedList(inPlace)
        /\ Good(Value)
        /\ \A r \in Requests : Keeps(req[r])
        /\ Fresh /\ Whole

LEMMA ValueIs ==
    ASSUME Inv
    PROVE  /\ Value \in Seq(Item) /\ Single(Value)
           /\ stored # None => Value = stored
           /\ \A list : Sound(list) => Text(list) # None
<1>1. CASE stored = None
  <2>1. Sound(ShippedList(inPlace))
    BY ShippedIs DEF Inv, Fixed
  <2> QED
    BY <1>1, <2>1, TextIs, NoneAssumption DEF Value, Item
<1>2. CASE stored # None
  <2>1. Value = stored /\ Stored(stored)
    BY <1>2 DEF Value, Inv, Listed
  <2>2. \A list : Sound(list) => Text(list) # None
    BY TextIs, NoneAssumption DEF Item
  <2> QED
    BY <2>1, <2>2 DEF Stored
<1> QED
  BY <1>1, <1>2

\* A request alone leaves the others idle or done.
LEMMA Alone ==
    ASSUME NEW r \in Requests, NEW s \in Requests, s # r, \A x \in Under : x = r,
           Follows(req'[s], req[s])
    PROVE  /\ req'[s].step = req[s].step /\ req[s].step \in {"idle", "done"}
           /\ req'[s].restores = req[s].restores
           /\ Waits(req'[s]) <=> Waits(req[s])
BY DEF Under, Follows, Waits

\* An entry made by no one but r is left unmade by the others.
LEMMA StaysUnmade ==
    ASSUME NEW list, Sound(list), NEW e, NEW r
    PROVE  Unmade(r, Marked(list, e)) <=> Unmade(r, list)
<1> DEFINE m == Marked(list, e)
<1>1. /\ Len(m) = Len(list)
      /\ \A k \in 1..Len(list) : m[k].maker = list[k].maker
  BY MarkedIs
<1> HIDE DEF m
<1>2. Unmade(r, m) <=> Unmade(r, list)
  BY <1>1 DEF Unmade
<1> QED
  BY <1>2 DEF m


LEMMA StaysApart ==
    ASSUME NEW list, Sound(list), NEW e
    PROVE  Apart(Marked(list, e)) <=> Apart(list)
<1> DEFINE m == Marked(list, e)
<1>1. /\ Len(m) = Len(list)
      /\ \A k \in 1..Len(list) : m[k].maker = list[k].maker /\ m[k].at = list[k].at
  BY MarkedIs
<1> HIDE DEF m
<1>2. Apart(m) <=> Apart(list)
  BY <1>1 DEF Apart
<1> QED
  BY <1>2 DEF m

LEMMA MadeByOne ==
    ASSUME NEW base, NEW e, Sound(e.list), NEW r \in Requests, Makes(base, e, r),
           NEW s \in Requests, s # r, Unmade(s, base)
    PROVE  Unmade(s, Marked(e.list, e))
<1>1. Unmade(s, e.list)
  <2>1. <<r, "new">> # <<s, "new">>
    OBVIOUS
  <2> QED
    BY <2>1 DEF Makes, Unmade
<1> QED
  BY <1>1, StaysUnmade


\* A request alone moves on: what is left to show is about its own part.
LEMMA FollowFaithful ==
    ASSUME Inv, Faithful, calm, UNCHANGED <<calm, inPlace>>, NEW r \in Requests,
           \A s \in Under : s = r,
           \A s \in Requests \ {r} : Follows(req'[s], req[s]),
           stored' = None => shipped' = ShippedList(inPlace),
           Good(Value'), Whole',
           Waits(req'[r]) => Waits(req[r]),
           Waits(req'[r]) /\ req'[r].op.kind = "choose" => req'[r].op.id \in IdsOf(Value'),
           req'[r].step \in {"check", "write"} =>
              IF req'[r].restores THEN stored' = None ELSE Leads(Value', req'[r].text),
           \A s \in Requests : Waits(req[s]) /\ Waits(req'[s]) =>
              /\ Unmade(s, shipped') /\ Unmade(s, cache'.list)
              /\ \A x \in Requests : Unmade(s, req'[x].list)
    PROVE  Faithful'
<1>1. ASSUME NEW s \in Requests, s # r
      PROVE  /\ req'[s].step \in {"idle", "done"}
             /\ Waits(req'[s]) <=> Waits(req[s])
             /\ Waits(req'[s]) => req'[s].step = "idle"
  BY <1>1, Alone DEF Waits, Saving
<1>2. ASSUME NEW s \in Requests
      PROVE  /\ Waits(req'[s]) /\ req'[s].step # "idle" /\ req'[s].op.kind = "choose" =>
                   req'[s].op.id \in IdsOf(Value')
             /\ req'[s].step \in {"check", "write"} =>
                   IF req'[s].restores THEN stored' = None ELSE Leads(Value', req'[s].text)
  <2>1. CASE s = r
    BY <2>1
  <2>2. CASE s # r
    BY <1>1, <2>2
  <2> QED
    BY <2>1, <2>2
<1>4. Good(Value)'
  BY DEF Good
<1>5. ASSUME NEW s \in Requests, req'[s].step \in {"check", "write"}, ~req'[s].restores
      PROVE  Leads(Value, req[s].text)'
  <2>1. Leads(Value', req'[s].text)
    BY <1>2, <1>5
  <2> QED
    BY <2>1 DEF Leads, Promises
<1>3. ASSUME NEW s \in Requests, Waits(req'[s])
      PROVE  /\ Unmade(s, shipped') /\ Unmade(s, cache'.list)
             /\ \A x \in Requests : Unmade(s, req'[x].list)
  <2>1. Waits(req[s])
    BY <1>1, <1>3
  <2> QED
    BY <1>3, <2>1
<1> QED
  BY <1>2, <1>3, <1>4, <1>5 DEF Faithful, Keeps, Fresh

LEMMA WithListFaithful ==
    ASSUME Inv, Faithful, calm, NEW r \in Requests, NEW q \in Request, NEW c \in Cache,
           q.op.kind # "clear", Sound(c.list), Filled(c.list), c.isShipped => c.list = shipped,
           UNCHANGED <<calm, inPlace, stored>>, WithList(r, q, c),
           \A s \in Under : s = r, stored = Text(c.list), Waits(req[r]), Apart(c.list),
           \A s \in Requests : Waits(req[s]) => Unmade(s, c.list),
           q.op.kind = "choose" => q.op.id \in IdsOf(Value)
    PROVE  Faithful'
<1>1. /\ stored # None /\ Value = stored /\ inPlace \in BOOLEAN
      /\ Value' = Value /\ stored' # None
  BY ValueIs DEF Inv, Fixed, Value
<1>2. ASSUME NEW s \in Requests
      PROVE  Sound(req[s].list)
  <2>1. Sound(<<>>)
    BY DEF Sound, Single, Distinct
  <2> QED
    BY <2>1 DEF Inv, Carried, Carries
<1>3. Sound(shipped)
  BY DEF Inv, Listed
<1>4. Good(Value) /\ Whole
  BY DEF Faithful
<1>5. ASSUME NEW s \in Requests, Waits(req[s])
      PROVE  /\ Unmade(s, shipped) /\ Unmade(s, c.list)
             /\ \A x \in Requests : Unmade(s, req[x].list)
  BY <1>5 DEF Faithful, Fresh
<1>6. CASE Ends(r, q, c)
  <2>1. /\ req'[r] = Done /\ cache' = c /\ shipped' = shipped
        /\ \A s \in Requests \ {r} : req'[s] = req[s]
    BY <1>6, EndsKeeps DEF Ends, Inv
  <2>2. /\ req'[r].step = "done" /\ ~Waits(req'[r]) /\ req'[r].list = <<>>
    BY <2>1, IdleIs DEF Waits, Saving
  <2>3. \A s \in Requests : Unmade(s, <<>>)
    BY DEF Unmade
  <2>4. ASSUME NEW s \in Requests, Waits(req[s])
        PROVE  /\ Unmade(s, shipped') /\ Unmade(s, cache'.list)
               /\ \A x \in Requests : Unmade(s, req'[x].list)
    BY <1>5, <2>1, <2>2, <2>3, <2>4
  <2>5. \A s \in Requests \ {r} : Follows(req'[s], req[s])
    BY <2>1 DEF Follows
  <2>6. Apart(<<>>)
    BY DEF Apart
  <2>7. Whole'
    BY <1>4, <2>1, <2>2, <2>6 DEF Whole
  <2> QED
    BY <1>1, <1>4, <2>2, <2>4, <2>5, <2>7, FollowFaithful
<1>7. ASSUME NEW e, NEW new, Turns(r, q, c, e, new)
      PROVE  Faithful'
  <2>1. /\ Listed' /\ Carried'
        /\ req'[r] = Saves(q, new, FALSE) /\ Sound(new)
        /\ \A s \in Requests \ {r} :
              /\ req'[s] = [req[s] EXCEPT !.list = Marked(req[s].list, e)]
              /\ req'[s].step = req[s].step
    BY <1>7, TurnsKeeps DEF Inv
  <2>2. /\ q.op \in Asked /\ q.op.kind \notin {"read", "clear"} /\ ~Refused(c.list, q.op)
        /\ e = Edited(c.list, r, q.op) /\ new = Marked(e.list, e)
    BY <1>7 DEF Turns, Request
  <2>3. q.op.kind = "choose" => q.op.id \in IdsOf(c.list)
    <3>1. Alike(c.list, Text(c.list))
      BY TextSays, SaysAlike DEF Sound
    <3> QED
      BY <1>1, <3>1 DEF Alike
  <2>4. Allows(c.list, e, r)
    <3>1. Allows(c.list, Edited(c.list, r, q.op), r)
      BY <1>1, <1>4, <1>5, <2>2, <2>3, EditAllowed
    <3> QED
      BY <2>2, <3>1
  <2>5. Leads(Value, Text(new)) /\ Sound(e.list) /\ Apart(e.list) /\ Makes(c.list, e, r)
    BY <1>1, <2>2, <2>4 DEF Allows
  <2>6. /\ req'[r].step = "check" /\ req'[r].text = Text(new) /\ req'[r].restores = FALSE
        /\ req'[r].list = new
    <3> DEFINE text == Text(new)
               p == Saves(q, new, FALSE)
    <3>1. p = [q EXCEPT !.step = "check", !.restores = FALSE, !.list = new, !.text = text]
      BY DEF Saves
    <3> HIDE DEF p, text
    <3>2. p.step = "check" /\ p.text = text /\ p.restores = FALSE /\ p.list = new
      BY <3>1 DEF Request
    <3> QED
      BY <2>1, <3>2 DEF p, text
  <2>7. ~Waits(req'[r])
    BY <2>6 DEF Waits, Saving
  <2>8. ASSUME NEW s \in Requests \ {r}
        PROVE  /\ Follows(req'[s], req[s]) /\ req'[s].list = Marked(req[s].list, e)
    <3>1. req[s] \in Request
      BY DEF Inv, Carried
    <3> DEFINE list == Marked(req[s].list, e)
    <3>2. req'[s] = [req[s] EXCEPT !.list = list]
      BY <2>1
    <3> HIDE DEF list
    <3>3. req'[s].list = list
      BY <3>1, <3>2 DEF Request
    <3>4. Follows(req'[s], req[s])
      BY <3>1, <3>2 DEF Request, Follows
    <3> QED
      BY <3>3, <3>4 DEF list
  <2>9. ASSUME NEW s \in Requests, Waits(req[s]), Waits(req'[s])
        PROVE  /\ Unmade(s, shipped') /\ Unmade(s, cache'.list)
               /\ \A x \in Requests : Unmade(s, req'[x].list)
    <3>1. s # r
      BY <2>7, <2>9
    <3>2. Unmade(s, new)
      BY <1>5, <2>2, <2>5, <2>9, <3>1, MadeByOne
    <3>3. /\ Unmade(s, Marked(shipped, e)) /\ Unmade(s, Marked(c.list, e))
      BY <1>3, <1>5, <2>9, StaysUnmade
    <3>4. ASSUME NEW x \in Requests
          PROVE  Unmade(s, req'[x].list)
      <4>1. CASE x = r
        BY <2>6, <3>2, <4>1
      <4>2. CASE x # r
        <5>1. Unmade(s, Marked(req[x].list, e))
          BY <1>2, <1>5, <2>9, StaysUnmade
        <5> QED
          BY <2>8, <4>2, <5>1
      <4> QED
        BY <4>1, <4>2
    <3>5. shipped' = new \/ shipped' = Marked(shipped, e)
      BY <1>7 DEF Turns
    <3>6. cache'.list = new \/ cache'.list = Marked(c.list, e)
      BY <1>7 DEF Turns, Cache
    <3> QED
      BY <3>2, <3>3, <3>4, <3>5, <3>6
  <2>10. Whole'
    <3>1. Apart(new)
      BY <2>2, <2>5, StaysApart
    <3>2. /\ Apart(Marked(shipped, e)) /\ Apart(Marked(c.list, e))
          /\ \A x \in Requests : Apart(Marked(req[x].list, e))
      BY <1>2, <1>3, <1>4, StaysApart DEF Whole
    <3>3. shipped' = new \/ shipped' = Marked(shipped, e)
      BY <1>7 DEF Turns
    <3>4. cache'.list = new \/ cache'.list = Marked(c.list, e)
      BY <1>7 DEF Turns, Cache
    <3> QED
      BY <2>6, <2>8, <3>1, <3>2, <3>3, <3>4 DEF Whole
  <2> QED
    BY <1>1, <1>4, <2>5, <2>6, <2>7, <2>8, <2>9, <2>10, FollowFaithful
<1> QED
  BY <1>6, <1>7, WithListIs

\* A step that leaves the lists and what is stored alone.
LEMMA MovesFaithful ==
    ASSUME Inv, Faithful, calm, UNCHANGED <<calm, inPlace, stored, shipped>>,
           cache'.list = cache.list, NEW r \in Requests, NEW p, Goes(r, p),
           \A s \in Under : s = r, Waits(p) => Waits(req[r]),
           p.list \in {<<>>, shipped, req[r].list},
           Waits(p) /\ p.op.kind = "choose" => p.op.id \in IdsOf(Value),
           p.step \in {"check", "write"} =>
              IF p.restores THEN stored = None ELSE Leads(Value, p.text)
    PROVE  Faithful'
<1>1. /\ req'[r] = p
      /\ \A s \in Requests \ {r} : req'[s] = req[s]
  BY DEF Goes, Inv, Carried
<1>2. \A s \in Requests \ {r} : Follows(req'[s], req[s])
  BY <1>1 DEF Follows
<1>3. Value' = Value
  BY DEF Value
<1>4. /\ stored' = None => shipped' = ShippedList(inPlace)
      /\ Good(Value')
  BY <1>3 DEF Faithful
<1>7. Whole'
  <2>1. Apart(<<>>)
    BY DEF Apart
  <2> QED
    BY <1>1, <2>1 DEF Whole, Faithful
<1>5. \A s \in Requests : Unmade(s, <<>>)
  BY DEF Unmade
<1>6. ASSUME NEW s \in Requests, Waits(req[s])
      PROVE  /\ Unmade(s, shipped') /\ Unmade(s, cache'.list)
             /\ \A x \in Requests : Unmade(s, req'[x].list)
  <2>1. /\ Unmade(s, shipped) /\ Unmade(s, cache.list)
        /\ \A x \in Requests : Unmade(s, req[x].list)
    BY <1>6 DEF Faithful, Fresh
  <2> QED
    BY <1>1, <1>5, <2>1
<1> QED
  BY <1>1, <1>2, <1>3, <1>4, <1>6, <1>7, FollowFaithful

LEMMA BeginFaithful ==
    ASSUME Inv, Faithful, calm, NEW r \in Requests, NEW op \in Asked, Begin(r, op)
    PROVE  Faithful'
<1> DEFINE q == [Idle EXCEPT !.op = op, !.known = (stored # None)]
           reads == [q EXCEPT !.step = "read"]
<1>1. /\ q \in Request /\ q.step = "idle" /\ q.op = op /\ q.list = <<>>
  <2>1. (stored # None) \in BOOLEAN
    OBVIOUS
  <2> QED
    BY <2>1, IdleIs DEF Request, Idle
<1>2. /\ UNCHANGED <<calm, inPlace, stored, faults>> /\ req[r].step = "idle" /\ Under = {}
      /\ \/ op.kind # "clear" /\ cache.fresh /\ WithList(r, q, cache)
         \/ /\ op.kind # "clear" /\ Goes(r, reads)
            /\ cache' = [cache EXCEPT !.fresh = FALSE] /\ UNCHANGED shipped
         \/ op.kind = "clear" /\ Goes(r, Saves(q, <<>>, FALSE)) /\ UNCHANGED <<cache, shipped>>
  BY DEF Begin
<1>3. op.kind = "choose" => op.id \in IdsOf(Value)
  <2> DEFINE list == ShippedList(inPlace)
  <2>1. Sound(list)
    BY ShippedIs DEF Inv, Fixed
  <2> HIDE DEF list
  <2>2. Alike(list, Text(list))
    BY <2>1, TextSays, SaysAlike DEF Sound
  <2>3. IdsOf(list) = IdsOf(Text(list))
    BY <2>2 DEF Alike
  <2>4. op.kind = "choose" => op.id \in IF stored = None THEN IdsOf(list) ELSE IdsOf(stored)
    BY DEF Begin, list
  <2> QED
    BY <2>3, <2>4 DEF Value, list
<1>4. Waits(req[r])
  BY <1>2 DEF Waits
<1> HIDE DEF q
<1>5. CASE op.kind # "clear" /\ cache.fresh /\ WithList(r, q, cache)
  <2>1. /\ cache \in Cache /\ Sound(cache.list) /\ Filled(cache.list)
        /\ cache.isShipped => cache.list = shipped
    BY <1>5 DEF Inv, Listed
  <2>2. stored = Text(cache.list)
    BY <1>2, <1>5 DEF Inv, Undisturbed
  <2>3. Apart(cache.list) /\ \A s \in Requests : Waits(req[s]) => Unmade(s, cache.list)
    BY DEF Faithful, Fresh, Whole
  <2> QED
    BY <1>1, <1>2, <1>3, <1>4, <1>5, <2>1, <2>2, <2>3, WithListFaithful
<1>6. CASE /\ op.kind # "clear" /\ Goes(r, reads)
           /\ cache' = [cache EXCEPT !.fresh = FALSE] /\ UNCHANGED shipped
  <2>1. /\ reads.step = "read" /\ reads.op = op /\ reads.list = <<>>
    BY <1>1 DEF Request
  <2>2. cache'.list = cache.list
    BY <1>6 DEF Inv, Listed, Cache
  <2> HIDE DEF reads
  <2> QED
    BY <1>2, <1>3, <1>4, <1>6, <2>1, <2>2, MovesFaithful
<1>7. CASE op.kind = "clear" /\ Goes(r, Saves(q, <<>>, FALSE)) /\ UNCHANGED <<cache, shipped>>
  <2> DEFINE p == Saves(q, <<>>, FALSE)
  <2>1. p.step = "check" /\ p.text = Text(<<>>) /\ p.restores = FALSE /\ p.list = <<>>
    <3> DEFINE text == Text(<<>>)
    <3>1. p = [q EXCEPT !.step = "check", !.restores = FALSE, !.list = <<>>, !.text = text]
      BY DEF Saves
    <3> HIDE DEF p, text
    <3>2. p.step = "check" /\ p.text = text /\ p.restores = FALSE /\ p.list = <<>>
      BY <1>1, <3>1 DEF Request
    <3> QED
      BY <3>2 DEF text
  <2> HIDE DEF p
  <2>3. Leads(Value, Text(<<>>))
    <3>1. Text(<<>>) = <<>> /\ inPlace
      BY <1>7, OperationIs DEF Text
    <3> QED
      BY <3>1 DEF Leads, Promises
  <2>4. ~Waits(p)
    BY <2>1 DEF Waits, Saving
  <2>5. Goes(r, p)
    BY <1>7 DEF p
  <2> QED
    BY <1>2, <1>7, <2>1, <2>3, <2>4, <2>5, MovesFaithful
<1> QED
  BY <1>2, <1>5, <1>6, <1>7

LEMMA ServeReadFaithful ==
    ASSUME Inv, Faithful, calm, NEW r \in Requests, ServeRead(r)
    PROVE  Faithful'
<1> DEFINE p == [req[r] EXCEPT !.step = "answered", !.got = stored]
<1>1. /\ UNCHANGED <<calm, inPlace, stored, shipped, cache>> /\ req[r].step = "read"
      /\ Goes(r, p) /\ req[r] \in Request
  BY DEF ServeRead, Fault, Inv, Carried
<1>2. p.step = "answered" /\ p.op = req[r].op /\ p.list = req[r].list
  BY <1>1 DEF Request
<1> HIDE DEF p
<1>3. Waits(req[r]) /\ (req[r].op.kind = "choose" => req[r].op.id \in IdsOf(Value))
  BY <1>1 DEF Faithful, Keeps, Waits
<1>4. \A s \in Under : s = r
  BY <1>1 DEF Inv, Undisturbed, Under
<1> QED
  BY <1>1, <1>2, <1>3, <1>4, MovesFaithful

LEMMA ReadFaithful ==
    ASSUME Inv, Faithful, calm, NEW r \in Requests, Read(r)
    PROVE  Faithful'
<1> DEFINE got == req[r].got
           q == [req[r] EXCEPT !.got = None]
           c == [list |-> Parsed(got, r), fresh |-> TRUE, isShipped |-> FALSE]
<1>1. /\ UNCHANGED <<calm, inPlace, stored, faults>> /\ req[r].step = "answered"
      /\ req[r] \in Request /\ Carries(req[r]) /\ req[r].op.kind # "clear"
      /\ got = None \/ Stored(got)
  BY DEF Read, Inv, Carried, Carries
<1>2. \/ Initialized(got) /\ WithList(r, q, c)
      \/ ~Initialized(got) /\ Goes(r, Saves(q, shipped, TRUE)) /\ UNCHANGED <<cache, shipped>>
  BY DEF Read
<1>3. q \in Request /\ q.op = req[r].op
  BY <1>1 DEF Request
<1>4. (\A s \in Under : s = r) /\ got = stored
  BY <1>1 DEF Inv, Undisturbed, Under, Sees
<1>5. Waits(req[r]) /\ (req[r].op.kind = "choose" => req[r].op.id \in IdsOf(Value))
  BY <1>1 DEF Faithful, Keeps, Waits
<1> HIDE DEF q, got
<1>6. CASE Initialized(got) /\ WithList(r, q, c)
  <2>1. Stored(got)
    BY <1>1, <1>6 DEF Initialized
  <2>2. /\ Sound(Parsed(got, r)) /\ Filled(Parsed(got, r)) /\ Text(Parsed(got, r)) = got
        /\ Len(Parsed(got, r)) = Len(got)
        /\ \A k \in 1..Len(got) :
              Parsed(got, r)[k].maker = <<r, "read">> /\ Parsed(got, r)[k].at = k
    BY <2>1, ParsedIs DEF Stored
  <2>5. Apart(Parsed(got, r))
    BY <2>2 DEF Apart
  <2>3. c \in Cache /\ c.list = Parsed(got, r) /\ ~c.isShipped
    BY <2>2 DEF Cache, Sound
  <2>4. \A s \in Requests : Unmade(s, c.list)
    <3>1. \A s \in Requests : <<r, "read">> # <<s, "new">>
      OBVIOUS
    <3> DEFINE parsed == Parsed(got, r)
    <3> HIDE DEF c, parsed
    <3>2. \A k \in 1..Len(parsed) : parsed[k].maker = <<r, "read">>
      BY <2>2 DEF parsed
    <3>3. \A s \in Requests : Unmade(s, parsed)
      BY <3>1, <3>2 DEF Unmade
    <3> QED
      BY <2>3, <3>3 DEF parsed
  <2> HIDE DEF c
  <2> QED
    BY <1>1, <1>3, <1>4, <1>5, <1>6, <2>2, <2>3, <2>4, <2>5, WithListFaithful
<1>7. CASE ~Initialized(got) /\ Goes(r, Saves(q, shipped, TRUE)) /\ UNCHANGED <<cache, shipped>>
  <2> DEFINE p == Saves(q, shipped, TRUE)
  <2>1. p.step = "check" /\ p.restores = TRUE /\ p.list = shipped /\ p.op = q.op
    <3> DEFINE text == Text(shipped)
    <3>1. p = [q EXCEPT !.step = "check", !.restores = TRUE, !.list = shipped, !.text = text]
      BY DEF Saves
    <3> HIDE DEF p, text
    <3> QED
      BY <1>3, <3>1 DEF Request
  <2> HIDE DEF p
  <2>2. stored = None
    <3>1. Stored(got) => Initialized(got) \/ got = None
      BY ListIs DEF Stored, Filled, Initialized
    <3> QED
      BY <1>1, <1>4, <1>7, <3>1
  <2>3. Goes(r, p)
    BY <1>7 DEF p
  <2> QED
    BY <1>1, <1>3, <1>4, <1>5, <1>7, <2>1, <2>2, <2>3, MovesFaithful
<1> QED
  BY <1>2, <1>6, <1>7

LEMMA ServeCheckFaithful ==
    ASSUME Inv, Faithful, calm, NEW r \in Requests, ServeCheck(r)
    PROVE  Faithful'
<1>1. /\ UNCHANGED <<calm, inPlace, stored, shipped, cache>> /\ req[r].step = "check"
      /\ req[r] \in Request
  BY DEF ServeCheck, Inv, Carried
<1>2. PICK put \in BOOLEAN :
         Goes(r, [req[r] EXCEPT !.step = "write", !.put = put, !.thrown = FALSE])
  <2>1. (stored # None) \in BOOLEAN
    OBVIOUS
  <2> QED
    BY <2>1 DEF ServeCheck, Fault
<1> DEFINE p == [req[r] EXCEPT !.step = "write", !.put = put, !.thrown = FALSE]
<1>3. /\ p.step = "write" /\ p.op = req[r].op /\ p.list = req[r].list
      /\ p.restores = req[r].restores /\ p.text = req[r].text
  BY <1>1 DEF Request
<1>4. Goes(r, p)
  BY <1>2
<1> HIDE DEF p
<1>5. Waits(p) <=> Waits(req[r])
  BY <1>1, <1>3 DEF Waits, Saving
<1>6. /\ Waits(req[r]) /\ req[r].op.kind = "choose" => req[r].op.id \in IdsOf(Value)
      /\ IF req[r].restores THEN stored = None ELSE Leads(Value, req[r].text)
  BY <1>1 DEF Faithful, Keeps
<1>7. \A s \in Under : s = r
  BY <1>1 DEF Inv, Undisturbed, Under
<1> QED
  BY <1>1, <1>3, <1>4, <1>5, <1>6, <1>7, MovesFaithful

LEMMA RestoredFaithful ==
    ASSUME Inv, Faithful, calm, NEW r \in Requests, Restored(r)
    PROVE  Faithful'
<1> DEFINE q == [req[r] EXCEPT !.thrown = FALSE]
           c == [list |-> shipped, fresh |-> req[r].thrown => cache.fresh, isShipped |-> TRUE]
<1>1. /\ UNCHANGED <<calm, inPlace, stored, faults>> /\ req[r].step = "saved" /\ req[r].restores
      /\ req[r] \in Request /\ req[r].op.kind # "clear"
      /\ Sound(shipped) /\ Filled(shipped)
  BY DEF Restored, Inv, Listed, Carried, Carries, Saving
<1>2. WithList(r, q, c)
  BY DEF Restored
<1>3. q \in Request /\ q.op = req[r].op
  BY <1>1 DEF Request
<1>4. c \in Cache /\ c.list = shipped /\ c.isShipped
  <2>1. (req[r].thrown => cache.fresh) \in BOOLEAN /\ shipped \in Seq(Entries)
    BY <1>1 DEF Sound
  <2> QED
    BY <2>1 DEF Cache
<1>5. (\A s \in Under : s = r) /\ stored = Text(shipped)
  BY <1>1 DEF Inv, Undisturbed, Under, Sees, Saving
<1>6. Waits(req[r]) /\ (req[r].op.kind = "choose" => req[r].op.id \in IdsOf(Value))
  BY <1>1 DEF Faithful, Keeps, Waits, Saving
<1>7. Apart(shipped) /\ \A s \in Requests : Waits(req[s]) => Unmade(s, shipped)
  BY DEF Faithful, Fresh, Whole
<1> HIDE DEF q, c
<1> QED
  BY <1>1, <1>2, <1>3, <1>4, <1>5, <1>6, <1>7, WithListFaithful

LEMMA SavedFaithful ==
    ASSUME Inv, Faithful, calm, NEW r \in Requests, Saved(r)
    PROVE  Faithful'
<1>1. /\ UNCHANGED <<calm, inPlace, stored, shipped, faults>> /\ req[r].step = "saved"
      /\ ~req[r].restores /\ Goes(r, Done)
      /\ cache'.list = cache.list \/ cache'.list = req[r].list
  BY DEF Saved
<1>2. /\ req'[r] = Done /\ \A s \in Requests \ {r} : req'[s] = req[s]
  BY <1>1 DEF Goes, Inv, Carried
<1>3. Done.step = "done" /\ Done.list = <<>> /\ ~Waits(Done)
  BY IdleIs DEF Waits, Saving
<1>4. Value' = Value
  BY <1>1 DEF Value
<1>5. \A s \in Under : s = r
  BY <1>1 DEF Inv, Undisturbed, Under
<1>6. ASSUME NEW s \in Requests, Waits(req[s])
      PROVE  /\ Unmade(s, shipped') /\ Unmade(s, cache'.list)
             /\ \A x \in Requests : Unmade(s, req'[x].list)
  <2>1. /\ Unmade(s, shipped) /\ Unmade(s, cache.list)
        /\ \A x \in Requests : Unmade(s, req[x].list)
    BY <1>6 DEF Faithful, Fresh
  <2>2. Unmade(s, <<>>)
    BY DEF Unmade
  <2> QED
    BY <1>1, <1>2, <1>3, <2>1, <2>2
<1>7. /\ stored' = None => shipped' = ShippedList(inPlace)
      /\ Good(Value')
  BY <1>1, <1>4 DEF Faithful
<1>9. Whole'
  <2>1. Apart(<<>>)
    BY DEF Apart
  <2> QED
    BY <1>1, <1>2, <1>3, <2>1 DEF Whole, Faithful
<1>8. \A s \in Requests \ {r} : Follows(req'[s], req[s])
  BY <1>2 DEF Follows
<1> QED
  BY <1>1, <1>2, <1>3, <1>5, <1>6, <1>7, <1>8, <1>9, FollowFaithful

\* The write that gives what is stored its new value: the shipped list, which was its
\* value already, or what the edit makes of it.
LEMMA WriteDoes ==
    ASSUME Inv, Faithful, calm, NEW r \in Requests, ServeWrite(r)
    PROVE  /\ UNCHANGED <<calm, inPlace, shipped, cache>>
           /\ Goes(r, [req[r] EXCEPT !.step = "saved"]) /\ req[r].step = "write"
           /\ stored' = req[r].text /\ stored' # None /\ Value' = stored' /\ Stored(stored')
           /\ req[r].restores => Value' = Value
           /\ ~req[r].restores => Leads(Value, Value')
<1>1. /\ UNCHANGED <<calm, inPlace, shipped, cache>> /\ req[r].step = "write"
      /\ Goes(r, [req[r] EXCEPT !.step = "saved"]) /\ stored' = Applied(req[r])
      /\ Carries(req[r])
  BY DEF ServeWrite, Fault, Inv, Carried
<1>2. /\ req[r].put = (stored # None) /\ req[r].text = Text(req[r].list)
      /\ req[r].restores => req[r].list = shipped
  BY <1>1 DEF Inv, Undisturbed, Sees, Saving
<1>3. Stored(req[r].text) /\ Sound(req[r].list)
  BY <1>1 DEF Carries, Saving
<1>4. stored' = req[r].text
  BY <1>1, <1>2 DEF Applied
<1>5. stored' # None
  BY <1>3, <1>4, NoneAssumption DEF Stored, Item
<1>6. Value' = stored'
  BY <1>5 DEF Value
<1>7. Stored(stored')
  BY <1>3, <1>4
<1>8. IF req[r].restores THEN stored = None ELSE Leads(Value, req[r].text)
  BY <1>1 DEF Faithful, Keeps
<1>9. ASSUME req[r].restores
      PROVE  Value' = Value
  BY <1>2, <1>4, <1>6, <1>8, <1>9 DEF Faithful, Value
<1> QED
  BY <1>1, <1>4, <1>5, <1>6, <1>7, <1>8, <1>9

LEMMA ServeWriteFaithful ==
    ASSUME Inv, Faithful, calm, NEW r \in Requests, ServeWrite(r)
    PROVE  Faithful'
<1> DEFINE p == [req[r] EXCEPT !.step = "saved"]
<1>1. /\ UNCHANGED <<calm, inPlace, shipped, cache>> /\ Goes(r, p) /\ req[r].step = "write"
      /\ stored' = req[r].text /\ stored' # None /\ Value' = stored'
      /\ req[r].restores => Value' = Value
      /\ Stored(stored')
      /\ ~req[r].restores => Leads(Value, Value')
  BY WriteDoes
<1>2. /\ p.step = "saved" /\ p.op = req[r].op /\ p.list = req[r].list
      /\ p.restores = req[r].restores
  BY DEF Inv, Carried, Request
<1> HIDE DEF p
<1>3. req'[r] = p /\ \A s \in Requests \ {r} : req'[s] = req[s]
  BY <1>1 DEF Goes, Inv, Carried
<1>4. \A s \in Under : s = r
  BY <1>1 DEF Inv, Undisturbed, Under
<1>5. Good(Value')
  <2>1. CASE req[r].restores
    BY <1>1, <2>1 DEF Faithful
  <2>2. CASE ~req[r].restores
    <3>1. Value \in Seq(Item) /\ Single(Value) /\ Good(Value)
      BY ValueIs DEF Faithful
    <3> DEFINE i == Value
               j == Value'
    <3>2. i = j \/ Promises(i, j)
      BY <1>1, <2>2 DEF Leads
    <3> HIDE DEF i, j
    <3>3. i \in Seq(Item) /\ Single(i) /\ Good(i)
      BY <3>1 DEF i
    <3>4. Good(j)
      BY <3>2, <3>3, GoodKept
    <3> QED
      BY <3>4 DEF j
  <2> QED
    BY <2>1, <2>2
<1>10. Whole'
  BY <1>1, <1>2, <1>3 DEF Whole, Faithful
<1>6. /\ Waits(p) <=> Waits(req[r])
      /\ Waits(p) => req[r].restores
  BY <1>1, <1>2 DEF Waits, Saving
<1>7. Waits(p) /\ p.op.kind = "choose" => p.op.id \in IdsOf(Value')
  BY <1>1, <1>2, <1>6 DEF Faithful, Keeps
<1>8. ASSUME NEW s \in Requests, Waits(req[s])
      PROVE  /\ Unmade(s, shipped') /\ Unmade(s, cache'.list)
             /\ \A x \in Requests : Unmade(s, req'[x].list)
  <2>1. /\ Unmade(s, shipped) /\ Unmade(s, cache.list)
        /\ \A x \in Requests : Unmade(s, req[x].list)
    BY <1>8 DEF Faithful, Fresh
  <2> QED
    BY <1>1, <1>2, <1>3, <2>1
<1>9. \A s \in Requests \ {r} : Follows(req'[s], req[s])
  BY <1>3 DEF Follows
<1> QED
  BY <1>1, <1>2, <1>3, <1>4, <1>5, <1>6, <1>7, <1>8, <1>9, <1>10, FollowFaithful

LEMMA StartsFaithful == Init => Faithful
<1> SUFFICES ASSUME Init
             PROVE  Faithful
  OBVIOUS
<1>1. /\ inPlace \in BOOLEAN /\ shipped = ShippedList(inPlace) /\ cache = NoCache
      /\ req = [r \in Requests |-> Idle]
  BY DEF Init
<1>2. /\ ShippedText \in Seq(Item) /\ Single(ShippedText)
      /\ 1 \in 1..Len(ShippedText) /\ DOMAIN ShippedText = 1..Len(ShippedText)
      /\ \A k \in 1..Len(ShippedText) : ShippedText[k].isDefault <=> k = 1
  BY ShippedTextIs, ListIs DEF Single
<1>3. <<"shipped">> \in Maker
  BY DEF Maker
<1> DEFINE list == Made(ShippedText, <<"shipped">>)
<1>4. /\ Len(list) = Len(ShippedText)
      /\ \A k \in 1..Len(list) : list[k].maker = <<"shipped">> /\ list[k].at = k
  BY <1>2, <1>3, MadeIs
<1>5. IF inPlace THEN shipped = <<>> ELSE shipped = list
  BY <1>1, ShippedIs
<1> HIDE DEF list
<1>6. Good(Value)
  <2>1. CASE stored # None
    <3>1. /\ stored = <<>> \/ HasDefault(stored)
          /\ inPlace \/ Once(stored)
      BY <2>1, FirstStored, ListIs DEF Stored, Once
    <3> QED
      BY <2>1, <3>1 DEF Value, Good
  <2>2. CASE stored = None /\ inPlace
    <3> DEFINE text == Text(<<>>)
    <3>2. text = <<>>
      BY DEF Text
    <3>3. Value = Text(ShippedList(inPlace)) /\ ShippedList(inPlace) = <<>>
      BY <1>1, <2>2, ShippedIs DEF Value
    <3>1. Value = <<>>
      BY <3>2, <3>3
    <3> QED
      BY <2>2, <3>1 DEF Good
  <2>3. CASE stored = None /\ ~inPlace
    <3>1. Value = ShippedText
      BY <1>1, <2>3, ShippedIs DEF Value
    <3>2. HasDefault(ShippedText)
      BY <1>2 DEF HasDefault
    <3>3. Once(ShippedText)
      BY <1>2 DEF Once
    <3> QED
      BY <3>1, <3>2, <3>3 DEF Good
  <2> QED
    BY <2>1, <2>2, <2>3
<1>7. \A r \in Requests : req[r].step = "idle" /\ req[r].list = <<>>
  BY <1>1, IdleIs
<1>8. cache.list = <<>>
  BY <1>1 DEF NoCache
<1>9. Apart(<<>>) /\ \A r \in Requests : Unmade(r, <<>>)
  BY DEF Unmade, Apart
<1>10. Apart(list) /\ \A r \in Requests : Unmade(r, list)
  <2>1. \A r \in Requests : <<"shipped">> # <<r, "new">>
    OBVIOUS
  <2> QED
    BY <1>4, <2>1 DEF Unmade, Apart
<1>11. Fresh /\ Whole
  BY <1>5, <1>7, <1>8, <1>9, <1>10 DEF Fresh, Whole
<1> QED
  BY <1>1, <1>6, <1>7, <1>11 DEF Faithful, Keeps

LEMMA StepsFaithful == Inv /\ Faithful /\ [Next]_vars => Faithful'
<1> SUFFICES ASSUME Inv, Faithful, [Next]_vars
             PROVE  Faithful'
  OBVIOUS
<1>1. CASE calm
  <2>1. ASSUME NEW r \in Requests, NEW op \in Asked, Begin(r, op)
        PROVE  Faithful'
    BY <1>1, <2>1, BeginFaithful
  <2>2. ASSUME NEW r \in Requests,
               \/ ServeRead(r) \/ Read(r) \/ ServeCheck(r) \/ ServeWrite(r)
               \/ Restored(r) \/ Saved(r)
        PROVE  Faithful'
    BY <1>1, <2>2, ServeReadFaithful, ReadFaithful, ServeCheckFaithful, ServeWriteFaithful,
       RestoredFaithful, SavedFaithful
  <2>3. ~Restart
    BY <1>1 DEF Restart, Fault
  <2>4. CASE UNCHANGED vars
    BY <2>4 DEF vars, Faithful, Keeps, Fresh, Whole, Value, Good, Leads, Promises
  <2> QED
    BY <2>1, <2>2, <2>3, <2>4 DEF Next, Asked
<1>2. CASE ~calm
  <2>1. calm' = calm
    BY DEF Next, vars, Begin, ServeRead, Read, ServeCheck, ServeWrite, Restored, Saved, Restart
  <2> QED
    BY <1>2, <2>1 DEF Faithful
<1> QED
  BY <1>1, <1>2

LEMMA AlwaysFaithful == Spec => [](Inv /\ Faithful)
<1>1. Init => Inv /\ Faithful
  BY Starts, StartsFaithful
<1>2. (Inv /\ Faithful) /\ [Next]_vars => (Inv /\ Faithful)'
  BY Steps, StepsFaithful
<1> QED
  BY <1>1, <1>2, PTL DEF Spec

\* Requests that neither overlap nor fail leave a default in every list that has an
\* entry, whatever is imported, kept or removed, and one default among the tiers.
THEOREM DefaultStays == Spec => []OneDefault
<1>1. Inv /\ Faithful => OneDefault
  <2> SUFFICES ASSUME Inv, Faithful, calm, stored # None, stored # <<>>
               PROVE  /\ HasDefault(stored)
                      /\ ~inPlace => \A i, k \in DOMAIN stored :
                                         stored[i].isDefault /\ stored[k].isDefault => i = k
    BY DEF OneDefault
  <2>1. Good(stored) /\ DOMAIN stored = 1..Len(stored)
    BY ValueIs, ListIs DEF Faithful
  <2> QED
    BY <2>1 DEF Good, Once
<1> QED
  BY <1>1, AlwaysFaithful, PTL

-------------------------------------------------------------------------------
(* The refinement. *)

\* What a calm step does to the value.
LEMMA CalmSteps ==
    ASSUME Inv, Faithful, calm, [Next]_vars
    PROVE  Value' = Value \/ Promises(Value, Value')
<1>1. ASSUME NEW r \in Requests, ServeWrite(r)
      PROVE  Value' = Value \/ Promises(Value, Value')
  <2>1. Value' = Value \/ Leads(Value, Value')
    BY <1>1, WriteDoes
  <2> QED
    BY <2>1 DEF Leads
<1>2. ASSUME ~\E r \in Requests : ServeWrite(r)
      PROVE  UNCHANGED <<stored, inPlace>>
  BY <1>2 DEF Next, vars, Begin, ServeRead, Read, ServeCheck, Restored, Saved, Restart
<1> QED
  BY <1>1, <1>2 DEF Value

\* ChosenDefault's operators on lists are those of the registry.
LEMMA SameOperators ==
    /\ \A l : Promise!IdsOf(l) = IdsOf(l) /\ (Promise!HasDefault(l) <=> HasDefault(l))
    /\ \A l, k, id : Promise!IsFirst(l, k, id) <=> IsFirst(l, k, id)
    /\ \A l, id : Promise!WithoutFirst(l, id) = WithoutFirst(l, id)
    /\ \A id, isDefault : Promise!Plain(id, isDefault) = Plain(id, isDefault)
BY DEF Promise!IdsOf, IdsOf, Promise!HasDefault, HasDefault, Promise!IsFirst, IsFirst,
       Promise!WithoutFirst, WithoutFirst, Promise!Plain, Plain

LEMMA SameLists ==
    /\ \A l, e : Promise!Placed(l, e) = Placed(l, e)
    /\ \A l : /\ Promise!Promoted(l) = Promoted(l) /\ Promise!Unset(l) = Unset(l)
              /\ Promise!Led(l) = Led(l)
BY DEF Promise!Placed, Placed, Promise!IdsOf, IdsOf, Promise!IsFirst, IsFirst,
       Promise!Promoted, Promoted, Promise!Unset, Unset, Promise!Led, Led,
       Promise!HasDefault, HasDefault, Promise!Plain, Plain

LEMMA PromiseBegins == Init => Promise!Init
<1> SUFFICES ASSUME Init
             PROVE  Promise!Init
  OBVIOUS
<1> DEFINE list == IF calm THEN Value ELSE <<>>
<1>1. list \in Seq(Item) /\ Led(list) = list
  <2>1. CASE calm
    BY <2>1, Starts, StartsFaithful, ValueIs, GoodLed DEF Faithful
  <2>2. CASE ~calm
    <3>1. <<>> \in Seq(Item) /\ Promoted(<<>>) = <<>>
      BY DEF Promoted
    <3> QED
      BY <2>2, <3>1 DEF Led
  <2> QED
    BY <2>1, <2>2
<1> QED
  BY <1>1, SameLists DEF Promise!Init, Item

LEMMA PromiseSteps ==
    Inv /\ Faithful /\ [Next]_vars => [Promise!Next]_(IF calm THEN Value ELSE <<>>)
<1> SUFFICES ASSUME Inv, Faithful, [Next]_vars
             PROVE  [Promise!Next]_(IF calm THEN Value ELSE <<>>)
  OBVIOUS
<1>1. calm' = calm
  BY DEF Next, vars, Begin, ServeRead, Read, ServeCheck, ServeWrite, Restored, Saved, Restart
<1>2. CASE ~calm
  BY <1>1, <1>2
<1>3. CASE calm
  <2> DEFINE i == IF calm THEN Value ELSE <<>>
             j == i'
  <2>1. i = Value /\ j = Value'
    BY <1>1, <1>3
  <2>2. j = i \/ Promises(i, j)
    BY <1>3, <2>1, CalmSteps
  <2>3. ASSUME Promises(i, j)
        PROVE  Promise!Next
    <3>1. ASSUME NEW id \in Ids, j = Led(Placed(i, Plain(id, FALSE)))
          PROVE  Promise!Save(id)
      BY <3>1, SameOperators, SameLists DEF Promise!Save
    <3>2. ASSUME NEW id \in Ids, j = Placed(Unset(i), Plain(id, TRUE))
          PROVE  Promise!SaveAsDefault(id)
      BY <3>2, SameOperators, SameLists DEF Promise!SaveAsDefault
    <3>3. ASSUME NEW id \in Ids, id \in IdsOf(i), j = OnlyDefault(i, id)
          PROVE  Promise!Choose(id)
      BY <3>3, SameOperators DEF Promise!Choose, OnlyDefault, Promise!Plain
    <3>4. ASSUME NEW id \in Ids, id \in IdsOf(i), j = Left(i, id)
          PROVE  Promise!Remove(id)
      BY <3>4, SameOperators, SameLists DEF Promise!Remove, Left, WasDefault
    <3>5. ASSUME NEW list \in Imports, j = Led(Named(list))
          PROVE  Promise!Import(Named(list))
      BY <3>5, SameLists DEF Promise!Import
    <3>6. ASSUME j = <<>>
          PROVE  Promise!Clear
      BY <3>6 DEF Promise!Clear
    <3> HIDE DEF i, j
    <3> QED
      BY <2>3, <3>1, <3>2, <3>3, <3>4, <3>5, <3>6 DEF Promises, Promise!Next
  <2> QED
    BY <2>2, <2>3
<1> QED
  BY <1>2, <1>3

\* Requests that neither overlap nor fail do what ChosenDefault promises: whatever is
\* saved, chosen, removed or imported, the list is as asked and has a default as long as
\* it has an entry.
THEOREM PromiseKept == Spec => CalmKeepsPromise
<1>1. Inv /\ Faithful /\ [Next]_vars => [Promise!Next]_(IF calm THEN Value ELSE <<>>)
  BY PromiseSteps
<1> QED
  BY <1>1, PromiseBegins, AlwaysFaithful, PTL DEF Spec, CalmKeepsPromise, Promise!Spec
=============================================================================
