--------------------------- MODULE ClusterEditsProofs ---------------------------
(***************************************************************************)
(* However requests on one VirtualCluster overlap, fail and restart, and   *)
(* however many there are, a request only disturbs an edit made since it   *)
(* began.  A patch says of a field it is not about what a copy said, and   *)
(* every copy a request works from agrees with the stored object on the    *)
(* fields nobody has changed since the request began.  Requests that       *)
(* neither overlap nor fail keep the settings and the charts in agreement. *)
(***************************************************************************)
EXTENDS ClusterEdits, TLAPS

Kinds == Plain \cup Blind
         \cup {"restore", "sync", "groups", "oidc", "join", "leave", "apply", "install", "uninstall"}

\* Every field holds an entry.
IsPatch(p) == \A f \in DOMAIN p : p[f] = [v |-> p[f].v, by |-> p[f].by]
IsDoc(d) == d = [f \in Fields |-> [v |-> d[f].v, by |-> d[f].by]]

Shape(q) == DOMAIN q = {"step", "op", "still", "copy", "list", "cat", "todo", "listed"}

\* The copies of a request under way agree with doc.
Agrees(q, doc) ==
    /\ \A f \in q.still : q.copy[f].by = doc[f].by
    /\ \A f \in q.still \ About(q.op) : q.list[f].by = doc[f].by
Fits(q, doc) ==
    /\ q.op.kind \in Kinds /\ q.still \subseteq Fields
    /\ q.op.kind \notin Blind => IsDoc(q.copy) /\ IsDoc(q.list) /\ Agrees(q, doc)
    /\ q.op.kind = "install" => q.todo \subseteq q.op.of

EditsInv ==
    /\ IsDoc(cr)
    /\ req = [r \in Requests |-> req[r]]
    /\ \A r \in Requests :
          /\ Shape(req[r])
          /\ req[r].step \notin {"idle", "done"} => Fits(req[r], cr)

LEMMA OperationKinds == \A op \in Operation : op.kind \in Kinds
BY DEF Operation, Ask, Kinds, Plain, Blind

-----------------------------------------------------------------------------
(* Patches.                                                                *)

LEMMA WithIsPatch ==
    ASSUME NEW p, NEW more, IsPatch(p), IsPatch(more)
    PROVE  IsPatch(With(p, more))
BY DEF IsPatch, With

LEMMA MergeIsDoc ==
    ASSUME NEW p, NEW d, IsPatch(p), IsDoc(d)
    PROVE  IsDoc(Merge(p, d))
<1>1. DOMAIN d = Fields /\ \A f \in Fields : d[f] = [v |-> d[f].v, by |-> d[f].by]
  BY DEF IsDoc
<1>2. Merge(p, d) = [f \in Fields |-> IF f \in DOMAIN p THEN p[f] ELSE d[f]]
  BY <1>1 DEF Merge
<1> QED
  BY <1>1, <1>2 DEF IsPatch, IsDoc

\* What a patch copies, it copies entry by entry.
LEMMA CopiesArePatches ==
    ASSUME NEW d, IsDoc(d), NEW S, S \subseteq Fields
    PROVE  /\ DOMAIN Restrict(d, S) = S
           /\ IsPatch(Restrict(d, S))
           /\ \A f \in S : Restrict(d, S)[f] = d[f]
<1>1. \A f \in Fields : d[f] = [v |-> d[f].v, by |-> d[f].by]
  BY DEF IsDoc
<1> QED
  BY <1>1 DEF IsPatch, Restrict

LEMMA AnnotationsCopied ==
    ASSUME NEW d, IsDoc(d)
    PROVE  /\ IsPatch(Annotations(d))
           /\ DOMAIN Annotations(d) \subseteq Fields
           /\ \A f \in DOMAIN Annotations(d) : Annotations(d)[f] = d[f]
<1>1. Annotated(d) \subseteq Fields
  BY DEF Annotated, Fields, RawConfig
<1> QED
  BY <1>1, CopiesArePatches DEF Annotations

LEMMA RawCopied ==
    ASSUME NEW d, IsDoc(d)
    PROVE  /\ IsPatch(Raw(d))
           /\ DOMAIN Raw(d) \subseteq Fields
           /\ \A f \in DOMAIN Raw(d) : Raw(d)[f] = d[f]
<1>1. {f \in {"args"} : Written(d[f], NoFlags)} \cup {f \in {"sans"} : d[f].v # {}} \subseteq Fields
  BY DEF Fields, RawConfig
<1> QED
  BY <1>1, CopiesArePatches DEF Raw

LEMMA EntryIsRecord ==
    ASSUME NEW v, NEW by
    PROVE  Entry(v, by) = [v |-> Entry(v, by).v, by |-> Entry(v, by).by]
BY DEF Entry

\* A patch that sets some fields over copied ones.
LEMMA SetOverCopies ==
    ASSUME NEW base, NEW set, NEW copy, IsPatch(base), IsPatch(set),
           \A f \in DOMAIN base : base[f] = copy[f]
    PROVE  /\ IsPatch(With(base, set))
           /\ \A f \in DOMAIN With(base, set) :
                 With(base, set)[f] = IF f \in DOMAIN set THEN set[f] ELSE copy[f]
<1>1. \A f \in DOMAIN With(base, set) :
          With(base, set)[f] = IF f \in DOMAIN set THEN set[f] ELSE copy[f]
  BY DEF With
<1> QED
  BY <1>1, WithIsPatch

\* Outside the fields it is about, a patch keeps the authors.
Harmless(p, q, doc) ==
    /\ IsPatch(p)
    /\ q.listed => \A f \in DOMAIN p \cap (q.still \ About(q.op)) : p[f].by = doc[f].by

\* The setting of the fields a request is about, over copied ones.
LEMMA SettingIsHarmless ==
    ASSUME NEW q, NEW doc, NEW base, NEW set, IsPatch(base), IsPatch(set), Agrees(q, doc),
           \A f \in DOMAIN base : base[f] = q.copy[f],
           \A f \in DOMAIN set : f \in q.still \ About(q.op) => set[f].by = doc[f].by
    PROVE  Harmless(With(base, set), q, doc)
<1> DEFINE p == With(base, set)
<1>1. /\ IsPatch(p)
      /\ \A f \in DOMAIN p : p[f] = IF f \in DOMAIN set THEN set[f] ELSE q.copy[f]
  BY SetOverCopies
<1>2. ASSUME NEW f \in DOMAIN p, f \in q.still \ About(q.op)
      PROVE  p[f].by = doc[f].by
  BY <1>1, <1>2 DEF Agrees
<1> QED
  BY <1>1, <1>2 DEF Harmless

LEMMA RawOverAnnotations ==
    ASSUME NEW d, IsDoc(d)
    PROVE  /\ IsPatch(With(Annotations(d), Raw(d)))
           /\ \A f \in DOMAIN With(Annotations(d), Raw(d)) :
                 With(Annotations(d), Raw(d))[f] = d[f]
BY AnnotationsCopied, RawCopied, SetOverCopies

LEMMA EntriesArePatches ==
    ASSUME NEW S, NEW v, NEW r
    PROVE  IsPatch([f \in S |-> Entry(v, r)])
BY DEF IsPatch, Entry

LEMMA OwnerPatchIsHarmless ==
    ASSUME NEW doc, NEW r, NEW q, Fits(q, doc), q.op.kind = "owner"
    PROVE  Harmless(OwnerPatch(r, q), q, doc)
<1>1. IsDoc(q.copy) /\ Agrees(q, doc)
  BY DEF Fits, Blind
<1> DEFINE set == [f \in {"owner"} |-> Entry(TRUE, r)]
<1>2. About(q.op) = {"owner"}
  BY DEF About
<1>3. IsPatch(set) /\ DOMAIN set = {"owner"}
  BY EntriesArePatches
<1>4. OwnerPatch(r, q) = With(Annotations(q.copy), set)
  BY DEF OwnerPatch
<1> QED
  BY <1>1, <1>2, <1>3, <1>4, AnnotationsCopied, SettingIsHarmless

\* What an edit of single sign-on sets over the copies.
SetsSingleSignOn(new, r) ==
    /\ DOMAIN new \subseteq {"oidc", "args"} /\ "oidc" \in DOMAIN new
    /\ IsPatch(new)
    /\ \A f \in DOMAIN new : new[f].by = r

LEMMA OidcPatchParts ==
    ASSUME NEW r, NEW q
    PROVE  \E new :
             /\ OidcPatch(r, q) = With(With(Annotations(q.copy), Raw(q.copy)), new)
             /\ SetsSingleSignOn(new, r)
             /\ new["oidc"].v = Configured(q.op)
             /\ "args" \in DOMAIN new =>
                   new["args"].v = Flags(q.copy["args"].v, Configured(q.op), r)
             /\ "args" \notin DOMAIN new =>
                   Configured(q.op) = {} /\ ~Written(q.copy["args"], NoFlags)
<1> DEFINE set == Configured(q.op)
           args == q.copy["args"]
           flags == Flags(args.v, set, r)
           S == {"oidc"} \cup (IF set # {} \/ Written(args, NoFlags) THEN {"args"} ELSE {})
           new == [f \in S |-> Entry(IF f = "oidc" THEN set ELSE flags, r)]
<1>1. OidcPatch(r, q) = With(With(Annotations(q.copy), Raw(q.copy)), new)
  BY DEF OidcPatch
<1>2. S \subseteq {"oidc", "args"} /\ "oidc" \in S
  OBVIOUS
<1>3. "args" \notin S => set = {} /\ ~Written(args, NoFlags)
  OBVIOUS
<1> HIDE DEF set, args, flags, S
<1>4. DOMAIN new = S /\ \A f \in S : new[f] = Entry(IF f = "oidc" THEN set ELSE flags, r)
  OBVIOUS
<1> HIDE DEF new
<1>7. \A f \in S : /\ new[f].v = IF f = "oidc" THEN set ELSE flags
                  /\ new[f].by = r
                  /\ new[f] = [v |-> new[f].v, by |-> new[f].by]
  BY <1>4, EntryIsRecord DEF Entry
<1>5. SetsSingleSignOn(new, r)
  BY <1>2, <1>4, <1>7 DEF SetsSingleSignOn, IsPatch
<1>6. new["oidc"].v = set /\ ("args" \in DOMAIN new => new["args"].v = flags)
  BY <1>2, <1>4, <1>7
<1> QED
  BY <1>1, <1>3, <1>4, <1>5, <1>6 DEF set, args, flags

LEMMA OidcPatchIsHarmless ==
    ASSUME NEW doc, NEW r, NEW q, Fits(q, doc), q.op.kind \in {"oidc", "noOidc", "apply"}
    PROVE  Harmless(OidcPatch(r, q), q, doc)
<1> DEFINE base == With(Annotations(q.copy), Raw(q.copy))
<1>1. IsDoc(q.copy) /\ Agrees(q, doc)
  BY DEF Fits, Blind
<1>2. About(q.op) = {"oidc", "args"}
  BY DEF About
<1>3. PICK new : OidcPatch(r, q) = With(base, new) /\ SetsSingleSignOn(new, r)
  BY OidcPatchParts
<1>4. IsPatch(base) /\ \A f \in DOMAIN base : base[f] = q.copy[f]
  BY <1>1, RawOverAnnotations
<1> HIDE DEF base
<1>5. IsPatch(new) /\ \A f \in DOMAIN new : f \in q.still \ About(q.op) => new[f].by = doc[f].by
  BY <1>2, <1>3 DEF SetsSingleSignOn
<1> QED
  BY <1>1, <1>3, <1>4, <1>5, SettingIsHarmless

LEMMA EndpointPatchIsHarmless ==
    ASSUME NEW doc, NEW r, NEW q, Fits(q, doc), q.op.kind \in {"endpoint", "noEndpoint"}
    PROVE  Harmless(EndpointPatch(r, q), q, doc)
<1> DEFINE base == With(Annotations(q.copy), Raw(q.copy))
           sans == Entry(q.copy["sans"].v \cup {r}, r)
           both == [f \in {"endpoint", "sans"} |-> IF f = "sans" THEN sans ELSE Entry(TRUE, r)]
           none == [f \in {f \in {"endpoint"} : q.copy[f].v} |-> Entry(FALSE, r)]
<1>1. IsDoc(q.copy) /\ Agrees(q, doc)
  BY DEF Fits, Blind
<1>2. CASE q.op.kind = "endpoint"
  <2>1. About(q.op) = {"endpoint", "sans"}
    BY <1>2 DEF About
  <2>2. IsPatch(both) /\ DOMAIN both = {"endpoint", "sans"}
    BY DEF IsPatch, Entry
  <2>3. EndpointPatch(r, q) = With(base, both)
    BY <1>2 DEF EndpointPatch
  <2> QED
    BY <1>1, <2>1, <2>2, <2>3, RawOverAnnotations, SettingIsHarmless
<1>3. CASE q.op.kind = "noEndpoint"
  <2>1. About(q.op) = {"endpoint"}
    BY <1>3 DEF About
  <2>2. IsPatch(none) /\ DOMAIN none \subseteq {"endpoint"}
    BY EntriesArePatches
  <2>3. EndpointPatch(r, q) = With(base, none)
    BY <1>3 DEF EndpointPatch
  <2> QED
    BY <1>1, <2>1, <2>2, <2>3, RawOverAnnotations, SettingIsHarmless
<1> QED
  BY <1>2, <1>3

LEMMA ComponentPatchIsHarmless ==
    ASSUME NEW doc, NEW r, NEW q, Fits(q, doc), q.op.kind \in {"istio", "gateway"}
    PROVE  Harmless(ComponentPatch(r, q), q, doc)
<1>1. IsDoc(q.copy) /\ Agrees(q, doc)
  BY DEF Fits, Blind
<1>2. About(q.op) = {q.op.kind}
  BY DEF About
<1> DEFINE base == Restrict(q.copy, Components)
           set == [f \in {q.op.kind} |-> Entry(TRUE, r)]
<1>3. Components \subseteq Fields
  BY DEF Fields
<1>4. IsPatch(base) /\ \A f \in DOMAIN base : base[f] = q.copy[f]
  BY <1>1, <1>3, CopiesArePatches
<1>5. IsPatch(set) /\ DOMAIN set = {q.op.kind}
  BY EntriesArePatches
<1>6. ComponentPatch(r, q) = With(base, set)
  BY DEF ComponentPatch
<1> QED
  BY <1>1, <1>2, <1>4, <1>5, <1>6, SettingIsHarmless

LEMMA RestorePatchIsHarmless ==
    ASSUME NEW doc, NEW r, NEW q, Fits(q, doc), q.op.kind = "restore"
    PROVE  Harmless(RestorePatch(r, q), q, doc)
<1>1. IsDoc(q.copy) /\ Agrees(q, doc)
  BY DEF Fits, Blind
<1>2. About(q.op) = {"restore"}
  BY DEF About
<1>3. q.copy["schedule"] = [v |-> q.copy["schedule"].v, by |-> q.copy["schedule"].by]
  BY <1>1 DEF IsDoc, Fields, Recovery
<1>4. IsPatch(RestorePatch(r, q))
  BY <1>3, EntryIsRecord DEF RestorePatch, IsPatch
<1>5. ASSUME q.listed, NEW f \in DOMAIN RestorePatch(r, q), f \in q.still \ About(q.op)
      PROVE  RestorePatch(r, q)[f].by = doc[f].by
  BY <1>1, <1>2, <1>5 DEF RestorePatch, Recovery, Agrees
<1> QED
  BY <1>4, <1>5 DEF Harmless

LEMMA GroupsPatchIsHarmless ==
    ASSUME NEW doc, NEW r, NEW q, Fits(q, doc), q.op.kind = "groups"
    PROVE  Harmless(GroupsPatch(r, q, [g \in Groups |-> Entry(g \in q.op.of, r)]), q, doc)
<1> DEFINE member == [g \in Groups |-> Entry(g \in q.op.of, r)]
           set == [g \in Groups |-> member[g]]
<1>1. IsDoc(q.copy) /\ Agrees(q, doc)
  BY DEF Fits, Blind
<1>2. About(q.op) = Groups
  BY DEF About
<1>3. IsPatch(set) /\ DOMAIN set = Groups
  BY DEF IsPatch, Entry
<1>4. GroupsPatch(r, q, member) = With(Annotations(q.copy), set)
  BY DEF GroupsPatch
<1> QED
  BY <1>1, <1>2, <1>3, <1>4, AnnotationsCopied, SettingIsHarmless

\* The groups somebody else is asked about are those of the list of clusters.
LEMMA JoinedPatchIsHarmless ==
    ASSUME NEW doc, NEW r, NEW q, Fits(q, doc), q.op.kind \in {"join", "leave"}
    PROVE  Harmless(GroupsPatch(r, q, Joined(r, q)), q, doc)
<1> DEFINE set == [g \in Groups |-> Joined(r, q)[g]]
<1>1. IsDoc(q.copy) /\ IsDoc(q.list) /\ Agrees(q, doc)
  BY DEF Fits, Blind
<1>2. About(q.op) = q.op.of
  BY DEF About
<1>3. \A g \in Groups : q.list[g] = [v |-> q.list[g].v, by |-> q.list[g].by]
  BY <1>1 DEF IsDoc, Fields
<1>4. DOMAIN set = Groups
  OBVIOUS
<1>5. \A g \in Groups : set[g] = IF g \in q.op.of THEN Entry(q.op.kind = "join", r) ELSE q.list[g]
  BY DEF Joined
<1>6. IsPatch(set)
  BY <1>3, <1>4, <1>5, EntryIsRecord DEF IsPatch
<1>7. \A f \in DOMAIN set : f \in q.still \ About(q.op) => set[f].by = doc[f].by
  BY <1>1, <1>2, <1>5 DEF Agrees
<1>8. GroupsPatch(r, q, Joined(r, q)) = With(Annotations(q.copy), set)
  BY DEF GroupsPatch
<1> QED
  BY <1>1, <1>6, <1>7, <1>8, AnnotationsCopied, SettingIsHarmless

LEMMA AppsPatchIsHarmless ==
    ASSUME NEW doc, NEW q, Fits(q, doc), q.op.kind \in {"install", "uninstall", "sync"}
    PROVE  Harmless(AppsPatch(q), q, doc)
<1> DEFINE set == Restrict(q.list, Apps)
<1>1. IsDoc(q.copy) /\ IsDoc(q.list) /\ Agrees(q, doc)
  BY DEF Fits, Blind
<1>2. Apps \subseteq Fields
  BY DEF Fields
<1>3. IsPatch(set) /\ DOMAIN set = Apps /\ \A a \in Apps : set[a] = q.list[a]
  BY <1>1, <1>2, CopiesArePatches
<1>4. \A f \in DOMAIN set : f \in q.still \ About(q.op) => set[f].by = doc[f].by
  BY <1>1, <1>3 DEF Agrees
<1> QED
  BY <1>1, <1>3, <1>4, AnnotationsCopied, SettingIsHarmless DEF AppsPatch

LEMMA BlindPatchIsHarmless ==
    ASSUME NEW doc, NEW q, NEW v, NEW r
    PROVE  Harmless([f \in About(q.op) |-> Entry(v, r)], q, doc)
BY EntriesArePatches DEF Harmless

LEMMA PatchIsHarmless ==
    ASSUME NEW doc, NEW r, NEW q, Fits(q, doc)
    PROVE  Harmless(PatchOf(r, q), q, doc)
<1> USE DEF Plain, Blind
<1>1. CASE q.op.kind = "owner"
  <2>1. PatchOf(r, q) = OwnerPatch(r, q)
    BY <1>1 DEF PatchOf
  <2> QED
    BY <1>1, <2>1, OwnerPatchIsHarmless
<1>2. CASE q.op.kind = "groups"
  <2>1. PatchOf(r, q) = GroupsPatch(r, q, [g \in Groups |-> Entry(g \in q.op.of, r)])
    BY <1>2 DEF PatchOf
  <2> QED
    BY <1>2, <2>1, GroupsPatchIsHarmless
<1>3. CASE q.op.kind \in {"join", "leave"}
  <2>1. PatchOf(r, q) = GroupsPatch(r, q, Joined(r, q))
    BY <1>3 DEF PatchOf
  <2> QED
    BY <1>3, <2>1, JoinedPatchIsHarmless
<1>4. CASE q.op.kind \in {"oidc", "noOidc", "apply"}
  <2>1. PatchOf(r, q) = OidcPatch(r, q)
    BY <1>4 DEF PatchOf
  <2> QED
    BY <1>4, <2>1, OidcPatchIsHarmless
<1>5. CASE q.op.kind \in {"endpoint", "noEndpoint"}
  <2>1. PatchOf(r, q) = EndpointPatch(r, q)
    BY <1>5 DEF PatchOf
  <2> QED
    BY <1>5, <2>1, EndpointPatchIsHarmless
<1>6. CASE q.op.kind \in {"istio", "gateway"}
  <2>1. PatchOf(r, q) = ComponentPatch(r, q)
    BY <1>6 DEF PatchOf
  <2> QED
    BY <1>6, <2>1, ComponentPatchIsHarmless
<1>7. CASE q.op.kind = "restore"
  <2>1. PatchOf(r, q) = RestorePatch(r, q)
    BY <1>7 DEF PatchOf
  <2> QED
    BY <1>7, <2>1, RestorePatchIsHarmless
<1>8. CASE q.op.kind \in {"install", "uninstall", "sync"}
  <2>1. PatchOf(r, q) = AppsPatch(q)
    BY <1>8 DEF PatchOf
  <2> QED
    BY <1>8, <2>1, AppsPatchIsHarmless
<1>9. CASE q.op.kind \in Blind
  <2>1. PatchOf(r, q) = [f \in About(q.op) |-> Entry(q.op.kind # "wake", r)]
    BY <1>9 DEF PatchOf
  <2>2. Harmless([f \in About(q.op) |-> Entry(q.op.kind # "wake", r)], q, doc)
    BY BlindPatchIsHarmless
  <2> QED
    BY <2>1, <2>2
<1> QED
  BY <1>1, <1>2, <1>3, <1>4, <1>5, <1>6, <1>7, <1>8, <1>9 DEF Fits, Kinds

-----------------------------------------------------------------------------
(* The invariant.                                                          *)

Ended(q) == q.step \in {"idle", "done"}

LEMMA IdleShape == Shape(Idle) /\ Ended(Idle) /\ Shape(Done) /\ Ended(Done)
<1>1. Shape(Idle) /\ Idle.step = "idle"
  BY DEF Shape, Idle
<1>2. Shape(Done) /\ Done.step = "done"
  BY <1>1 DEF Shape, Done
<1> QED
  BY <1>1, <1>2 DEF Ended

LEMMA InvInit == Init => EditsInv
<1> SUFFICES ASSUME Init PROVE EditsInv
  OBVIOUS
<1>1. \E apps, set, oidc, flags : cr = Created(apps, set, oidc, flags)
  BY DEF Init
<1>2. PICK apps, set, oidc, flags : cr = Created(apps, set, oidc, flags)
  BY <1>1
<1>3. /\ \A f \in Fields : cr[f] = [v |-> cr[f].v, by |-> cr[f].by]
      /\ cr = [f \in Fields |-> cr[f]]
  BY <1>2 DEF Created, Entry
<1>4. IsDoc(cr)
  BY <1>3 DEF IsDoc
<1>5. req = [r \in Requests |-> Idle]
  BY DEF Init
<1> QED
  BY <1>4, <1>5, IdleShape DEF EditsInv, Ended

\* One request moves on.
LEMMA GoesKeeps ==
    ASSUME EditsInv, UNCHANGED cr, NEW r \in Requests, NEW q, Goes(r, q),
           Shape(q), Ended(q) \/ Fits(q, cr)
    PROVE  EditsInv'
<1>1. req' = [req EXCEPT ![r] = q]
  BY DEF Goes
<1>2. req' = [s \in Requests |-> IF s = r THEN q ELSE req[s]]
  BY <1>1 DEF EditsInv
<1>3. IsDoc(cr)' /\ (req = [s \in Requests |-> req[s]])'
  BY <1>2 DEF EditsInv
<1>4. ASSUME NEW s \in Requests
      PROVE  Shape(req'[s]) /\ (Ended(req'[s]) \/ Fits(req'[s], cr'))
  <2>1. CASE s = r
    BY <1>2, <2>1
  <2>2. CASE s # r
    BY <1>2, <2>2 DEF EditsInv, Ended
  <2> QED
    BY <2>1, <2>2
<1> QED
  BY <1>3, <1>4 DEF EditsInv, Ended

\* One request stores its patch: the others are left with what it did not touch.
LEMMA StoresKeeps ==
    ASSUME EditsInv, NEW r \in Requests, NEW p, IsPatch(p), Stores(r, p)
    PROVE  EditsInv'
<1> DEFINE left(q) == {f \in q.still : cr'[f].by = cr[f].by}
<1>1. IsDoc(cr)'
  BY MergeIsDoc DEF EditsInv, Stores
<1>2. req' = [s \in Requests |-> IF s = r THEN Done ELSE [req[s] EXCEPT !.still = left(req[s])]]
  BY DEF Stores
<1>3. ASSUME NEW s \in Requests
      PROVE  Shape(req'[s]) /\ (Ended(req'[s]) \/ Fits(req'[s], cr'))
  <2>1. CASE s = r
    BY <1>2, <2>1, IdleShape
  <2>2. CASE s # r
    <3> DEFINE q == req[s]
               t == req'[s]
    <3>1. t = [q EXCEPT !.still = left(q)]
      BY <1>2, <2>2
    <3>2. Shape(q) /\ (Ended(q) \/ Fits(q, cr))
      BY DEF EditsInv, Ended
    <3> HIDE DEF q, t
    <3>3. /\ t.step = q.step /\ t.op = q.op /\ t.still = left(q) /\ t.copy = q.copy
          /\ t.list = q.list /\ t.todo = q.todo /\ DOMAIN t = DOMAIN q
      BY <3>1, <3>2 DEF Shape
    <3>4. Shape(t)
      BY <3>2, <3>3 DEF Shape
    <3>5. ASSUME Fits(q, cr) PROVE Fits(t, cr')
      BY <3>3, <3>5 DEF Fits, Agrees
    <3>6. Ended(q) => Ended(t)
      BY <3>3 DEF Ended
    <3> QED
      BY <3>2, <3>4, <3>5, <3>6 DEF t
  <2> QED
    BY <2>1, <2>2
<1> QED
  BY <1>1, <1>2, <1>3 DEF EditsInv, Ended

LEMMA StartedFits ==
    ASSUME EditsInv, NEW op \in Operation, NEW step
    PROVE  LET q == Started(op, step)
           IN  /\ Shape(q) /\ Fits(q, cr)
               /\ q.step = step /\ q.op = op /\ q.still = Fields /\ q.copy = cr
               /\ q.list = cr /\ q.todo = {}
<1> DEFINE q == Started(op, step)
<1>1. /\ q.step = step /\ q.op = op /\ q.still = Fields /\ q.copy = cr
      /\ q.list = cr /\ q.todo = {}
  BY DEF Started
<1>2. Shape(q)
  BY DEF Shape, Started
<1> HIDE DEF q
<1>3. Fits(q, cr)
  BY <1>1, OperationKinds DEF Fits, Agrees, EditsInv
<1> QED
  BY <1>1, <1>2, <1>3 DEF q

LEMMA BeginKeeps ==
    ASSUME EditsInv, NEW r \in Requests, NEW op \in Operation, Begin(r, op)
    PROVE  EditsInv'
<1>1. UNCHANGED cr
  BY DEF Begin, BeginEdit, BeginBlindEdit, BeginRestore, BeginFleetEdit, BeginApps, Begins
<1>2. CASE Goes(r, Done)
  BY <1>1, <1>2, IdleShape, GoesKeeps
<1>3. CASE \E step : Goes(r, Started(op, step))
  BY <1>1, <1>3, StartedFits, GoesKeeps
<1>4. CASE BeginEdit(r, op)
  BY <1>2, <1>3, <1>4 DEF BeginEdit
<1>5. CASE BeginBlindEdit(r, op)
  <2> DEFINE t == [Started(op, "patch") EXCEPT !.copy = None, !.list = None]
  <2>1. op.kind \in Blind /\ Goes(r, t)
    BY <1>5 DEF BeginBlindEdit
  <2>2. t.op = op /\ t.still = Fields /\ t.todo = {} /\ Shape(t)
    BY StartedFits DEF Shape
  <2> HIDE DEF t
  <2>3. Fits(t, cr)
    BY <2>1, <2>2, OperationKinds DEF Fits
  <2> QED
    BY <1>1, <2>1, <2>2, <2>3, GoesKeeps
<1>6. CASE BeginRestore(r, op)
  <2>1. PICK listed \in BOOLEAN : Goes(r, [Started(op, "patch") EXCEPT !.listed = listed])
    BY <1>6 DEF BeginRestore
  <2> DEFINE t == [Started(op, "patch") EXCEPT !.listed = listed]
  <2>2. /\ t.op = op /\ t.still = Fields /\ t.copy = cr /\ t.list = cr /\ t.todo = {}
        /\ Shape(t)
    BY StartedFits DEF Shape
  <2>3. Goes(r, t)
    BY <2>1
  <2> HIDE DEF t
  <2>4. Fits(t, cr)
    BY <2>2, OperationKinds DEF Fits, Agrees, EditsInv
  <2> QED
    BY <1>1, <2>2, <2>3, <2>4, GoesKeeps
<1>7. CASE BeginFleetEdit(r, op)
  BY <1>2, <1>3, <1>7 DEF BeginFleetEdit
<1>8. CASE BeginApps(r, op)
  <2> DEFINE q == Started(op, "deploy")
             list == Merge([a \in op.of |-> Entry(None, r)], cr)
  <2>1. CASE op.kind = "sync" /\ \E todo : Goes(r, [q EXCEPT !.todo = todo])
    <3>1. PICK todo : Goes(r, [q EXCEPT !.todo = todo])
      BY <2>1
    <3> DEFINE t == [q EXCEPT !.todo = todo]
    <3>2. t.op = op /\ t.still = Fields /\ t.copy = cr /\ t.list = cr /\ Shape(t)
      BY StartedFits DEF Shape
    <3>3. Goes(r, t)
      BY <3>1
    <3> HIDE DEF t
    <3>4. Fits(t, cr)
      BY <2>1, <3>2, OperationKinds DEF Fits, Agrees, EditsInv
    <3> QED
      BY <1>1, <3>2, <3>3, <3>4, GoesKeeps
  <2>2. CASE op.kind = "uninstall" /\ \E todo : Goes(r, [q EXCEPT !.list = list, !.todo = todo])
    <3>1. PICK todo : Goes(r, [q EXCEPT !.list = list, !.todo = todo])
      BY <2>2
    <3> DEFINE t == [q EXCEPT !.list = list, !.todo = todo]
    <3>2. t.op = op /\ t.still = Fields /\ t.copy = cr /\ t.list = list /\ Shape(t)
      BY StartedFits DEF Shape
    <3>3. Goes(r, t)
      BY <3>1
    <3>4. IsDoc(list)
      BY EntriesArePatches, MergeIsDoc DEF EditsInv
    <3>5. About(op) = op.of
      BY <2>2 DEF About
    <3>6. DOMAIN cr = Fields
      BY DEF EditsInv, IsDoc
    <3>7. \A f \in Fields \ About(op) : list[f].by = cr[f].by
      BY <3>5, <3>6 DEF Merge
    <3> HIDE DEF t, list
    <3>8. Fits(t, cr)
      BY <2>2, <3>2, <3>4, <3>7, OperationKinds DEF Fits, Agrees, EditsInv
    <3> QED
      BY <1>1, <3>2, <3>3, <3>8, GoesKeeps
  <2>3. CASE Goes(r, [q EXCEPT !.step = "plan"])
    <3> DEFINE t == [q EXCEPT !.step = "plan"]
    <3>1. /\ t.op = op /\ t.still = Fields /\ t.copy = cr /\ t.list = cr /\ t.todo = {}
          /\ Shape(t)
      BY StartedFits DEF Shape
    <3>2. Goes(r, t)
      BY <2>3
    <3> HIDE DEF t
    <3>3. Fits(t, cr)
      BY <3>1, OperationKinds DEF Fits, Agrees, EditsInv
    <3> QED
      BY <1>1, <3>1, <3>2, <3>3, GoesKeeps
  <2> QED
    BY <1>2, <1>8, <2>1, <2>2, <2>3 DEF BeginApps
<1> QED
  BY <1>4, <1>5, <1>6, <1>7, <1>8 DEF Begin

LEMMA PlanKeeps ==
    ASSUME EditsInv, NEW r \in Requests, Plan(r)
    PROVE  EditsInv'
<1> DEFINE q == req[r]
           todo == {a \in q.op.of : cat[a] # 0}
           t == [q EXCEPT !.step = "deploy", !.cat = cat, !.todo = todo]
<1>1. q.step = "plan" /\ Goes(r, t) /\ UNCHANGED cr
  BY DEF Plan
<1>2. Shape(q) /\ Fits(q, cr)
  BY <1>1 DEF EditsInv
<1>3. /\ t.op = q.op /\ t.still = q.still /\ t.copy = q.copy /\ t.list = q.list
      /\ t.todo \subseteq q.op.of /\ Shape(t)
  BY <1>2 DEF Shape
<1> HIDE DEF q, t
<1>4. Fits(t, cr)
  BY <1>2, <1>3 DEF Fits, Agrees
<1> QED
  BY <1>1, <1>3, <1>4, GoesKeeps

LEMMA InstallKeeps ==
    ASSUME EditsInv, NEW r \in Requests, NEW a \in Apps, Install(r, a)
    PROVE  EditsInv'
<1> DEFINE q == req[r]
<1>1. PICK rev, ok, as : Goes(r, Deployed(r, a, rev, ok, as))
  BY DEF Install
<1>2. q.step = "deploy" /\ q.op.kind = "install" /\ a \in q.todo /\ UNCHANGED cr
  BY DEF Install
<1> DEFINE noted == IF a \in HelmApps THEN as ELSE Standard
           new == Entry(Installed(rev, ok, noted), r)
           t == [q EXCEPT !.todo = @ \ {a}, !.list[a] = new]
<1>3. Goes(r, t)
  BY <1>1 DEF Deployed
<1>4. Shape(q) /\ Fits(q, cr)
  BY <1>2 DEF EditsInv
<1>10. new = [v |-> new.v, by |-> new.by]
  BY EntryIsRecord
<1> HIDE DEF noted, new
<1>5. /\ t.op = q.op /\ t.still = q.still /\ t.copy = q.copy /\ t.todo = q.todo \ {a}
      /\ t.list = [q.list EXCEPT ![a] = new] /\ Shape(t)
  BY <1>4 DEF Shape
<1> HIDE DEF q, t
<1>6. IsDoc(q.copy) /\ IsDoc(q.list) /\ Agrees(q, cr) /\ q.todo \subseteq q.op.of
  BY <1>2, <1>4 DEF Fits, Blind
<1>7. IsDoc(t.list) /\ \A f \in Fields \ {a} : t.list[f] = q.list[f]
  <2>1. \A f \in Fields : q.list[f] = [v |-> q.list[f].v, by |-> q.list[f].by]
    BY <1>6 DEF IsDoc
  <2>2. t.list = [f \in Fields |-> IF f = a THEN new ELSE q.list[f]]
    BY <1>5, <1>6 DEF IsDoc
  <2> QED
    BY <1>10, <2>1, <2>2 DEF IsDoc
<1>8. a \in About(q.op)
  BY <1>2, <1>6 DEF About
<1>9. Fits(t, cr)
  BY <1>4, <1>5, <1>6, <1>7, <1>8 DEF Fits, Agrees
<1> QED
  BY <1>2, <1>3, <1>5, <1>9, GoesKeeps

\* A synchronisation records an outcome, not a new author.
LEMMA SyncKeeps ==
    ASSUME EditsInv, NEW r \in Requests, NEW a \in Apps, Sync(r, a)
    PROVE  EditsInv'
<1> DEFINE q == req[r]
           e(ok) == Entry(Installed(q.list[a].v.rev, ok, q.list[a].v.as), q.list[a].by)
<1>1. PICK ok \in BOOLEAN : Goes(r, [q EXCEPT !.todo = @ \ {a}, !.list[a] = e(ok)])
  BY DEF Sync
<1>2. q.step = "deploy" /\ q.op.kind = "sync" /\ UNCHANGED cr
  BY DEF Sync
<1> DEFINE t == [q EXCEPT !.todo = @ \ {a}, !.list[a] = e(ok)]
<1>3. Goes(r, t)
  BY <1>1
<1>4. Shape(q) /\ Fits(q, cr)
  BY <1>2 DEF EditsInv
<1> HIDE DEF e
<1>5. /\ t.op = q.op /\ t.still = q.still /\ t.copy = q.copy
      /\ t.list = [q.list EXCEPT ![a] = e(ok)] /\ Shape(t)
  BY <1>4 DEF Shape
<1>6. e(ok) = [v |-> e(ok).v, by |-> q.list[a].by]
  BY DEF e, Entry
<1> HIDE DEF q, t
<1>7. IsDoc(q.copy) /\ IsDoc(q.list) /\ Agrees(q, cr)
  BY <1>2, <1>4 DEF Fits, Blind
<1>8. IsDoc(t.list) /\ \A f \in Fields : t.list[f].by = q.list[f].by
  <2>1. \A f \in Fields : q.list[f] = [v |-> q.list[f].v, by |-> q.list[f].by]
    BY <1>7 DEF IsDoc
  <2>2. t.list = [f \in Fields |-> IF f = a THEN e(ok) ELSE q.list[f]]
    BY <1>5, <1>7 DEF IsDoc
  <2> QED
    BY <1>6, <2>1, <2>2 DEF IsDoc
<1>9. Fits(t, cr)
  BY <1>2, <1>4, <1>5, <1>7, <1>8 DEF Fits, Agrees
<1> QED
  BY <1>2, <1>3, <1>5, <1>9, GoesKeeps

LEMMA UninstallKeeps ==
    ASSUME EditsInv, NEW r \in Requests, NEW a \in Apps, Uninstall(r, a)
    PROVE  EditsInv'
<1> DEFINE q == req[r]
           t == [q EXCEPT !.todo = @ \ {a}]
<1>1. q.step = "deploy" /\ Goes(r, t) /\ UNCHANGED cr
  BY DEF Uninstall
<1>2. Shape(q) /\ Fits(q, cr)
  BY <1>1 DEF EditsInv
<1>3. /\ t.op = q.op /\ t.still = q.still /\ t.copy = q.copy /\ t.list = q.list
      /\ t.todo = q.todo \ {a} /\ Shape(t)
  BY <1>2 DEF Shape
<1> HIDE DEF q, t
<1>4. Fits(t, cr)
  BY <1>2, <1>3 DEF Fits, Agrees
<1> QED
  BY <1>1, <1>3, <1>4, GoesKeeps

LEMMA ReadAgainKeeps ==
    ASSUME EditsInv, NEW r \in Requests, ReadAgain(r)
    PROVE  EditsInv'
<1> DEFINE q == req[r]
           t == [q EXCEPT !.step = "patch", !.copy = cr]
<1>1. q.step \in {"get", "deploy"} /\ UNCHANGED cr
  BY DEF ReadAgain
<1>2. Shape(q) /\ Fits(q, cr)
  BY <1>1 DEF EditsInv
<1>3. CASE Goes(r, Done)
  BY <1>1, <1>3, IdleShape, GoesKeeps
<1>4. CASE Goes(r, t)
  <2>1. /\ t.op = q.op /\ t.still = q.still /\ t.copy = cr /\ t.list = q.list
        /\ t.todo = q.todo /\ Shape(t)
    BY <1>2 DEF Shape
  <2> HIDE DEF q, t
  <2>2. Fits(t, cr)
    BY <1>2, <2>1 DEF Fits, Agrees, EditsInv
  <2> QED
    BY <1>1, <1>4, <2>1, <2>2, GoesKeeps
<1> QED
  BY <1>3, <1>4 DEF ReadAgain

LEMMA PrunedIsPatch ==
    ASSUME NEW p, IsPatch(p), NEW op, NEW pruned \in Pruned(op, p)
    PROVE  /\ IsPatch(pruned) /\ DOMAIN pruned \subseteq DOMAIN p
           /\ \A f \in DOMAIN pruned : pruned[f] = p[f]
<1>1. PICK fields : pruned = Restrict(p, DOMAIN p \ fields)
  BY DEF Pruned
<1> QED
  BY <1>1 DEF IsPatch, Restrict

LEMMA PatchKeeps ==
    ASSUME EditsInv, NEW r \in Requests, Patch(r)
    PROVE  EditsInv'
<1> DEFINE p == PatchOf(r, req[r])
<1>1. req[r].step = "patch"
  BY DEF Patch
<1>2. Harmless(p, req[r], cr)
  BY <1>1, PatchIsHarmless DEF EditsInv
<1>3. IsPatch(p) /\ \A pruned \in Pruned(req[r].op, p) : IsPatch(pruned)
  BY <1>2, PrunedIsPatch DEF Harmless
<1>4. CASE Stores(r, p) \/ \E pruned \in Pruned(req[r].op, p) : Stores(r, pruned)
  BY <1>3, <1>4, StoresKeeps
<1>5. CASE UNCHANGED cr /\ Goes(r, Done)
  BY <1>5, IdleShape, GoesKeeps
<1> QED
  BY <1>4, <1>5 DEF Patch

LEMMA InvNext == EditsInv /\ [Next]_vars => EditsInv'
<1> SUFFICES ASSUME EditsInv, [Next]_vars PROVE EditsInv'
  OBVIOUS
<1>1. ASSUME NEW r \in Requests, NEW op \in Operation, Begin(r, op)
      PROVE  EditsInv'
  BY <1>1, BeginKeeps
<1>2. ASSUME NEW r \in Requests, Plan(r)
      PROVE  EditsInv'
  BY <1>2, PlanKeeps
<1>3. ASSUME NEW r \in Requests, NEW a \in Apps, Install(r, a) \/ Sync(r, a) \/ Uninstall(r, a)
      PROVE  EditsInv'
  BY <1>3, InstallKeeps, SyncKeeps, UninstallKeeps
<1>4. ASSUME NEW r \in Requests, ReadAgain(r) \/ Patch(r)
      PROVE  EditsInv'
  BY <1>4, ReadAgainKeeps, PatchKeeps
<1>5. CASE UNCHANGED <<cr, req>>
  BY <1>5 DEF EditsInv
<1>6. CASE Restart
  <2>1. cr' = cr /\ req' = [r \in Requests |-> IF r \in Under THEN Done ELSE req[r]]
    BY <1>6 DEF Restart
  <2> QED
    BY <2>1, IdleShape DEF EditsInv, Ended
<1>7. CASE \E a \in Apps : CatalogSave(a) \/ CatalogDelete(a)
  BY <1>5, <1>7 DEF CatalogSave, CatalogDelete
<1>8. CASE UNCHANGED vars
  BY <1>5, <1>8 DEF vars
<1> QED
  BY <1>1, <1>2, <1>3, <1>4, <1>6, <1>7, <1>8 DEF Next

-----------------------------------------------------------------------------
(* The property.                                                           *)

Survives(r) ==
    req[r].step = "patch" /\ req[r].listed /\ req'[r].step # "patch" =>
        \A f \in req[r].still \ About(req[r].op) : cr'[f].by = cr[f].by

\* Only a patch changes the stored object.
LEMMA OnlyPatches ==
    ASSUME Next, \A s \in Requests : ~Patch(s)
    PROVE  UNCHANGED cr
<1>1. ASSUME NEW r \in Requests, NEW op \in Operation, Begin(r, op)
      PROVE  UNCHANGED cr
  BY <1>1 DEF Begin, BeginEdit, BeginBlindEdit, BeginRestore, BeginFleetEdit, BeginApps, Begins
<1>2. ASSUME NEW r \in Requests, Plan(r) \/ ReadAgain(r)
      PROVE  UNCHANGED cr
  BY <1>2 DEF Plan, ReadAgain
<1>3. ASSUME NEW r \in Requests, NEW a \in Apps, Install(r, a) \/ Sync(r, a) \/ Uninstall(r, a)
      PROVE  UNCHANGED cr
  BY <1>3 DEF Install, Sync, Uninstall
<1>4. ASSUME (\E a \in Apps : CatalogSave(a) \/ CatalogDelete(a)) \/ Restart
      PROVE  UNCHANGED cr
  BY <1>4 DEF CatalogSave, CatalogDelete, Restart
<1> QED
  BY <1>1, <1>2, <1>3, <1>4 DEF Next

LEMMA StoredSurvives ==
    ASSUME EditsInv, NEW r \in Requests, NEW s \in Requests, NEW p,
           Harmless(p, req[s], cr), Stores(s, p)
    PROVE  Survives(r)
<1>1. DOMAIN cr = Fields
  BY DEF EditsInv, IsDoc
<1>2. CASE s = r
  <2> SUFFICES ASSUME req[r].step = "patch", req[r].listed,
                      NEW f \in req[r].still \ About(req[r].op)
               PROVE  cr'[f].by = cr[f].by
    BY DEF Survives
  <2>1. f \in Fields
    BY DEF EditsInv, Fits
  <2>2. cr'[f] = IF f \in DOMAIN p THEN p[f] ELSE cr[f]
    BY <1>1, <2>1 DEF Stores, Merge
  <2> QED
    BY <1>2, <2>2 DEF Harmless
<1>3. CASE s # r
  <2> DEFINE still == {f \in req[r].still : cr'[f].by = cr[f].by}
  <2>1. req'[r] = [req[r] EXCEPT !.still = still]
    BY <1>3 DEF Stores
  <2>2. Shape(req[r])
    BY DEF EditsInv
  <2> HIDE DEF still
  <2>3. req'[r].step = req[r].step
    BY <2>1, <2>2 DEF Shape
  <2> QED
    BY <2>3 DEF Survives
<1> QED
  BY <1>2, <1>3

LEMMA StepSurvives == EditsInv /\ [Next]_vars => \A r \in Requests : Survives(r)
<1> SUFFICES ASSUME EditsInv, [Next]_vars, NEW r \in Requests PROVE Survives(r)
  OBVIOUS
<1>1. CASE UNCHANGED cr
  BY <1>1 DEF Survives
<1>2. ASSUME NEW s \in Requests, Patch(s)
      PROVE  Survives(r)
  <2> DEFINE p == PatchOf(s, req[s])
  <2>1. Harmless(p, req[s], cr)
    <3>1. Fits(req[s], cr)
      BY <1>2 DEF Patch, EditsInv
    <3> QED
      BY <3>1, PatchIsHarmless
  <2>2. ASSUME NEW pruned \in Pruned(req[s].op, p)
        PROVE  Harmless(pruned, req[s], cr)
    <3>1. /\ IsPatch(pruned) /\ DOMAIN pruned \subseteq DOMAIN p
          /\ \A f \in DOMAIN pruned : pruned[f] = p[f]
      BY <2>1, PrunedIsPatch DEF Harmless
    <3> QED
      BY <2>1, <3>1 DEF Harmless
  <2>3. CASE Stores(s, p) \/ \E pruned \in Pruned(req[s].op, p) : Stores(s, pruned)
    BY <2>1, <2>2, <2>3, StoredSurvives
  <2>4. CASE UNCHANGED cr
    BY <1>1, <2>4
  <2> QED
    BY <1>2, <2>3, <2>4 DEF Patch
<1>3. CASE UNCHANGED vars
  BY <1>1, <1>3 DEF vars
<1> QED
  BY <1>1, <1>2, <1>3, OnlyPatches

\* What a request under way read of the VirtualCluster is current on every field that
\* nobody has changed since the request began.
THEOREM CopiesStayCurrent == Spec => []EditsInv
<1>1. Init => EditsInv
  BY InvInit
<1>2. EditsInv /\ [Next]_vars => EditsInv'
  BY InvNext
<1> QED
  BY <1>1, <1>2, PTL DEF Spec

\* For any requests, groups, applications and failures, a request disturbs another's edit
\* only while the two overlap (k8s-client.ts:1167, cluster-apps.ts:374).
THEOREM EarlierEditsAlwaysSurvive == Spec => EarlierEditsSurvive
<1>1. EditsInv /\ [Next]_vars =>
        [\A r \in Requests :
          req[r].step = "patch" /\ req[r].listed /\ req'[r].step # "patch" =>
              \A f \in req[r].still \ About(req[r].op) : cr'[f].by = cr[f].by]_vars
  BY StepSurvives DEF Survives
<1> QED
  BY <1>1, CopiesStayCurrent, PTL DEF Spec, EarlierEditsSurvive
-----------------------------------------------------------------------------
(* Types.  A document's revisions are those of the applications' histories. *)

FlagLists == UNION {[set -> Authors] : set \in SUBSET Settings}
Values(f, last) ==
    IF f \in Apps THEN {None} \cup [rev : 1..last[f], ok : BOOLEAN, as : Release]
    ELSE IF f = "sans" THEN SUBSET Authors
    ELSE IF f = "oidc" THEN SUBSET Settings
    ELSE IF f = "args" THEN FlagLists
    ELSE BOOLEAN
\* Those whose values are not flags.
Valued == Apps \cup {"sans", "oidc", "args"}
Sound(p, last) ==
    \A f \in DOMAIN p \cap Fields : p[f].by \in Authors /\ p[f].v \in Values(f, last)

Works(q, last) ==
    /\ q.op \in Operation
    /\ q.op.kind \notin Blind => Sound(q.copy, last) /\ Sound(q.list, last)
    /\ q.step = "plan" => q.op.kind = "install"
    /\ q.step = "deploy" /\ q.op.kind = "install" => \A a \in q.todo : q.cat[a] \in 1..last[a]
    /\ q.op.kind = "sync" => \A a \in q.todo : a \in Apps /\ q.list[a].v # None

TypeInv ==
    /\ calm \in BOOLEAN /\ steady \in BOOLEAN /\ faults \in 0..MaxFaults
    /\ latest \in [Apps -> 1..MaxRevision]
    /\ guest = [a \in Apps |-> guest[a]] /\ \A a \in Apps : guest[a] \in [Places -> 0..latest[a]]
    /\ cat = [a \in Apps |-> cat[a]] /\ \A a \in Apps : cat[a] \in {0, latest[a]}
    /\ Sound(cr, latest)
    /\ \A r \in Requests :
          /\ req[r].step \in {"idle", "plan", "deploy", "get", "patch", "done"}
          /\ req[r].step \notin {"idle", "done"} => Works(req[r], latest)

LEMMA FieldKinds ==
    /\ \A f \in {"owner", "endpoint", "oidc", "sleep", "version"} \cup {"sans", "args"}
                \cup Components \cup Recovery : f \in Fields /\ f \notin Apps /\ f \notin Groups
    /\ \A f \in Groups \cup Apps : f \in Fields /\ f \notin {"sans", "oidc", "args"}
    /\ Groups \cap Apps = {} /\ Groups \cap Valued = {}
    /\ Optional \cap Groups = {} /\ "provider" \notin Optional
BY FieldAssumption DEF Fields, RawConfig, Valued, Optional

LEMMA EntryFields == \A v, by : Entry(v, by).v = v /\ Entry(v, by).by = by
BY DEF Entry

LEMMA FlagFields == \A v \in BOOLEAN : \A by : Entry(v, by).v \in BOOLEAN /\ Entry(v, by).by = by
BY EntryFields

LEMMA FlagsAreSound ==
    ASSUME NEW S, S \cap Valued = {}, NEW v \in BOOLEAN, NEW by \in Authors, NEW last
    PROVE  Sound([f \in S |-> Entry(v, by)], last)
BY EntryFields DEF Sound, Values, Valued

\* The flags of single sign-on.
LEMMA FlagsStayTyped ==
    ASSUME NEW flags \in FlagLists, NEW set \in SUBSET Settings, NEW r \in Authors
    PROVE  Flags(flags, set, r) \in FlagLists
<1>1. NoFlags \in [{} -> Authors]
  BY DEF NoFlags
<1>2. PICK some \in SUBSET Settings : flags \in [some -> Authors]
  BY DEF FlagLists
<1> DEFINE kept == Restrict(flags, DOMAIN flags \ {"ca"})
           new == [s \in set |-> r]
           all == With(kept, new)
<1>3. kept \in [some \ {"ca"} -> Authors] /\ new \in [set -> Authors]
  BY <1>2 DEF Restrict
<1> HIDE DEF kept, new
<1>4. all \in [(some \ {"ca"}) \cup set -> Authors]
  BY <1>3 DEF With
<1>5. (some \ {"ca"}) \cup set \in SUBSET Settings
  OBVIOUS
<1>6. Flags(flags, set, r) \in {NoFlags, all}
  BY DEF Flags, kept, new
<1> DEFINE both == (some \ {"ca"}) \cup set
           result == Flags(flags, set, r)
<1> HIDE DEF all, both, result
<1>7. \A one \in SUBSET Settings : \A l \in [one -> Authors] : l \in FlagLists
  BY DEF FlagLists
<1>8. {} \in SUBSET Settings /\ all \in [both -> Authors] /\ both \in SUBSET Settings
  BY <1>4, <1>5 DEF both
<1>9. NoFlags \in FlagLists
  BY <1>1, <1>7, <1>8
<1>10. all \in FlagLists
  BY <1>7, <1>8
<1>11. result = NoFlags \/ result = all
  BY <1>6 DEF result
<1> QED
  BY <1>9, <1>10, <1>11 DEF result

LEMMA ConfiguredIsSet == \A op : Configured(op) \in SUBSET Settings
BY DEF Configured, Settings

LEMMA WithIsSound ==
    ASSUME NEW base, NEW set, NEW last, Sound(base, last), Sound(set, last)
    PROVE  Sound(With(base, set), last)
BY DEF Sound, With

LEMMA CopyIsSound ==
    ASSUME NEW d, NEW last, IsDoc(d), Sound(d, last), NEW S, S \subseteq Fields
    PROVE  Sound(Restrict(d, S), last)
<1>1. DOMAIN d = Fields
  BY DEF IsDoc
<1> QED
  BY <1>1, CopiesArePatches DEF Sound

LEMMA AnnotationsAreSound ==
    ASSUME NEW d, NEW last, IsDoc(d), Sound(d, last)
    PROVE  Sound(Annotations(d), last) /\ Sound(With(Annotations(d), Raw(d)), last)
<1>1. DOMAIN d = Fields
  BY DEF IsDoc
<1>2. Sound(Annotations(d), last) /\ Sound(Raw(d), last)
  BY <1>1, AnnotationsCopied, RawCopied DEF Sound
<1> QED
  BY <1>2, WithIsSound

LEMMA MergeIsSound ==
    ASSUME NEW p, NEW d, NEW last, Sound(p, last), Sound(d, last)
    PROVE  Sound(Merge(p, d), last)
BY DEF Sound, Merge

\* Every patch keeps the types.
LEMMA PatchIsSound ==
    ASSUME NEW r \in Requests, NEW q, NEW last, NEW doc, Fits(q, doc), Works(q, last)
    PROVE  Sound(PatchOf(r, q), last)
<1> USE DEF Plain, Blind
<1> DEFINE base == With(Annotations(q.copy), Raw(q.copy))
<1>1. q.op.kind \notin Blind =>
        /\ IsDoc(q.copy) /\ IsDoc(q.list) /\ Sound(q.copy, last) /\ Sound(q.list, last)
        /\ Sound(Annotations(q.copy), last) /\ Sound(base, last)
  BY AnnotationsAreSound DEF Fits, Works
<1>2. r \in Authors
  BY DEF Authors
<1> HIDE DEF base
<1>3. CASE q.op.kind = "owner"
  <2>1. PatchOf(r, q) = With(Annotations(q.copy), [f \in {"owner"} |-> Entry(TRUE, r)])
    BY <1>3 DEF PatchOf, OwnerPatch
  <2>2. Sound([f \in {"owner"} |-> Entry(TRUE, r)], last)
    BY <1>2, FieldKinds, FlagsAreSound DEF Valued
  <2> QED
    BY <1>1, <1>3, <2>1, <2>2, WithIsSound
<1>4. CASE q.op.kind = "groups"
  <2> DEFINE member == [g \in Groups |-> Entry(g \in q.op.of, r)]
             set == [g \in Groups |-> member[g]]
  <2>1. PatchOf(r, q) = With(Annotations(q.copy), set)
    BY <1>4 DEF PatchOf, GroupsPatch
  <2>2. \A g \in Groups : set[g].v \in BOOLEAN /\ set[g].by = r
    <3> SUFFICES ASSUME NEW g \in Groups PROVE set[g].v \in BOOLEAN /\ set[g].by = r
      OBVIOUS
    <3> DEFINE v == g \in q.op.of
    <3>1. set[g] = Entry(v, r) /\ v \in BOOLEAN
      OBVIOUS
    <3> QED
      BY <3>1, FlagFields
  <2>3. DOMAIN set = Groups
    OBVIOUS
  <2> HIDE DEF set
  <2>4. Sound(set, last)
    BY <1>2, <2>2, <2>3, FieldKinds DEF Sound, Values, Valued
  <2> QED
    BY <1>1, <1>4, <2>1, <2>4, WithIsSound
<1>5. CASE q.op.kind \in {"join", "leave"}
  <2> DEFINE set == [g \in Groups |-> Joined(r, q)[g]]
  <2>1. PatchOf(r, q) = With(Annotations(q.copy), set)
    BY <1>5 DEF PatchOf, GroupsPatch
  <2>2. DOMAIN q.list = Fields
    BY <1>1, <1>5 DEF IsDoc
  <2>3. \A g \in Groups : q.list[g].v \in BOOLEAN /\ q.list[g].by \in Authors
    BY <1>1, <1>5, <2>2, FieldKinds DEF Sound, Values
  <2>4. \A g \in Groups : set[g].v \in BOOLEAN /\ set[g].by \in Authors
    <3> SUFFICES ASSUME NEW g \in Groups PROVE set[g].v \in BOOLEAN /\ set[g].by \in Authors
      OBVIOUS
    <3> DEFINE v == q.op.kind = "join"
    <3>1. (set[g] = Entry(v, r) /\ v \in BOOLEAN) \/ set[g] = q.list[g]
      BY DEF Joined
    <3> HIDE DEF set, v
    <3> QED
      BY <1>2, <2>3, <3>1, FlagFields
  <2>5. DOMAIN set = Groups
    OBVIOUS
  <2> HIDE DEF set
  <2>6. Sound(set, last)
    BY <2>4, <2>5, FieldKinds DEF Sound, Values
  <2> QED
    BY <1>1, <1>5, <2>1, <2>6, WithIsSound
<1>6. CASE q.op.kind \in {"oidc", "noOidc", "apply"}
  <2> DEFINE flags == Flags(q.copy["args"].v, Configured(q.op), r)
  <2>1. PatchOf(r, q) = OidcPatch(r, q)
    BY <1>6 DEF PatchOf
  <2>2. PICK new : /\ OidcPatch(r, q) = With(base, new) /\ SetsSingleSignOn(new, r)
                   /\ new["oidc"].v = Configured(q.op)
                   /\ "args" \in DOMAIN new => new["args"].v = flags
    BY OidcPatchParts DEF base
  <2>3. "args" \in DOMAIN q.copy \cap Fields
    BY <1>1, <1>6, FieldKinds DEF IsDoc
  <2>4. q.copy["args"].v \in FlagLists
    BY <1>1, <1>6, <2>3, FieldKinds DEF Sound, Values
  <2>5. flags \in FlagLists /\ Configured(q.op) \in SUBSET Settings
    BY <1>2, <2>4, ConfiguredIsSet, FlagsStayTyped
  <2> HIDE DEF flags
  <2>6. Sound(new, last)
    BY <1>2, <2>2, <2>5, FieldKinds DEF SetsSingleSignOn, Sound, Values
  <2> QED
    BY <1>1, <1>6, <2>1, <2>2, <2>6, WithIsSound
<1>7. CASE q.op.kind = "endpoint"
  <2> DEFINE sans == Entry(q.copy["sans"].v \cup {r}, r)
             set == [f \in {"endpoint", "sans"} |-> IF f = "sans" THEN sans ELSE Entry(TRUE, r)]
  <2>1. PatchOf(r, q) = With(base, set)
    BY <1>7 DEF PatchOf, EndpointPatch, base
  <2>2. "sans" \in DOMAIN q.copy \cap Fields
    BY <1>1, <1>7, FieldKinds DEF IsDoc
  <2>3. q.copy["sans"].v \subseteq Authors
    BY <1>1, <1>7, <2>2, FieldKinds DEF Sound, Values
  <2>4. DOMAIN set = {"endpoint", "sans"}
    OBVIOUS
  <2>5. /\ set["sans"].v \subseteq Authors /\ set["sans"].by = r
        /\ set["endpoint"].v \in BOOLEAN /\ set["endpoint"].by = r
    <3>1. set["sans"] = sans /\ set["endpoint"] = Entry(TRUE, r)
      OBVIOUS
    <3>2. sans.v = q.copy["sans"].v \cup {r} /\ sans.by = r
      BY EntryFields
    <3> QED
      BY <1>2, <2>3, <3>1, <3>2, FlagFields
  <2> HIDE DEF set
  <2>6. Sound(set, last)
    BY <1>2, <2>4, <2>5, FieldKinds DEF Sound, Values
  <2> QED
    BY <1>1, <1>7, <2>1, <2>6, WithIsSound
<1>8. CASE q.op.kind = "noEndpoint"
  <2> DEFINE S == {f \in {"endpoint"} : q.copy[f].v}
  <2>1. PatchOf(r, q) = With(base, [f \in S |-> Entry(FALSE, r)])
    BY <1>8 DEF PatchOf, EndpointPatch, base
  <2>2. S \cap Valued = {}
    BY FieldKinds DEF Valued
  <2> HIDE DEF S
  <2>3. Sound([f \in S |-> Entry(FALSE, r)], last)
    BY <1>2, <2>2, FlagsAreSound
  <2> QED
    BY <1>1, <1>8, <2>1, <2>3, WithIsSound
<1>9. CASE q.op.kind \in {"istio", "gateway"}
  <2>1. PatchOf(r, q) = With(Restrict(q.copy, Components), [f \in {q.op.kind} |-> Entry(TRUE, r)])
    BY <1>9 DEF PatchOf, ComponentPatch
  <2>2. Components \subseteq Fields /\ {q.op.kind} \cap Valued = {}
    BY <1>9, FieldKinds DEF Components, Valued
  <2>3. Sound(Restrict(q.copy, Components), last)
    BY <1>1, <1>9, <2>2, CopyIsSound
  <2>4. Sound([f \in {q.op.kind} |-> Entry(TRUE, r)], last)
    BY <1>2, <2>2, FlagsAreSound
  <2> QED
    BY <2>1, <2>3, <2>4, WithIsSound
<1>10. CASE q.op.kind = "restore"
  <2>1. PatchOf(r, q) =
          [f \in Recovery |-> IF f = "schedule" /\ q.listed THEN q.copy[f] ELSE Entry(TRUE, r)]
    BY <1>10 DEF PatchOf, RestorePatch
  <2>2. "schedule" \in DOMAIN q.copy \cap Fields
    BY <1>1, <1>10, FieldKinds DEF IsDoc, Recovery
  <2>3. q.copy["schedule"].v \in BOOLEAN /\ q.copy["schedule"].by \in Authors
    BY <1>1, <1>10, <2>2, FieldKinds DEF Sound, Values, Recovery
  <2> DEFINE p == PatchOf(r, q)
  <2>4. DOMAIN p = Recovery /\ \A f \in Recovery : p[f].v \in BOOLEAN /\ p[f].by \in Authors
    <3>1. DOMAIN p = Recovery
      BY <2>1
    <3>2. ASSUME NEW f \in Recovery PROVE p[f] = Entry(TRUE, r) \/ p[f] = q.copy["schedule"]
      BY <2>1
    <3> DEFINE e == Entry(TRUE, r)
    <3>3. e.v \in BOOLEAN /\ e.by = r
      BY FlagFields
    <3> HIDE DEF p, e
    <3> QED
      BY <1>2, <2>3, <3>1, <3>2, <3>3 DEF e
  <2> HIDE DEF p
  <2>5. Sound(p, last)
    BY <2>4, FieldKinds DEF Sound, Values, Recovery
  <2> QED
    BY <2>5 DEF p
<1>11. CASE q.op.kind \in {"install", "uninstall", "sync"}
  <2>1. PatchOf(r, q) = With(Annotations(q.copy), Restrict(q.list, Apps))
    BY <1>11 DEF PatchOf, AppsPatch
  <2>2. Sound(Restrict(q.list, Apps), last)
    BY <1>1, <1>11, FieldKinds, CopyIsSound
  <2> QED
    BY <1>1, <1>11, <2>1, <2>2, WithIsSound
<1>12. CASE q.op.kind \in {"sleep", "wake", "upgrade", "schedule"}
  <2>1. PatchOf(r, q) = [f \in About(q.op) |-> Entry(q.op.kind # "wake", r)]
    BY <1>12 DEF PatchOf
  <2>2. About(q.op) \subseteq {"sleep", "schedule", "version", "dns"}
    BY <1>12 DEF About
  <2>3. About(q.op) \cap Valued = {}
    BY <2>2, FieldKinds DEF Components, Recovery, Valued
  <2>4. (q.op.kind # "wake") \in BOOLEAN
    OBVIOUS
  <2>5. Sound([f \in About(q.op) |-> Entry(q.op.kind # "wake", r)], last)
    BY <1>2, <2>3, <2>4, FlagsAreSound
  <2> QED
    BY <2>1, <2>5
<1> QED
  BY <1>3, <1>4, <1>5, <1>6, <1>7, <1>8, <1>9, <1>10, <1>11, <1>12 DEF Fits, Kinds

LEMMA OperationParts ==
    \A op \in Operation :
        /\ op.kind \in {"install", "uninstall"} => op.of \subseteq Apps
        /\ op.kind = "install" => op.rev \in 0..MaxRevision
        /\ op.kind \in {"join", "leave"} => op.of \subseteq Groups
<1> SUFFICES ASSUME NEW op \in Operation
             PROVE  /\ op.kind \in {"install", "uninstall"} => op.of \subseteq Apps
                    /\ op.kind = "install" => op.rev \in 0..MaxRevision
                    /\ op.kind \in {"join", "leave"} => op.of \subseteq Groups
  OBVIOUS
<1> DEFINE A == {Ask(kind, {}, 0) : kind \in Plain \cup Blind \cup {"restore", "sync"}}
           B == {Ask("groups", of, 0) : of \in SUBSET Groups}
           C == {Ask(kind, {g}, 0) : kind \in {"join", "leave"}, g \in Groups}
           G == {Ask("oidc", of, 0) : of \in Choices}
           H == {Ask("apply", {g} \cup of, 0) : g \in Groups, of \in Choices}
           D == {Ask("install", of, 0) : of \in SUBSET Apps \ {{}}}
           E == {Ask("install", {a}, rev) : a \in Apps, rev \in 1..MaxRevision}
           F == {Ask("uninstall", {a}, 0) : a \in Apps}
<1>1. Operation = A \cup B \cup G \cup C \cup H \cup D \cup E \cup F
  BY DEF Operation
<1>2. CASE op \in A
  BY <1>2 DEF Ask, Plain, Blind
<1>3. CASE op \in B
  BY <1>3 DEF Ask
<1>4. CASE op \in C
  BY <1>4 DEF Ask
<1>5. CASE op \in D
  BY <1>5, BoundAssumption DEF Ask
<1>6. CASE op \in E
  BY <1>6, BoundAssumption DEF Ask
<1>7. CASE op \in F
  BY <1>7 DEF Ask
<1>8. CASE op \in G
  BY <1>8 DEF Ask
<1>9. CASE op \in H
  BY <1>9 DEF Ask
<1> HIDE DEF A, B, C, D, E, F, G, H
<1> QED
  BY <1>1, <1>2, <1>3, <1>4, <1>5, <1>6, <1>7, <1>8, <1>9

Grows(last, more) ==
    last \in [Apps -> Nat] /\ more \in [Apps -> Nat] /\ \A a \in Apps : last[a] <= more[a]

LEMMA SoundGrows ==
    ASSUME NEW last, NEW more, Grows(last, more), NEW d, Sound(d, last)
    PROVE  Sound(d, more)
<1>1. \A f \in Fields : Values(f, last) \subseteq Values(f, more)
  BY DEF Values, Grows
<1> QED
  BY <1>1 DEF Sound

LEMMA WorksGrows ==
    ASSUME NEW last, NEW more, Grows(last, more), NEW q, Works(q, last),
           q.op.kind = "install" => q.todo \subseteq q.op.of
    PROVE  Works(q, more)
<1>1. ASSUME q.step = "deploy", q.op.kind = "install", NEW a \in q.todo
      PROVE  q.cat[a] \in 1..more[a]
  BY <1>1, OperationParts DEF Works, Grows
<1> QED
  BY <1>1, SoundGrows DEF Works

\* One request moves on.
LEMMA GoesTyped ==
    ASSUME EditsInv, TypeInv, NEW r \in Requests, NEW q, Goes(r, q),
           UNCHANGED <<calm, steady, cr, catalog>>, faults' \in 0..MaxFaults,
           guest' = [a \in Apps |-> guest'[a]], \A a \in Apps : guest'[a] \in [Places -> 0..latest[a]],
           q.step \in {"idle", "plan", "deploy", "get", "patch", "done"},
           Ended(q) \/ Works(q, latest)
    PROVE  TypeInv'
<1>1. req' = [s \in Requests |-> IF s = r THEN q ELSE req[s]]
  BY DEF EditsInv, Goes
<1>2. ASSUME NEW s \in Requests
      PROVE  /\ req'[s].step \in {"idle", "plan", "deploy", "get", "patch", "done"}
             /\ req'[s].step \notin {"idle", "done"} => Works(req'[s], latest)
  BY <1>1 DEF TypeInv, Ended
<1>3. UNCHANGED <<calm, steady, cr, cat, latest>>
  BY DEF catalog
<1> QED
  BY <1>2, <1>3 DEF TypeInv

LEMMA FaultsTyped == TypeInv /\ (NoFault \/ Fault) => faults' \in 0..MaxFaults
BY BoundAssumption DEF TypeInv, NoFault, Fault

LEMMA StartedTyped ==
    ASSUME EditsInv, TypeInv, NEW op \in Operation, NEW step
    PROVE  LET q == Started(op, step)
           IN  /\ Shape(q) /\ q.step = step /\ q.op = op /\ q.copy = cr /\ q.list = cr
               /\ q.todo = {} /\ Sound(q.copy, latest) /\ Sound(q.list, latest)
BY StartedFits DEF TypeInv

LEMMA EndTyped ==
    ASSUME EditsInv, TypeInv, NEW r \in Requests, Goes(r, Done),
           UNCHANGED <<calm, steady, cr, guest, catalog>>, NoFault \/ Fault
    PROVE  TypeInv'
<1>1. faults' \in 0..MaxFaults
  BY FaultsTyped
<1>2. guest' = [a \in Apps |-> guest'[a]] /\ \A a \in Apps : guest'[a] \in [Places -> 0..latest[a]]
  BY DEF TypeInv
<1>3. Done.step = "done" /\ Ended(Done)
  BY IdleShape DEF Done, Shape
<1> QED
  BY <1>1, <1>2, <1>3, GoesTyped

\* A request that begins.
LEMMA BeginsTyped ==
    ASSUME EditsInv, TypeInv, NEW r \in Requests, NEW q, Goes(r, q),
           UNCHANGED <<calm, steady, cr, guest, catalog>>, NoFault \/ Fault,
           q.op \in Operation,
           q.op.kind \notin Blind => Sound(q.copy, latest) /\ Sound(q.list, latest),
           q.step \in {"plan", "deploy", "get", "patch"},
           q.step = "plan" <=> q.op.kind = "install",
           q.op.kind = "sync" => \A a \in q.todo : a \in Apps /\ q.list[a].v # None
    PROVE  TypeInv'
<1>1. faults' \in 0..MaxFaults
  BY FaultsTyped
<1>2. guest' = [a \in Apps |-> guest'[a]] /\ \A a \in Apps : guest'[a] \in [Places -> 0..latest[a]]
  BY DEF TypeInv
<1>3. Works(q, latest)
  BY DEF Works
<1> QED
  BY <1>1, <1>2, <1>3, GoesTyped

LEMMA BeginTyped ==
    ASSUME EditsInv, TypeInv, NEW r \in Requests, NEW op \in Operation, Begin(r, op)
    PROVE  TypeInv'
<1>1. UNCHANGED <<calm, steady, cr, guest, catalog>>
  BY DEF Begin, BeginEdit, BeginBlindEdit, BeginRestore, BeginFleetEdit, BeginApps, Begins
<1>2. CASE Goes(r, Done) /\ (NoFault \/ Fault)
  BY <1>1, <1>2, EndTyped
<1>3. CASE BeginEdit(r, op)
  <2> DEFINE q == Started(op, "patch")
  <2>1. CASE Goes(r, q) /\ NoFault
    <3>1. op.kind \in Plain \cup {"groups", "oidc"}
      BY <1>3 DEF BeginEdit
    <3>2. /\ q.op = op /\ q.step = "patch"
          /\ Sound(q.copy, latest) /\ Sound(q.list, latest)
      BY StartedTyped
    <3> HIDE DEF q
    <3> QED
      BY <1>1, <2>1, <3>1, <3>2, BeginsTyped DEF Plain
  <2> QED
    BY <1>2, <1>3, <2>1 DEF BeginEdit
<1>4. CASE BeginBlindEdit(r, op)
  <2> DEFINE t == [Started(op, "patch") EXCEPT !.copy = None, !.list = None]
  <2>1. op.kind \in Blind /\ Goes(r, t) /\ NoFault
    BY <1>4 DEF BeginBlindEdit
  <2>2. t.op = op /\ t.step = "patch"
    BY StartedTyped DEF Shape
  <2> HIDE DEF t
  <2> QED
    BY <1>1, <2>1, <2>2, BeginsTyped DEF Blind
<1>5. CASE BeginRestore(r, op)
  <2>1. PICK listed \in BOOLEAN :
          /\ Goes(r, [Started(op, "patch") EXCEPT !.listed = listed])
          /\ NoFault \/ Fault
    BY <1>5 DEF BeginRestore
  <2>2. op.kind = "restore"
    BY <1>5 DEF BeginRestore
  <2> DEFINE t == [Started(op, "patch") EXCEPT !.listed = listed]
  <2>3. Goes(r, t)
    BY <2>1
  <2>4. /\ t.op = op /\ t.step = "patch"
        /\ Sound(t.copy, latest) /\ Sound(t.list, latest)
    BY StartedTyped DEF Shape
  <2> HIDE DEF t
  <2> QED
    BY <1>1, <2>1, <2>2, <2>3, <2>4, BeginsTyped
<1>6. CASE BeginFleetEdit(r, op)
  <2> DEFINE q == Started(op, "get")
  <2>1. CASE Goes(r, q) /\ NoFault
    <3>1. op.kind \in {"join", "leave", "apply"}
      BY <1>6 DEF BeginFleetEdit
    <3>2. /\ q.op = op /\ q.step = "get"
          /\ Sound(q.copy, latest) /\ Sound(q.list, latest)
      BY StartedTyped
    <3> HIDE DEF q
    <3> QED
      BY <1>1, <2>1, <3>1, <3>2, BeginsTyped
  <2> QED
    BY <1>2, <1>6, <2>1 DEF BeginFleetEdit
<1>7. CASE BeginApps(r, op)
  <2> DEFINE q == Started(op, "deploy")
             recorded == {a \in Apps : cr[a].v # None}
             list == Merge([a \in op.of |-> Entry(None, r)], cr)
  <2>1. CASE op.kind = "install" /\ Goes(r, [q EXCEPT !.step = "plan"]) /\ NoFault
    <3> DEFINE t == [q EXCEPT !.step = "plan"]
    <3>1. Goes(r, t)
      BY <2>1
    <3>2. /\ t.op = op /\ t.step = "plan"
          /\ Sound(t.copy, latest) /\ Sound(t.list, latest)
      BY StartedTyped DEF Shape
    <3> HIDE DEF t
    <3> QED
      BY <1>1, <2>1, <3>1, <3>2, BeginsTyped
  <2>2. CASE op.kind = "sync" /\ Goes(r, [q EXCEPT !.todo = recorded]) /\ NoFault
    <3> DEFINE t == [q EXCEPT !.todo = recorded]
    <3>1. Goes(r, t)
      BY <2>2
    <3>2. /\ t.op = op /\ t.step = "deploy" /\ t.todo = recorded /\ t.list = cr
          /\ Sound(t.copy, latest) /\ Sound(t.list, latest)
      BY StartedTyped DEF Shape
    <3> HIDE DEF t
    <3> QED
      BY <1>1, <2>2, <3>1, <3>2, BeginsTyped
  <2>3. CASE /\ op.kind = "uninstall" /\ (NoFault \/ Fault)
             /\ \E todo : Goes(r, [q EXCEPT !.list = list, !.todo = todo])
    <3>1. PICK todo : Goes(r, [q EXCEPT !.list = list, !.todo = todo])
      BY <2>3
    <3> DEFINE t == [q EXCEPT !.list = list, !.todo = todo]
               p == [a \in op.of |-> Entry(None, r)]
    <3>2. Goes(r, t)
      BY <3>1
    <3>3. /\ t.op = op /\ t.step = "deploy" /\ t.list = list
          /\ Sound(t.copy, latest)
      BY StartedTyped DEF Shape
    <3>4. op.of \subseteq Apps /\ r \in Authors
      BY <2>3, OperationParts DEF Authors
    <3>5. Sound(p, latest)
      BY <3>4, EntryFields DEF Sound, Values
    <3>6. Sound(list, latest)
      <4> HIDE DEF p
      <4> QED
        BY <3>5, MergeIsSound DEF TypeInv, p
    <3> HIDE DEF t
    <3> QED
      BY <1>1, <2>3, <3>2, <3>3, <3>6, BeginsTyped
  <2> QED
    BY <1>2, <1>7, <2>1, <2>2, <2>3 DEF BeginApps
<1> QED
  BY <1>3, <1>4, <1>5, <1>6, <1>7 DEF Begin

LEMMA PlanTyped ==
    ASSUME EditsInv, TypeInv, NEW r \in Requests, Plan(r)
    PROVE  TypeInv'
<1> DEFINE q == req[r]
           todo == {a \in q.op.of : cat[a] # 0}
           t == [q EXCEPT !.step = "deploy", !.cat = cat, !.todo = todo]
<1>1. /\ q.step = "plan" /\ Goes(r, t) /\ UNCHANGED <<calm, steady, cr, guest, catalog, faults>>
  BY DEF Plan
<1>2. Shape(q) /\ Works(q, latest)
  BY <1>1 DEF EditsInv, TypeInv
<1>3. /\ t.op = q.op /\ t.step = "deploy" /\ t.copy = q.copy /\ t.list = q.list
      /\ t.todo = todo /\ t.cat = cat
  BY <1>2 DEF Shape
<1>4. q.op.of \subseteq Apps
  BY <1>1, <1>2, OperationParts DEF Works
<1>5. \A a \in todo : cat[a] \in 1..latest[a]
  BY <1>4 DEF TypeInv
<1>6. faults' \in 0..MaxFaults
  BY <1>1, FaultsTyped DEF NoFault
<1>7. guest' = [a \in Apps |-> guest'[a]] /\ \A a \in Apps : guest'[a] \in [Places -> 0..latest[a]]
  BY <1>1 DEF TypeInv
<1> HIDE DEF q, t, todo
<1>8. Works(t, latest)
  BY <1>1, <1>2, <1>3, <1>5 DEF Works
<1> QED
  BY <1>1, <1>3, <1>6, <1>7, <1>8, GoesTyped

\* One release of an application is deployed or removed.
GuestMoves(a, p, rev) == guest' \in {[guest EXCEPT ![a][p] = rev], guest}

LEMMA GuestTyped ==
    ASSUME TypeInv, NEW a \in Apps, NEW p, NEW rev \in 0..latest[a], GuestMoves(a, p, rev)
    PROVE  /\ guest' = [b \in Apps |-> guest'[b]]
           /\ \A b \in Apps : guest'[b] \in [Places -> 0..latest[b]]
<1>1. guest = [b \in Apps |-> guest[b]] /\ \A b \in Apps : guest[b] \in [Places -> 0..latest[b]]
  BY DEF TypeInv
<1> QED
  BY <1>1 DEF GuestMoves

LEMMA DeploysTyped ==
    ASSUME TypeInv, NEW a \in Apps, NEW rev, NEW ok, NEW as, Deploys(a, rev, ok, as)
    PROVE  GuestMoves(a, as.at, rev) /\ faults' \in 0..MaxFaults
<1>1. GuestMoves(a, as.at, rev)
  <2> DEFINE moved == [guest EXCEPT ![a][as.at] = rev]
  <2>1. guest' \in {moved} \cup (IF ok THEN {} ELSE {guest})
    BY DEF Deploys
  <2> HIDE DEF moved
  <2>2. guest' \in {moved, guest}
    BY <2>1
  <2> QED
    BY <2>2 DEF moved, GuestMoves
<1>2. faults' = faults \/ (faults < MaxFaults /\ faults' = faults + 1)
  BY DEF Deploys, NoFault
<1> QED
  BY <1>1, <1>2, BoundAssumption DEF TypeInv

LEMMA ListedIsSound ==
    ASSUME TypeInv, NEW list, IsDoc(list), Sound(list, latest), NEW a \in Apps,
           NEW rev \in 1..latest[a], NEW ok \in BOOLEAN, NEW as \in Release, NEW by \in Authors
    PROVE  LET new == [list EXCEPT ![a] = Entry(Installed(rev, ok, as), by)]
           IN  /\ Sound(new, latest) /\ new[a] = Entry(Installed(rev, ok, as), by)
               /\ \A f \in Fields \ {a} : new[f] = list[f]
<1> DEFINE e == Entry(Installed(rev, ok, as), by)
           new == [list EXCEPT ![a] = e]
<1>1. DOMAIN list = Fields /\ a \in Fields
  BY FieldKinds DEF IsDoc
<1>2. e.v \in Values(a, latest) /\ e.by = by
  <2>1. e.v = Installed(rev, ok, as) /\ e.by = by
    BY EntryFields
  <2>2. Installed(rev, ok, as) \in [rev : 1..latest[a], ok : BOOLEAN, as : Release]
    BY DEF Installed
  <2> HIDE DEF e
  <2> QED
    BY <2>1, <2>2 DEF Values
<1> HIDE DEF e
<1>3. DOMAIN new = Fields /\ new[a] = e /\ \A f \in Fields \ {a} : new[f] = list[f]
  BY <1>1
<1> HIDE DEF new
<1>4. Sound(new, latest)
  BY <1>1, <1>2, <1>3 DEF Sound
<1> QED
  BY <1>3, <1>4 DEF new, e

LEMMA StandardIsRelease == Standard \in Release
BY AppAssumption DEF Release, Standard

LEMMA InstallTyped ==
    ASSUME EditsInv, TypeInv, NEW r \in Requests, NEW a \in Apps, Install(r, a)
    PROVE  TypeInv'
<1> DEFINE q == req[r]
<1>1. /\ q.step = "deploy" /\ q.op.kind = "install" /\ a \in q.todo
      /\ UNCHANGED <<calm, steady, cr, catalog>>
  BY DEF Install
<1>2. Shape(q) /\ Fits(q, cr) /\ Works(q, latest)
  BY <1>1 DEF EditsInv, TypeInv
<1>3. /\ IsDoc(q.list) /\ Sound(q.copy, latest) /\ Sound(q.list, latest)
      /\ q.todo \subseteq Apps
      /\ \A b \in q.todo : q.cat[b] \in 1..latest[b]
  BY <1>1, <1>2, OperationParts DEF Fits, Works, Blind
<1>4. latest[a] \in Nat
  BY DEF TypeInv
<1>5. \E as \in Release : \E rev \in 1..latest[a], ok \in BOOLEAN :
        /\ Goes(r, Deployed(r, a, rev, ok, as))
        /\ GuestMoves(a, as.at, rev) /\ faults' \in 0..MaxFaults
  <2> DEFINE asked == q.op.rev
             known == asked \in 1..latest[a]
             now == IF known THEN asked ELSE q.cat[a]
  <2>1. Releases \subseteq Release
    BY StandardIsRelease DEF Releases
  <2>2. \E as \in Releases :
          \/ \E ok \in BOOLEAN : Deploys(a, now, ok, as) /\ Goes(r, Deployed(r, a, now, ok, as))
          \/ /\ guest' = [guest EXCEPT ![a][as.at] = q.cat[a]]
             /\ Goes(r, Deployed(r, a, q.cat[a], TRUE, as))
             /\ Fault
    BY DEF Install
  <2>3. PICK as \in Release :
          \/ \E ok \in BOOLEAN : Deploys(a, now, ok, as) /\ Goes(r, Deployed(r, a, now, ok, as))
          \/ /\ guest' = [guest EXCEPT ![a][as.at] = q.cat[a]]
             /\ Goes(r, Deployed(r, a, q.cat[a], TRUE, as))
             /\ Fault
    BY <2>1, <2>2
  <2>4. now \in 1..latest[a] /\ q.cat[a] \in 1..latest[a]
    BY <1>1, <1>3
  <2> HIDE DEF now
  <2>5. CASE \E ok \in BOOLEAN : Deploys(a, now, ok, as) /\ Goes(r, Deployed(r, a, now, ok, as))
    BY <2>4, <2>5, DeploysTyped
  <2>6. CASE /\ guest' = [guest EXCEPT ![a][as.at] = q.cat[a]]
             /\ Goes(r, Deployed(r, a, q.cat[a], TRUE, as))
             /\ Fault
    BY <2>4, <2>6, FaultsTyped DEF GuestMoves
  <2> QED
    BY <2>3, <2>5, <2>6
<1>12. PICK as \in Release : \E rev \in 1..latest[a], ok \in BOOLEAN :
        /\ Goes(r, Deployed(r, a, rev, ok, as))
        /\ GuestMoves(a, as.at, rev) /\ faults' \in 0..MaxFaults
  BY <1>5
<1>13. PICK rev \in 1..latest[a], ok \in BOOLEAN :
        /\ Goes(r, Deployed(r, a, rev, ok, as))
        /\ GuestMoves(a, as.at, rev) /\ faults' \in 0..MaxFaults
  BY <1>12
<1> DEFINE noted == IF a \in HelmApps THEN as ELSE Standard
           e == Entry(Installed(rev, ok, noted), r)
           t == [q EXCEPT !.todo = @ \ {a}, !.list[a] = e]
<1>6. Goes(r, t)
  BY <1>13 DEF Deployed
<1>14. noted \in Release
  BY StandardIsRelease
<1> HIDE DEF e, noted
<1>7. /\ t.op = q.op /\ t.step = "deploy" /\ t.copy = q.copy /\ t.todo = q.todo \ {a}
      /\ t.cat = q.cat /\ t.list = [q.list EXCEPT ![a] = e]
  BY <1>1, <1>2 DEF Shape
<1>8. Sound([q.list EXCEPT ![a] = e], latest)
  BY <1>3, <1>14, ListedIsSound DEF e, Authors
<1> HIDE DEF q, t
<1>9. Works(t, latest)
  BY <1>1, <1>2, <1>3, <1>7, <1>8 DEF Works
<1>10. 1..latest[a] \subseteq 0..latest[a]
  BY <1>4
<1> QED
  BY <1>1, <1>13, <1>6, <1>7, <1>9, <1>10, GuestTyped, GoesTyped

LEMMA SyncTyped ==
    ASSUME EditsInv, TypeInv, NEW r \in Requests, NEW a \in Apps, Sync(r, a)
    PROVE  TypeInv'
<1> DEFINE q == req[r]
           e == q.list[a]
           rev == IF a \in HelmApps THEN e.v.rev
                  ELSE IF cat[a] # 0 THEN cat[a] ELSE guest[a][e.v.as.at]
           n(ok) == Entry(Installed(e.v.rev, ok, e.v.as), e.by)
<1>1. /\ q.step = "deploy" /\ q.op.kind = "sync" /\ a \in q.todo
      /\ UNCHANGED <<calm, steady, cr, catalog>>
  BY DEF Sync
<1>2. Shape(q) /\ Fits(q, cr) /\ Works(q, latest)
  BY <1>1 DEF EditsInv, TypeInv
<1>3. /\ IsDoc(q.list) /\ Sound(q.copy, latest) /\ Sound(q.list, latest)
      /\ \A b \in q.todo : b \in Apps /\ q.list[b].v # None
  BY <1>1, <1>2 DEF Fits, Works, Blind
<1>4. e.v.rev \in 1..latest[a] /\ e.v.as \in Release /\ e.by \in Authors
  BY <1>1, <1>3, FieldKinds DEF IsDoc, Sound, Values
<1>5. PICK ok \in BOOLEAN : /\ Deploys(a, rev, ok, e.v.as)
                            /\ Goes(r, [q EXCEPT !.todo = @ \ {a}, !.list[a] = n(ok)])
  BY DEF Sync
<1>6. rev \in 0..latest[a]
  <2>1. e.v.as.at \in Places
    BY <1>4 DEF Release
  <2>2. /\ latest[a] \in Nat /\ cat[a] \in {0, latest[a]}
        /\ guest[a] \in [Places -> 0..latest[a]]
    BY DEF TypeInv
  <2>3. guest[a][e.v.as.at] \in 0..latest[a]
    BY <2>1, <2>2
  <2>4. e.v.rev \in 0..latest[a] /\ cat[a] \in 0..latest[a]
    BY <1>4, <2>2
  <2> HIDE DEF e
  <2> QED
    BY <2>3, <2>4
<1> DEFINE t == [q EXCEPT !.todo = @ \ {a}, !.list[a] = n(ok)]
<1>7. Goes(r, t)
  BY <1>5
<1> HIDE DEF n
<1>8. /\ t.op = q.op /\ t.step = "deploy" /\ t.copy = q.copy /\ t.todo = q.todo \ {a}
      /\ t.list = [q.list EXCEPT ![a] = n(ok)]
  BY <1>1, <1>2 DEF Shape
<1>9. /\ Sound([q.list EXCEPT ![a] = n(ok)], latest)
      /\ \A f \in Fields \ {a} : [q.list EXCEPT ![a] = n(ok)][f] = q.list[f]
  BY <1>3, <1>4, ListedIsSound DEF n
<1> HIDE DEF rev
<1>10. GuestMoves(a, e.v.as.at, rev) /\ faults' \in 0..MaxFaults
  BY <1>5, DeploysTyped
<1> HIDE DEF q, t, e
<1>11. Works(t, latest)
  BY <1>1, <1>2, <1>3, <1>8, <1>9, FieldKinds DEF Works
<1> QED
  BY <1>1, <1>6, <1>7, <1>8, <1>10, <1>11, GuestTyped, GoesTyped

LEMMA UninstallTyped ==
    ASSUME EditsInv, TypeInv, NEW r \in Requests, NEW a \in Apps, Uninstall(r, a)
    PROVE  TypeInv'
<1> DEFINE q == req[r]
           t == [q EXCEPT !.todo = @ \ {a}]
<1>1. /\ q.step = "deploy" /\ q.op.kind = "uninstall" /\ Goes(r, t)
      /\ UNCHANGED <<calm, steady, cr, catalog>> /\ (NoFault \/ Fault)
      /\ GuestMoves(a, q.copy[a].v.as.at, 0)
  BY DEF Uninstall, GuestMoves
<1>2. Shape(q) /\ Works(q, latest)
  BY <1>1 DEF EditsInv, TypeInv
<1>3. /\ t.op = q.op /\ t.step = "deploy" /\ t.copy = q.copy /\ t.list = q.list
  BY <1>1, <1>2 DEF Shape
<1>4. 0 \in 0..latest[a]
  BY DEF TypeInv
<1> HIDE DEF q, t
<1>5. Works(t, latest)
  BY <1>1, <1>2, <1>3 DEF Works
<1> QED
  BY <1>1, <1>3, <1>4, <1>5, GuestTyped, FaultsTyped, GoesTyped

LEMMA ReadAgainTyped ==
    ASSUME EditsInv, TypeInv, NEW r \in Requests, ReadAgain(r)
    PROVE  TypeInv'
<1> DEFINE q == req[r]
           t == [q EXCEPT !.step = "patch", !.copy = cr]
<1>1. UNCHANGED <<calm, steady, cr, guest, catalog>>
  BY DEF ReadAgain
<1>2. CASE Goes(r, Done) /\ Fault
  BY <1>1, <1>2, EndTyped
<1>3. CASE Goes(r, t) /\ NoFault
  <2>1. q.step \in {"get", "deploy"}
    BY DEF ReadAgain
  <2>2. Shape(q) /\ Works(q, latest)
    BY <2>1 DEF EditsInv, TypeInv
  <2>3. /\ t.op = q.op /\ t.step = "patch" /\ t.copy = cr /\ t.list = q.list
        /\ t.todo = q.todo
    BY <2>2 DEF Shape
  <2>4. faults' \in 0..MaxFaults
    BY <1>3, FaultsTyped
  <2>5. guest' = [a \in Apps |-> guest'[a]] /\ \A a \in Apps : guest'[a] \in [Places -> 0..latest[a]]
    BY <1>1 DEF TypeInv
  <2>6. Sound(cr, latest)
    BY DEF TypeInv
  <2> HIDE DEF q, t
  <2>7. Works(t, latest)
    BY <2>2, <2>3, <2>6 DEF Works
  <2> QED
    BY <1>1, <1>3, <2>3, <2>4, <2>5, <2>7, GoesTyped
<1> QED
  BY <1>2, <1>3 DEF ReadAgain

LEMMA PrunedIsSound ==
    ASSUME NEW p, NEW last, Sound(p, last), NEW op, NEW pruned \in Pruned(op, p)
    PROVE  Sound(pruned, last)
<1>1. PICK fields : pruned = Restrict(p, DOMAIN p \ fields)
  BY DEF Pruned
<1> QED
  BY <1>1 DEF Sound, Restrict

LEMMA StoresTyped ==
    ASSUME EditsInv, TypeInv, NEW r \in Requests, NEW p, IsPatch(p), Sound(p, latest), Stores(r, p),
           UNCHANGED <<calm, steady, guest, catalog>>, NoFault \/ Fault
    PROVE  TypeInv'
<1> DEFINE left(q) == {f \in q.still : cr'[f].by = cr[f].by}
<1>1. UNCHANGED <<calm, steady, guest, cat, latest>>
  BY DEF catalog
<1>2. Sound(cr', latest)
  BY MergeIsSound DEF Stores, TypeInv
<1>3. req' = [s \in Requests |-> IF s = r THEN Done ELSE [req[s] EXCEPT !.still = left(req[s])]]
  BY DEF Stores
<1>4. ASSUME NEW s \in Requests
      PROVE  /\ req'[s].step \in {"idle", "plan", "deploy", "get", "patch", "done"}
             /\ req'[s].step \notin {"idle", "done"} => Works(req'[s], latest)
  <2>1. CASE s = r
    BY <1>3, <2>1, IdleShape DEF Ended
  <2>2. CASE s # r
    <3> DEFINE q == req[s]
               t == [q EXCEPT !.still = left(q)]
    <3>1. req'[s] = t
      BY <1>3, <2>2
    <3>2. /\ Shape(q) /\ q.step \in {"idle", "plan", "deploy", "get", "patch", "done"}
          /\ q.step \notin {"idle", "done"} => Works(q, latest)
      BY DEF EditsInv, TypeInv
    <3>3. /\ t.step = q.step /\ t.op = q.op /\ t.copy = q.copy /\ t.list = q.list
          /\ t.todo = q.todo /\ t.cat = q.cat
      BY <3>2 DEF Shape
    <3> HIDE DEF q, t
    <3> QED
      BY <3>1, <3>2, <3>3 DEF Works
  <2> QED
    BY <2>1, <2>2
<1>5. faults' \in 0..MaxFaults
  BY FaultsTyped
<1> QED
  BY <1>1, <1>2, <1>4, <1>5 DEF TypeInv

LEMMA PatchTyped ==
    ASSUME EditsInv, TypeInv, NEW r \in Requests, Patch(r)
    PROVE  TypeInv'
<1> DEFINE q == req[r]
           p == PatchOf(r, q)
<1>1. q.step = "patch" /\ UNCHANGED <<calm, steady, guest, catalog>>
  BY DEF Patch
<1>2. Fits(q, cr) /\ Works(q, latest)
  BY <1>1 DEF EditsInv, TypeInv
<1> HIDE DEF q
<1>3. IsPatch(p) /\ Sound(p, latest)
  BY <1>2, PatchIsHarmless, PatchIsSound DEF Harmless
<1> HIDE DEF p
<1>4. \A pruned \in Pruned(q.op, p) : IsPatch(pruned) /\ Sound(pruned, latest)
  BY <1>3, PrunedIsPatch, PrunedIsSound
<1>5. CASE Stores(r, p) /\ NoFault
  BY <1>1, <1>3, <1>5, StoresTyped
<1>6. CASE \E pruned \in Pruned(q.op, p) : Stores(r, pruned) /\ Fault
  BY <1>1, <1>4, <1>6, StoresTyped
<1>7. CASE UNCHANGED cr /\ Goes(r, Done) /\ Fault
  BY <1>1, <1>7, EndTyped
<1> QED
  BY <1>5, <1>6, <1>7 DEF Patch, p, q

LEMMA CatalogTyped ==
    ASSUME EditsInv, TypeInv, NEW a \in Apps, CatalogSave(a) \/ CatalogDelete(a)
    PROVE  TypeInv'
<1>1. /\ latest \in [Apps -> 1..MaxRevision] /\ cat = [b \in Apps |-> cat[b]]
      /\ \A b \in Apps : guest[b] \in [Places -> 0..latest[b]] /\ cat[b] \in {0, latest[b]}
  BY DEF TypeInv
<1>2. UNCHANGED <<calm, steady, cr, guest, req, faults>>
  BY DEF CatalogSave, CatalogDelete
<1>3. /\ latest' \in [Apps -> 1..MaxRevision] /\ Grows(latest, latest')
      /\ cat' = [b \in Apps |-> cat'[b]] /\ \A b \in Apps : cat'[b] \in {0, latest'[b]}
  BY <1>1, BoundAssumption DEF CatalogSave, CatalogDelete, Grows
<1>4. \A b \in Apps : guest[b] \in [Places -> 0..latest'[b]]
  <2>1. \A b \in Apps : 0..latest[b] \subseteq 0..latest'[b]
    BY <1>3 DEF Grows
  <2> QED
    BY <1>1, <2>1
<1>5. ASSUME NEW r \in Requests, req[r].step \notin {"idle", "done"}
      PROVE  Works(req[r], latest')
  BY <1>3, <1>5, WorksGrows DEF TypeInv, EditsInv, Fits
<1>6. Sound(cr, latest')
  BY <1>3, SoundGrows DEF TypeInv
<1> QED
  BY <1>2, <1>3, <1>4, <1>5, <1>6 DEF TypeInv

LEMMA CreatedIsSound ==
    ASSUME NEW apps, NEW set, NEW oidc \in SUBSET Settings, NEW flags \in FlagLists,
           NEW last \in [Apps -> Nat \ {0}]
    PROVE  Sound(Created(apps, set, oidc, flags), last)
<1> DEFINE new == Installed(1, TRUE, Standard)
           d == Created(apps, set, oidc, flags)
<1>1. new \in [rev : {1}, ok : BOOLEAN, as : Release]
  BY AppAssumption DEF Installed, Standard, Release
<1>2. \A f \in Fields : d[f].v = (CASE f \in Apps -> IF f \in apps THEN new ELSE None
                               [] f = "sans" -> IF "endpoint" \in set THEN {First} ELSE {}
                               [] f = "oidc" -> oidc
                               [] f = "args" -> flags
                               [] OTHER -> f \in Always \cup set) /\ d[f].by = First
  BY EntryFields DEF Created
<1> HIDE DEF new, d
<1>3. ASSUME NEW f \in Fields PROVE d[f].by \in Authors /\ d[f].v \in Values(f, last)
  <2>1. d[f].by \in Authors
    BY <1>2 DEF Authors
  <2>2. CASE f \in Apps
    <3>1. d[f].v \in {new, None}
      BY <1>2, <2>2, FieldKinds
    <3>2. new \in [rev : 1..last[f], ok : BOOLEAN, as : Release]
      BY <1>1, <2>2
    <3> QED
      BY <2>1, <2>2, <3>1, <3>2 DEF Values
  <2>3. CASE f \in {"sans", "oidc", "args"}
    BY <1>2, <2>1, <2>3, FieldKinds DEF Values, Authors
  <2>4. CASE f \notin Apps /\ f \notin {"sans", "oidc", "args"}
    <3> DEFINE b == f \in Always \cup set
    <3>1. d[f].v = b
      BY <1>2, <2>4
    <3>2. b \in BOOLEAN
      OBVIOUS
    <3> HIDE DEF b
    <3> QED
      BY <2>1, <2>4, <3>1, <3>2 DEF Values
  <2> QED
    BY <2>2, <2>3, <2>4
<1> QED
  BY <1>3 DEF Sound, d

LEMMA GivenFlags == \A given \in SUBSET Settings : [s \in given |-> First] \in FlagLists
BY DEF FlagLists, Authors

LEMMA InitTyped == Init => TypeInv
<1> SUFFICES ASSUME Init PROVE TypeInv
  OBVIOUS
<1>1. /\ calm \in BOOLEAN /\ faults \in 0..MaxFaults
      /\ latest = [a \in Apps |-> 1] /\ cat = latest
  BY BoundAssumption DEF Init
<1>6. steady \in BOOLEAN
  BY DEF Init
<1>5. latest \in [Apps -> 1..MaxRevision] /\ latest \in [Apps -> Nat \ {0}]
  BY <1>1, BoundAssumption
<1>2. /\ guest = [a \in Apps |-> guest[a]]
      /\ \A a \in Apps : guest[a] \in [Places -> 0..latest[a]]
  BY <1>1 DEF Init
<1>3. Sound(cr, latest)
  <2>1. NoFlags \in FlagLists /\ \A given \in {{}, Settings} : [s \in given |-> First] \in FlagLists
    BY GivenFlags DEF NoFlags
  <2>2. \E apps, set : \E oidc \in SUBSET Settings, flags \in FlagLists :
           cr = Created(apps, set, oidc, flags)
    BY <2>1 DEF Init
  <2> QED
    BY <1>5, <2>2, CreatedIsSound
<1>4. \A r \in Requests : req[r].step = "idle"
  BY DEF Init, Idle
<1> QED
  BY <1>1, <1>2, <1>3, <1>4, <1>5, <1>6 DEF TypeInv

LEMMA NextTyped == EditsInv /\ TypeInv /\ [Next]_vars => TypeInv'
<1> SUFFICES ASSUME EditsInv, TypeInv, [Next]_vars PROVE TypeInv'
  OBVIOUS
<1>1. ASSUME NEW r \in Requests, NEW op \in Operation, Begin(r, op)
      PROVE  TypeInv'
  BY <1>1, BeginTyped
<1>2. ASSUME NEW r \in Requests, Plan(r)
      PROVE  TypeInv'
  BY <1>2, PlanTyped
<1>3. ASSUME NEW r \in Requests, NEW a \in Apps, Install(r, a) \/ Sync(r, a) \/ Uninstall(r, a)
      PROVE  TypeInv'
  BY <1>3, InstallTyped, SyncTyped, UninstallTyped
<1>4. ASSUME NEW r \in Requests, ReadAgain(r) \/ Patch(r)
      PROVE  TypeInv'
  BY <1>4, ReadAgainTyped, PatchTyped
<1>5. CASE Restart
  <2>1. /\ req' = [r \in Requests |-> IF r \in Under THEN Done ELSE req[r]]
        /\ UNCHANGED <<calm, steady, cr, guest, cat, latest>> /\ Fault
    BY <1>5 DEF Restart, catalog
  <2>2. Done.step = "done"
    BY IdleShape DEF Done, Shape
  <2>3. faults' \in 0..MaxFaults
    BY <2>1, FaultsTyped
  <2> QED
    BY <2>1, <2>2, <2>3 DEF TypeInv
<1>6. CASE \E a \in Apps : CatalogSave(a) \/ CatalogDelete(a)
  BY <1>6, CatalogTyped
<1>7. CASE UNCHANGED vars
  BY <1>7 DEF vars, TypeInv
<1> QED
  BY <1>1, <1>2, <1>3, <1>4, <1>5, <1>6, <1>7 DEF Next

LEMMA TypeInvImplies == EditsInv /\ TypeInv => TypeOK
<1> SUFFICES ASSUME EditsInv, TypeInv PROVE TypeOK
  OBVIOUS
<1>1. DOMAIN cr = Fields
  BY DEF EditsInv, IsDoc
<1>2. \A a \in Apps : 1..latest[a] \subseteq 1..MaxRevision
  BY BoundAssumption DEF TypeInv
<1>3. ASSUME NEW f \in Fields
      PROVE  /\ cr[f].by \in Authors
             /\ CASE f \in Apps -> cr[f].v \in {None} \cup [rev : 1..MaxRevision, ok : BOOLEAN, as : Release]
                  [] f = "sans" -> cr[f].v \subseteq Authors
                  [] f = "oidc" -> cr[f].v \subseteq Settings
                  [] f = "args" -> cr[f].v \in UNION {[set -> Authors] : set \in SUBSET Settings}
                  [] OTHER -> cr[f].v \in BOOLEAN
  <2>1. cr[f].by \in Authors /\ cr[f].v \in Values(f, latest)
    BY <1>1 DEF TypeInv, Sound
  <2>2. CASE f \in Apps
    BY <1>2, <2>1, <2>2, FieldKinds DEF Values
  <2>3. CASE f \in {"sans", "oidc", "args"}
    BY <2>1, <2>3, FieldKinds DEF Values, FlagLists
  <2>4. CASE f \notin Apps /\ f \notin {"sans", "oidc", "args"}
    BY <2>1, <2>4 DEF Values
  <2> QED
    BY <2>2, <2>3, <2>4
<1>4. \A a \in Apps : \A p \in Places : guest[a][p] \in 0..latest[a]
  BY DEF TypeInv
<1> QED
  BY <1>1, <1>3, <1>4 DEF TypeOK, TypeInv

\* Every variable stays in its type: whatever is refused, lost or restarted on the way, no
\* request stores or deploys a revision that the application's history does not have.
THEOREM TypeCorrect == Spec => []TypeOK
<1>1. Init => TypeInv
  BY InitTyped
<1>2. EditsInv /\ TypeInv /\ [Next]_vars => TypeInv'
  BY NextTyped
<1>3. EditsInv /\ TypeInv => TypeOK
  BY TypeInvImplies
<1> QED
  BY <1>1, <1>2, <1>3, CopiesStayCurrent, PTL DEF Spec

-----------------------------------------------------------------------------
(* Requests that do not overlap or fail.                                   *)

AppKinds == {"install", "uninstall", "sync"}

\* What an edit configured of single sign-on is the flags of that edit, and what is beside
\* them, the prefix of an earlier one; the endpoint is among the certificate's names.
Settled(d) ==
    LET set == d["oidc"].v
        flags == d["args"].v
    IN  /\ d["oidc"].by # First =>
              \A s \in set : s \in DOMAIN flags /\ flags[s] = d["oidc"].by
        /\ DOMAIN flags \subseteq set \cup (IF set = {} THEN {} ELSE {"prefix"})
        /\ d["endpoint"].v => d["endpoint"].by \in d["sans"].v

\* An application that has always had a release of its name in one place runs nowhere
\* else, and not there either once it is not listed any more.
Tidy(e, g) ==
    /\ e = None => \A p \in Places : g[p] = 0
    /\ e # None => e.as = Standard /\ \A p \in Places \ {Home} : g[p] = 0

\* A chart runs as a document says.
Runs(d, g, a, tidy) ==
    /\ d[a].v # None /\ d[a].v.ok => g[d[a].v.as.at] = d[a].v.rev
    /\ tidy => Tidy(d[a].v, g)

GuestRuns(d, g, tidy) == \A a \in HelmApps : Runs(d, g[a], a, tidy)

\* What is still to be removed is where the copy says.
Removes(q, g, tidy) ==
    \A a \in q.todo :
        /\ q.list[a].v = None /\ q.copy[a].v # None
        /\ a \in HelmApps /\ tidy => Tidy(q.copy[a].v, g[a])

\* The only request under way works from the stored object; while it deploys, the guest
\* runs what its list says, except for what is still to be removed.
Busy(q, doc, g, tidy) ==
    /\ q.step = "patch" /\ q.op.kind \notin Blind => q.copy = doc
    /\ q.op.kind \in {"join", "leave"} => q.list = doc
    /\ q.op.kind \notin AppKinds => GuestRuns(doc, g, tidy)
    /\ q.op.kind \in AppKinds =>
          /\ q.step # "get"
          /\ q.step = "patch" => q.todo = {}
          /\ q.op.kind = "uninstall" => Removes(q, g, tidy)
          /\ \A a \in HelmApps :
                (q.op.kind = "uninstall" /\ a \in q.todo) \/ Runs(q.list, g[a], a, tidy)

CalmInv ==
    calm =>
        /\ Settled(cr)
        /\ \A r, s \in Under : r = s
        /\ Under = {} => GuestRuns(cr, guest, steady)
        /\ \A r \in Under : Busy(req[r], cr, guest, steady)

\* What a patch says of a field it is not about is what is stored, or listed.
LEMMA PatchRepeats ==
    ASSUME NEW r \in Requests, NEW q, NEW doc, Fits(q, doc), IsDoc(doc),
           q.op.kind \notin Blind => q.copy = doc,
           q.op.kind \in {"join", "leave"} => q.list = doc,
           NEW f \in DOMAIN PatchOf(r, q)
    PROVE  /\ f \notin About(q.op) \cup Recovery \cup Apps => PatchOf(r, q)[f] = doc[f]
           /\ f \in Apps /\ q.op.kind \notin AppKinds => f \in About(q.op) \/ PatchOf(r, q)[f] = doc[f]
<1> USE DEF Plain, Blind
<1> DEFINE base == With(Annotations(doc), Raw(doc))
           p == PatchOf(r, q)
           Repeats(set) ==
              /\ IsPatch(set)
              /\ p = With(base, set) \/ p = With(Annotations(doc), set) \/ p = With(Restrict(doc, Components), set)
              /\ \A g \in DOMAIN set : g \notin About(q.op) => set[g] = doc[g]
<1>1. ASSUME NEW set, Repeats(set), f \notin About(q.op)
      PROVE  p[f] = doc[f]
  <2>1. /\ IsPatch(base) /\ \A g \in DOMAIN base : base[g] = doc[g]
        /\ IsPatch(Annotations(doc)) /\ \A g \in DOMAIN Annotations(doc) : Annotations(doc)[g] = doc[g]
    BY RawOverAnnotations, AnnotationsCopied
  <2>2. Components \subseteq Fields
    BY DEF Fields
  <2>3. /\ IsPatch(Restrict(doc, Components))
        /\ \A g \in DOMAIN Restrict(doc, Components) : Restrict(doc, Components)[g] = doc[g]
    BY <2>2, CopiesArePatches
  <2> DEFINE copied == Restrict(doc, Components)
             annotated == Annotations(doc)
  <2> HIDE DEF base, p, copied, annotated
  <2>4. PICK b \in {base, annotated, copied} : p = With(b, set)
    BY <1>1 DEF copied, annotated
  <2>5. IsPatch(b) /\ \A g \in DOMAIN b : b[g] = doc[g]
    BY <2>1, <2>3 DEF copied, annotated
  <2>6. p[f] = IF f \in DOMAIN set THEN set[f] ELSE doc[f]
    BY <1>1, <2>4, <2>5, SetOverCopies DEF p
  <2> QED
    BY <1>1, <2>6
<1> HIDE DEF base
<1>2. CASE q.op.kind = "owner"
  <2> DEFINE set == [g \in {"owner"} |-> Entry(TRUE, r)]
  <2>1. p = With(Annotations(doc), set)
    BY <1>2 DEF PatchOf, OwnerPatch
  <2>2. IsPatch(set) /\ DOMAIN set = {"owner"} /\ About(q.op) = {"owner"}
    BY <1>2, EntriesArePatches DEF About
  <2> HIDE DEF set
  <2>3. Repeats(set)
    BY <2>1, <2>2
  <2> QED
    BY <1>1, <2>3
<1>3. CASE q.op.kind = "groups"
  <2> DEFINE member == [g \in Groups |-> Entry(g \in q.op.of, r)]
             set == [g \in Groups |-> member[g]]
  <2>1. p = With(Annotations(doc), set)
    BY <1>3 DEF PatchOf, GroupsPatch
  <2>2. IsPatch(set) /\ DOMAIN set = Groups /\ About(q.op) = Groups
    BY <1>3 DEF About, IsPatch, Entry
  <2> HIDE DEF set
  <2>3. Repeats(set)
    BY <2>1, <2>2
  <2> QED
    BY <1>1, <2>3
<1>4. CASE q.op.kind \in {"join", "leave"}
  <2> DEFINE set == [g \in Groups |-> Joined(r, q)[g]]
  <2>1. p = With(Annotations(doc), set)
    BY <1>4 DEF PatchOf, GroupsPatch
  <2>2. DOMAIN set = Groups /\ About(q.op) = q.op.of
    BY <1>4 DEF About
  <2>3. \A g \in Groups : doc[g] = [v |-> doc[g].v, by |-> doc[g].by]
    BY DEF IsDoc, Fields
  <2>4. \A g \in Groups : set[g] = IF g \in q.op.of THEN Entry(q.op.kind = "join", r) ELSE doc[g]
    BY <1>4 DEF Joined
  <2> DEFINE e == Entry(q.op.kind = "join", r)
  <2>5. e = [v |-> e.v, by |-> e.by]
    BY EntryIsRecord
  <2> HIDE DEF set, e
  <2>6. IsPatch(set)
    BY <2>2, <2>3, <2>4, <2>5 DEF IsPatch, e
  <2>7. Repeats(set)
    BY <2>1, <2>2, <2>4, <2>6
  <2> QED
    BY <1>1, <2>7
<1>5. CASE q.op.kind \in {"oidc", "noOidc", "apply"}
  <2>1. q.copy = doc /\ p = OidcPatch(r, q)
    BY <1>5 DEF PatchOf
  <2>2. PICK set : OidcPatch(r, q) = With(base, set) /\ SetsSingleSignOn(set, r)
    BY <2>1, OidcPatchParts DEF base
  <2>3. About(q.op) = {"oidc", "args"}
    BY <1>5 DEF About
  <2>4. Repeats(set)
    BY <2>1, <2>2, <2>3 DEF SetsSingleSignOn
  <2> QED
    BY <1>1, <2>4
<1>6. CASE q.op.kind = "endpoint"
  <2> DEFINE sans == Entry(doc["sans"].v \cup {r}, r)
             set == [g \in {"endpoint", "sans"} |-> IF g = "sans" THEN sans ELSE Entry(TRUE, r)]
  <2>1. p = With(base, set)
    BY <1>6 DEF PatchOf, EndpointPatch, base
  <2>2. /\ IsPatch(set) /\ DOMAIN set = {"endpoint", "sans"}
        /\ About(q.op) = {"endpoint", "sans"}
    BY <1>6 DEF IsPatch, Entry, About
  <2> HIDE DEF set
  <2>3. Repeats(set)
    BY <2>1, <2>2
  <2> QED
    BY <1>1, <2>3
<1>7. CASE q.op.kind = "noEndpoint"
  <2> DEFINE S == {g \in {"endpoint"} : doc[g].v}
             set == [g \in S |-> Entry(FALSE, r)]
  <2>1. p = With(base, set)
    BY <1>7 DEF PatchOf, EndpointPatch, base
  <2>2. S \subseteq {"endpoint"} /\ About(q.op) = {"endpoint"}
    BY <1>7 DEF About
  <2> HIDE DEF S
  <2>3. IsPatch(set) /\ DOMAIN set = S
    BY EntriesArePatches
  <2> HIDE DEF set
  <2>4. Repeats(set)
    BY <2>1, <2>2, <2>3
  <2> QED
    BY <1>1, <2>4
<1>8. CASE q.op.kind \in {"istio", "gateway"}
  <2> DEFINE set == [g \in {q.op.kind} |-> Entry(TRUE, r)]
  <2>1. p = With(Restrict(doc, Components), set)
    BY <1>8 DEF PatchOf, ComponentPatch
  <2>2. IsPatch(set) /\ DOMAIN set = {q.op.kind} /\ About(q.op) = {q.op.kind}
    BY <1>8, EntriesArePatches DEF About
  <2> HIDE DEF set
  <2>3. Repeats(set)
    BY <2>1, <2>2
  <2> QED
    BY <1>1, <2>3
<1>9. CASE q.op.kind = "restore"
  <2>1. DOMAIN p = Recovery
    BY <1>9 DEF PatchOf, RestorePatch
  <2> QED
    BY <2>1, FieldKinds
<1>10. CASE q.op.kind \in AppKinds
  <2> DEFINE set == Restrict(q.list, Apps)
  <2>1. p = With(Annotations(doc), set)
    BY <1>10 DEF PatchOf, AppsPatch, AppKinds
  <2>2. IsDoc(q.list) /\ Apps \subseteq Fields
    BY <1>10 DEF Fits, Fields, AppKinds
  <2>3. IsPatch(set) /\ DOMAIN set = Apps
    BY <2>2, CopiesArePatches
  <2>4. IsPatch(Annotations(doc)) /\ \A g \in DOMAIN Annotations(doc) : Annotations(doc)[g] = doc[g]
    BY AnnotationsCopied
  <2> HIDE DEF set
  <2>5. p[f] = IF f \in DOMAIN set THEN set[f] ELSE doc[f]
    BY <2>1, <2>3, <2>4, SetOverCopies
  <2> QED
    BY <1>10, <2>3, <2>5
<1>11. CASE q.op.kind \in {"sleep", "wake", "upgrade", "schedule"}
  <2>1. DOMAIN p = About(q.op)
    BY <1>11 DEF PatchOf
  <2> QED
    BY <2>1
<1> QED
  BY <1>2, <1>3, <1>4, <1>5, <1>6, <1>7, <1>8, <1>9, <1>10, <1>11 DEF Fits, Kinds, AppKinds

LEMMA SetFields ==
    ASSUME NEW base, NEW set, NEW f \in DOMAIN set
    PROVE  f \in DOMAIN With(base, set) /\ With(base, set)[f] = set[f]
BY DEF With

LEMMA TrueEntry == \A by : Entry(TRUE, by).v /\ Entry(TRUE, by).by = by
BY EntryFields

LEMMA FalseEntry == \A by : ~Entry(FALSE, by).v /\ Entry(FALSE, by).by = by
BY EntryFields

LEMMA FlagsOf ==
    ASSUME NEW flags, NEW set, NEW r
    PROVE  /\ set = {} => DOMAIN Flags(flags, set, r) = {}
           /\ set # {} => /\ DOMAIN Flags(flags, set, r) = (DOMAIN flags \ {"ca"}) \cup set
                          /\ \A s \in set : Flags(flags, set, r)[s] = r
<1>1. CASE set = {}
  BY <1>1 DEF Flags, NoFlags
<1>2. CASE set # {}
  <2> DEFINE kept == Restrict(flags, DOMAIN flags \ {"ca"})
             new == [s \in set |-> r]
  <2>1. Flags(flags, set, r) = With(kept, new)
    BY <1>2 DEF Flags
  <2>2. DOMAIN kept = DOMAIN flags \ {"ca"} /\ DOMAIN new = set /\ \A s \in set : new[s] = r
    BY DEF Restrict
  <2> HIDE DEF kept, new
  <2> QED
    BY <1>2, <2>1, <2>2 DEF With
<1> QED
  BY <1>1, <1>2

\* Whatever the request, single sign-on and the endpoint stay settled.
LEMMA PatchSettles ==
    ASSUME NEW r \in Requests, NEW q, NEW doc, Fits(q, doc), IsDoc(doc), Settled(doc),
           q.op \in Operation, DOMAIN doc["args"].v \subseteq Settings,
           q.op.kind \notin Blind => q.copy = doc,
           q.op.kind \in {"join", "leave"} => q.list = doc
    PROVE  Settled(Merge(PatchOf(r, q), doc))
<1> DEFINE p == PatchOf(r, q)
           new == Merge(p, doc)
           base == With(Annotations(doc), Raw(doc))
<1>1. \A f \in Fields : new[f] = IF f \in DOMAIN p THEN p[f] ELSE doc[f]
  BY DEF IsDoc, Merge
<1> HIDE DEF p, new
<1> SUFFICES Settled(new)
  BY DEF new, p
<1>2. ASSUME NEW f \in Fields, f \notin About(q.op), f \notin Recovery, f \notin Apps
      PROVE  new[f] = doc[f]
  BY <1>1, <1>2, PatchRepeats DEF p
<1>3. {"oidc", "args", "endpoint", "sans"} \cap (Recovery \cup Apps \cup Groups) = {}
  BY FieldKinds DEF Recovery
<1>4. {"oidc", "args", "endpoint", "sans"} \subseteq Fields
  BY FieldKinds
<1>5. CASE q.op.kind \in {"oidc", "noOidc", "apply"}
  <2> DEFINE set == Configured(q.op)
             flags == Flags(doc["args"].v, set, r)
             before == DOMAIN doc["args"].v
  <2>1. q.copy = doc /\ p = OidcPatch(r, q)
    BY <1>5 DEF p, PatchOf, Blind
  <2>2. PICK e : /\ OidcPatch(r, q) = With(base, e)
                 /\ SetsSingleSignOn(e, r)
                 /\ e["oidc"].v = set
                 /\ "args" \in DOMAIN e => e["args"].v = flags
                 /\ "args" \notin DOMAIN e => set = {} /\ ~Written(doc["args"], NoFlags)
    BY <2>1, OidcPatchParts
  <2>3. About(q.op) = {"oidc", "args"}
    BY <1>5 DEF About
  <2>4. new["endpoint"] = doc["endpoint"] /\ new["sans"] = doc["sans"]
    BY <1>2, <1>3, <1>4, <2>3
  <2>5. set = {} \/ "provider" \in set
    BY DEF Configured
  <2>6. /\ set = {} => DOMAIN flags = {}
        /\ set # {} => DOMAIN flags = (before \ {"ca"}) \cup set /\ \A s \in set : flags[s] = r
    <3> DEFINE old == doc["args"].v
    <3> HIDE DEF set, old
    <3>1. LET now == Flags(old, set, r)
          IN  /\ set = {} => DOMAIN now = {}
              /\ set # {} => /\ DOMAIN now = (DOMAIN old \ {"ca"}) \cup set
                             /\ \A s \in set : now[s] = r
      BY FlagsOf
    <3> QED
      BY <3>1 DEF old
  <2>7. before \subseteq {"provider", "prefix", "ca"}
    BY DEF Settings, Optional
  <2>8. /\ "oidc" \in DOMAIN e /\ \A f \in DOMAIN e : e[f].by = r
    BY <2>2 DEF SetsSingleSignOn
  <2>9. ~Written(doc["args"], NoFlags) => before = {}
    BY DEF Written, NoFlags
  <2>13. new["endpoint"].v => new["endpoint"].by \in new["sans"].v
    BY <2>4 DEF Settled
  <2> HIDE DEF set, flags, before
  <2>10. new["oidc"].v = set /\ new["oidc"].by = r
    BY <1>1, <1>4, <2>1, <2>2, <2>8, SetFields
  <2>11. CASE "args" \in DOMAIN e
    <3>1. new["args"].v = flags
      BY <1>1, <1>4, <2>1, <2>2, <2>11, SetFields
    <3> QED
      BY <2>5, <2>6, <2>7, <2>10, <2>13, <3>1 DEF Settled
  <2>12. CASE "args" \notin DOMAIN e
    <3>1. IsPatch(base) /\ \A g \in DOMAIN base : base[g] = doc[g]
      BY RawOverAnnotations
    <3> HIDE DEF base
    <3>2. "args" \notin DOMAIN p \/ p["args"] = doc["args"]
      BY <2>1, <2>2, <2>12, <3>1 DEF With
    <3>3. new["args"] = doc["args"]
      BY <1>1, <1>4, <3>2
    <3>4. set = {} /\ DOMAIN new["args"].v = {}
      BY <2>2, <2>9, <2>12, <3>3 DEF before
    <3> QED
      BY <2>10, <2>13, <3>4 DEF Settled
  <2> QED
    BY <2>11, <2>12
<1>6. CASE q.op.kind = "endpoint"
  <2> DEFINE sans == Entry(doc["sans"].v \cup {r}, r)
             set == [g \in {"endpoint", "sans"} |-> IF g = "sans" THEN sans ELSE Entry(TRUE, r)]
  <2>1. p = With(base, set)
    BY <1>6 DEF p, PatchOf, EndpointPatch, Blind
  <2>2. /\ DOMAIN set = {"endpoint", "sans"} /\ set["sans"] = sans
        /\ set["endpoint"] = Entry(TRUE, r)
    OBVIOUS
  <2>3. About(q.op) = {"endpoint", "sans"}
    BY <1>6 DEF About
  <2>4. new["oidc"] = doc["oidc"] /\ new["args"] = doc["args"]
    BY <1>2, <1>3, <1>4, <2>3
  <2>5. sans.v = doc["sans"].v \cup {r}
    BY EntryFields
  <2> HIDE DEF set, sans
  <2>6. new["sans"] = sans /\ new["endpoint"] = Entry(TRUE, r)
    BY <1>1, <1>4, <2>1, <2>2, SetFields
  <2> HIDE DEF base
  <2>7. new["endpoint"].by \in new["sans"].v
    BY <2>5, <2>6, TrueEntry
  <2> QED
    BY <2>4, <2>7 DEF Settled
<1>7. CASE q.op.kind = "noEndpoint"
  <2> DEFINE S == {g \in {"endpoint"} : doc[g].v}
             set == [g \in S |-> Entry(FALSE, r)]
  <2>1. p = With(base, set)
    BY <1>7 DEF p, PatchOf, EndpointPatch, Blind
  <2>2. About(q.op) = {"endpoint"}
    BY <1>7 DEF About
  <2>3. new["oidc"] = doc["oidc"] /\ new["args"] = doc["args"]
    BY <1>2, <1>3, <1>4, <2>2
  <2>4. DOMAIN set = S /\ \A g \in S : set[g] = Entry(FALSE, r)
    OBVIOUS
  <2>5. ~new["endpoint"].v
    <3>1. CASE doc["endpoint"].v
      <4>1. "endpoint" \in S
        BY <3>1
      <4> HIDE DEF set, S
      <4>2. new["endpoint"] = Entry(FALSE, r)
        BY <1>1, <1>4, <2>1, <2>4, <4>1, SetFields
      <4> QED
        BY <4>2, FalseEntry
    <3>2. CASE ~doc["endpoint"].v
      <4>1. S = {}
        BY <3>2
      <4>2. IsPatch(base) /\ \A g \in DOMAIN base : base[g] = doc[g]
        BY RawOverAnnotations
      <4> HIDE DEF base, set, S
      <4>3. "endpoint" \notin DOMAIN p \/ p["endpoint"] = doc["endpoint"]
        BY <2>1, <2>4, <4>1, <4>2 DEF With
      <4> QED
        BY <1>1, <1>4, <3>2, <4>3
    <3> QED
      BY <3>1, <3>2
  <2> QED
    BY <2>3, <2>5 DEF Settled
<1>8. CASE q.op.kind \notin {"oidc", "noOidc", "apply", "endpoint", "noEndpoint"}
  <2>1. About(q.op) \cap {"oidc", "args", "endpoint", "sans"} = {}
    BY <1>3, <1>8, OperationParts DEF About, Fits, Kinds, Plain, Blind
  <2>2. \A f \in {"oidc", "args", "endpoint", "sans"} : new[f] = doc[f]
    BY <1>2, <1>3, <1>4, <2>1
  <2> QED
    BY <2>2 DEF Settled
<1> QED
  BY <1>5, <1>6, <1>7, <1>8

\* The stored list of applications changes only to that of a request about them.
LEMMA PatchLists ==
    ASSUME NEW r \in Requests, NEW q, NEW doc, Fits(q, doc), IsDoc(doc), q.op \in Operation,
           q.op.kind \notin Blind => q.copy = doc,
           q.op.kind \in {"join", "leave"} => q.list = doc,
           NEW a \in Apps
    PROVE  Merge(PatchOf(r, q), doc)[a] = IF q.op.kind \in AppKinds THEN q.list[a] ELSE doc[a]
<1> DEFINE p == PatchOf(r, q)
           new == Merge(p, doc)
<1>1. new[a] = IF a \in DOMAIN p THEN p[a] ELSE doc[a]
  BY FieldKinds DEF IsDoc, Merge
<1> HIDE DEF p, new
<1>2. CASE q.op.kind \in AppKinds
  <2>1. p = With(Annotations(doc), Restrict(q.list, Apps))
    BY <1>2 DEF p, PatchOf, AppsPatch, AppKinds, Plain, Blind
  <2>2. DOMAIN Restrict(q.list, Apps) = Apps /\ Restrict(q.list, Apps)[a] = q.list[a]
    BY DEF Restrict
  <2>3. a \in DOMAIN p /\ p[a] = q.list[a]
    BY <2>1, <2>2, SetFields
  <2> QED
    BY <1>1, <1>2, <2>3 DEF new, p
<1>3. CASE q.op.kind \notin AppKinds
  <2>1. a \notin About(q.op)
    BY <1>3, FieldKinds, OperationParts
       DEF About, Fits, Kinds, Plain, Blind, AppKinds, Components, Recovery
  <2>2. a \in DOMAIN p => p[a] = doc[a]
    BY <1>3, <2>1, PatchRepeats DEF p
  <2> QED
    BY <1>1, <1>3, <2>2 DEF new, p
<1> QED
  BY <1>2, <1>3

\* The only request under way moves on.
LEMMA CalmGoes ==
    ASSUME EditsInv, CalmInv, calm, UNCHANGED <<calm, steady, cr>>, NEW r \in Requests, NEW q, Goes(r, q),
           Under \subseteq {r},
           Ended(q) => GuestRuns(cr, guest', steady),
           ~Ended(q) => Busy(q, cr, guest', steady)
    PROVE  CalmInv'
<1>1. req' = [s \in Requests |-> IF s = r THEN q ELSE req[s]]
  BY DEF EditsInv, Goes
<1>2. Under' = IF Ended(q) THEN {} ELSE {r}
  <2>1. \A s \in Requests : s \in Under' <=> s = r /\ ~Ended(q)
    BY <1>1 DEF Under, Ended
  <2> QED
    BY <2>1 DEF Under
<1> QED
  BY <1>1, <1>2 DEF CalmInv

LEMMA CalmUnder ==
    ASSUME CalmInv, calm, NEW r \in Requests, ~Ended(req[r])
    PROVE  /\ r \in Under /\ Under \subseteq {r} /\ Busy(req[r], cr, guest, steady)
           /\ Settled(cr)
BY DEF CalmInv, Under, Ended

LEMMA CalmFault == calm => ~Fault
BY DEF Fault

LEMMA BeginCalm ==
    ASSUME EditsInv, CalmInv, calm, NEW r \in Requests, NEW op \in Operation, Begin(r, op)
    PROVE  CalmInv'
<1>1. UNCHANGED <<calm, steady, cr, guest>> /\ Under = {}
  BY DEF Begin, BeginEdit, BeginBlindEdit, BeginRestore, BeginFleetEdit, BeginApps, Begins
<1>2. GuestRuns(cr, guest, steady)
  BY <1>1 DEF CalmInv
<1>3. CASE Goes(r, Done)
  BY <1>1, <1>2, <1>3, IdleShape, CalmGoes
<1>4. ASSUME NEW q, Goes(r, q), q.op = op, q.step \in {"plan", "deploy", "get", "patch"},
             q.step = "patch" /\ op.kind \notin Blind => q.copy = cr,
             op.kind \in {"join", "leave"} => q.list = cr,
             op.kind \in AppKinds =>
                q.step \in {"plan", "deploy"} /\ (op.kind # "uninstall" => q.list = cr),
             op.kind = "uninstall" =>
                /\ Removes(q, guest, steady)
                /\ \A a \in HelmApps : a \in q.todo \/ Runs(q.list, guest[a], a, steady)
      PROVE  CalmInv'
  <2>1. Busy(q, cr, guest, steady)
    BY <1>2, <1>4 DEF Busy, AppKinds, GuestRuns
  <2>2. ~Ended(q)
    BY <1>4 DEF Ended
  <2> QED
    BY <1>1, <1>4, <2>1, <2>2, CalmGoes
<1>5. CASE BeginEdit(r, op)
  <2> DEFINE q == Started(op, "patch")
  <2>1. CASE Goes(r, q)
    <3>1. op.kind \in Plain \cup {"groups", "oidc"}
      BY <1>5 DEF BeginEdit
    <3>2. q.op = op /\ q.step = "patch" /\ q.copy = cr
      BY StartedFits
    <3> HIDE DEF q
    <3> QED
      BY <1>4, <2>1, <3>1, <3>2 DEF Plain, AppKinds
  <2> QED
    BY <1>3, <1>5, <2>1 DEF BeginEdit
<1>6. CASE BeginBlindEdit(r, op)
  <2> DEFINE t == [Started(op, "patch") EXCEPT !.copy = None, !.list = None]
  <2>1. op.kind \in Blind /\ Goes(r, t)
    BY <1>6 DEF BeginBlindEdit
  <2>2. t.op = op /\ t.step = "patch"
    BY StartedFits DEF Shape
  <2> HIDE DEF t
  <2> QED
    BY <1>4, <2>1, <2>2 DEF Blind, AppKinds
<1>7. CASE BeginRestore(r, op)
  <2>1. PICK listed \in BOOLEAN : Goes(r, [Started(op, "patch") EXCEPT !.listed = listed])
    BY <1>7 DEF BeginRestore
  <2>2. op.kind = "restore"
    BY <1>7 DEF BeginRestore
  <2> DEFINE t == [Started(op, "patch") EXCEPT !.listed = listed]
  <2>3. Goes(r, t)
    BY <2>1
  <2>4. t.op = op /\ t.step = "patch" /\ t.copy = cr
    BY StartedFits DEF Shape
  <2> HIDE DEF t
  <2> QED
    BY <1>4, <2>2, <2>3, <2>4 DEF AppKinds
<1>8. CASE BeginFleetEdit(r, op)
  <2> DEFINE q == Started(op, "get")
  <2>1. CASE Goes(r, q)
    <3>1. op.kind \in {"join", "leave", "apply"}
      BY <1>8 DEF BeginFleetEdit
    <3>2. q.op = op /\ q.step = "get" /\ q.list = cr
      BY StartedFits
    <3> HIDE DEF q
    <3> QED
      BY <1>4, <2>1, <3>1, <3>2 DEF AppKinds
  <2> QED
    BY <1>3, <1>8, <2>1 DEF BeginFleetEdit
<1>9. CASE BeginApps(r, op)
  <2> DEFINE q == Started(op, "deploy")
             recorded == {a \in Apps : cr[a].v # None}
             list == Merge([a \in op.of |-> Entry(None, r)], cr)
  <2>1. CASE op.kind = "install" /\ Goes(r, [q EXCEPT !.step = "plan"])
    <3> DEFINE t == [q EXCEPT !.step = "plan"]
    <3>1. Goes(r, t)
      BY <2>1
    <3>2. t.op = op /\ t.step = "plan" /\ t.list = cr
      BY StartedFits DEF Shape
    <3> HIDE DEF t
    <3> QED
      BY <1>4, <2>1, <3>1, <3>2
  <2>2. CASE op.kind = "sync" /\ Goes(r, [q EXCEPT !.todo = recorded])
    <3> DEFINE t == [q EXCEPT !.todo = recorded]
    <3>1. Goes(r, t)
      BY <2>2
    <3>2. t.op = op /\ t.step = "deploy" /\ t.list = cr
      BY StartedFits DEF Shape
    <3> HIDE DEF t
    <3> QED
      BY <1>4, <2>2, <3>1, <3>2
  <2>3. CASE op.kind = "uninstall" /\ Goes(r, [q EXCEPT !.list = list, !.todo = op.of \cap recorded])
    <3> DEFINE t == [q EXCEPT !.list = list, !.todo = op.of \cap recorded]
               p == [a \in op.of |-> Entry(None, r)]
    <3>1. Goes(r, t)
      BY <2>3
    <3>2. /\ t.op = op /\ t.step = "deploy" /\ t.list = list /\ t.copy = cr
          /\ t.todo = op.of \cap recorded
      BY StartedFits DEF Shape
    <3>3. op.of \subseteq Apps
      BY <2>3, OperationParts
    <3>4. DOMAIN cr = Fields /\ Apps \subseteq Fields /\ HelmApps \subseteq Apps
      BY AppAssumption, FieldKinds DEF EditsInv, IsDoc
    <3>5. \A a \in Apps : list[a] = IF a \in op.of THEN Entry(None, r) ELSE cr[a]
      BY <3>3, <3>4 DEF Merge
    <3> HIDE DEF list
    <3>6. \A a \in op.of : list[a].v = None
      BY <3>3, <3>5, EntryFields
    <3>7. ASSUME NEW a \in HelmApps, a \notin op.of \cap recorded
          PROVE  Runs(list, guest[a], a, steady)
      <4>1. Runs(cr, guest[a], a, steady)
        BY <1>2 DEF GuestRuns
      <4>2. list[a].v = cr[a].v
        BY <3>4, <3>5, <3>6, <3>7
      <4> QED
        BY <4>1, <4>2 DEF Runs
    <3>8. \A a \in op.of \cap recorded : cr[a].v # None
      OBVIOUS
    <3>9. \A a \in HelmApps : steady => Tidy(cr[a].v, guest[a])
      BY <1>2 DEF GuestRuns, Runs
    <3> HIDE DEF t, recorded
    <3>10. Removes(t, guest, steady)
      BY <3>2, <3>6, <3>8, <3>9 DEF Removes
    <3> QED
      BY <1>4, <2>3, <3>1, <3>2, <3>7, <3>10 DEF AppKinds
  <2> QED
    BY <1>3, <1>9, <2>1, <2>2, <2>3, CalmFault DEF BeginApps
<1> QED
  BY <1>5, <1>6, <1>7, <1>8, <1>9 DEF Begin

LEMMA PlanCalm ==
    ASSUME EditsInv, TypeInv, CalmInv, calm, NEW r \in Requests, Plan(r)
    PROVE  CalmInv'
<1> DEFINE q == req[r]
           todo == {a \in q.op.of : cat[a] # 0}
           t == [q EXCEPT !.step = "deploy", !.cat = cat, !.todo = todo]
<1>1. q.step = "plan" /\ Goes(r, t) /\ UNCHANGED <<calm, steady, cr, guest>>
  BY DEF Plan
<1>2. /\ Shape(q) /\ q.op.kind = "install" /\ Busy(q, cr, guest, steady) /\ Under \subseteq {r}
  BY <1>1, CalmUnder DEF EditsInv, TypeInv, Works, Ended
<1>3. t.op = q.op /\ t.step = "deploy" /\ t.list = q.list
  BY <1>2 DEF Shape
<1> HIDE DEF q, t
<1>4. Busy(t, cr, guest, steady) /\ ~Ended(t)
  BY <1>2, <1>3 DEF Busy, AppKinds, Ended
<1> QED
  BY <1>1, <1>2, <1>4, CalmGoes

\* An application is deployed: the list says where, and how that went.
Moved(a, rev, as) == [guest EXCEPT ![a][as.at] = rev]

LEMMA ListedRuns ==
    ASSUME TypeInv, NEW list, IsDoc(list), NEW a \in Apps, NEW rev \in Nat, NEW ok \in BOOLEAN, NEW by,
           NEW as \in Release, NEW noted \in Release, a \in HelmApps => noted = as,
           a \in HelmApps /\ steady => as = Standard,
           a \in HelmApps /\ ok => guest' = Moved(a, rev, as),
           guest' \in {Moved(a, rev, as), guest},
           \A b \in HelmApps : Runs(list, guest[b], b, steady)
    PROVE  LET new == [list EXCEPT ![a] = Entry(Installed(rev, ok, noted), by)]
           IN  \A b \in HelmApps : Runs(new, guest'[b], b, steady)
<1> DEFINE e == Entry(Installed(rev, ok, noted), by)
           new == [list EXCEPT ![a] = e]
<1>1. e.v = Installed(rev, ok, noted)
  BY EntryFields
<1>2. Installed(rev, ok, noted) \in [rev : Nat, ok : BOOLEAN, as : Release]
  BY DEF Installed
<1>3. e.v # None /\ e.v.rev = rev /\ e.v.as = noted /\ (e.v.ok => ok)
  BY <1>1, <1>2, NoneAssumption DEF Installed
<1> HIDE DEF e
<1>4. new[a] = e /\ \A b \in Apps \ {a} : new[b] = list[b]
  BY FieldKinds DEF IsDoc
<1> HIDE DEF new
<1>5. /\ guest = [b \in Apps |-> guest[b]] /\ guest[a] = [p \in Places |-> guest[a][p]]
      /\ as.at \in Places
  BY DEF TypeInv, Release
<1>6. /\ Moved(a, rev, as)[a][as.at] = rev
      /\ \A p \in Places \ {as.at} : Moved(a, rev, as)[a][p] = guest[a][p]
      /\ \A b \in Apps \ {a} : Moved(a, rev, as)[b] = guest[b]
  BY <1>5 DEF Moved
<1>7. /\ \A b \in Apps \ {a} : guest'[b] = guest[b]
      /\ \A p \in Places \ {as.at} : guest'[a][p] = guest[a][p]
      /\ a \in HelmApps /\ ok => guest'[a][as.at] = rev
  BY <1>6
<1>8. ASSUME NEW b \in HelmApps
      PROVE  Runs(new, guest'[b], b, steady)
  <2>1. CASE b # a
    BY <1>4, <1>7, <1>8, <2>1, AppAssumption DEF Runs
  <2>2. CASE b = a
    <3>1. new[a].v.ok => guest'[a][new[a].v.as.at] = new[a].v.rev
      BY <1>3, <1>4, <1>7, <1>8, <2>2
    <3>2. ASSUME steady PROVE Tidy(new[a].v, guest'[a])
      <4>1. as = Standard /\ noted = Standard /\ as.at = Home
        <5>1. as = Standard /\ noted = Standard
          BY <1>8, <2>2, <3>2
        <5> QED
          BY <5>1 DEF Standard
      <4>2. Tidy(list[a].v, guest[a])
        BY <1>8, <2>2, <3>2 DEF Runs
      <4>3. \A p \in Places \ {Home} : guest[a][p] = 0
        BY <4>2 DEF Tidy
      <4> QED
        BY <1>3, <1>4, <1>7, <4>1, <4>3 DEF Tidy
    <3> QED
      BY <2>2, <3>1, <3>2 DEF Runs
  <2> QED
    BY <2>1, <2>2
<1> QED
  BY <1>8 DEF new, e

LEMMA InstallCalm ==
    ASSUME EditsInv, TypeInv, CalmInv, calm, NEW r \in Requests, NEW a \in Apps, Install(r, a)
    PROVE  CalmInv'
<1> DEFINE q == req[r]
           asked == q.op.rev
           rev == IF asked \in 1..latest[a] THEN asked ELSE q.cat[a]
<1>1. /\ q.step = "deploy" /\ q.op.kind = "install" /\ a \in q.todo
      /\ UNCHANGED <<calm, steady, cr>>
  BY DEF Install
<1>2. \E as \in Releases : \E ok \in BOOLEAN :
         Deploys(a, rev, ok, as) /\ Goes(r, Deployed(r, a, rev, ok, as))
  BY CalmFault DEF Install
<1>10. PICK as \in Releases : \E ok \in BOOLEAN :
         Deploys(a, rev, ok, as) /\ Goes(r, Deployed(r, a, rev, ok, as))
  BY <1>2
<1>11. PICK ok \in BOOLEAN : Deploys(a, rev, ok, as) /\ Goes(r, Deployed(r, a, rev, ok, as))
  BY <1>10
<1>3. Shape(q) /\ Fits(q, cr) /\ Works(q, latest) /\ Busy(q, cr, guest, steady) /\ Under \subseteq {r}
  BY <1>1, CalmUnder DEF EditsInv, TypeInv, Ended
<1>4. IsDoc(q.list) /\ q.cat[a] \in 1..latest[a]
  BY <1>1, <1>3 DEF Fits, Works, Blind
<1>5. rev \in Nat
  BY <1>4 DEF TypeInv
<1> DEFINE noted == IF a \in HelmApps THEN as ELSE Standard
           e == Entry(Installed(rev, ok, noted), r)
           t == [q EXCEPT !.todo = @ \ {a}, !.list[a] = e]
<1>6. Goes(r, t)
  BY <1>11 DEF Deployed
<1>12. as \in Release /\ noted \in Release /\ (steady => as = Standard) /\ (a \in HelmApps => noted = as)
  BY StandardIsRelease DEF Releases
<1> HIDE DEF rev, noted
<1>7. \A b \in HelmApps : Runs([q.list EXCEPT ![a] = e], guest'[b], b, steady)
  <2>1. \A b \in HelmApps : Runs(q.list, guest[b], b, steady)
    BY <1>1, <1>3 DEF Busy, AppKinds
  <2>2. /\ guest' \in {Moved(a, rev, as), guest}
        /\ ok => guest' = Moved(a, rev, as)
    BY <1>11 DEF Deploys, Moved
  <2> HIDE DEF q
  <2> QED
    BY <1>4, <1>5, <1>12, <2>1, <2>2, ListedRuns
<1> HIDE DEF e
<1>8. t.op = q.op /\ t.step = "deploy" /\ t.list = [q.list EXCEPT ![a] = e]
  BY <1>1, <1>3 DEF Shape
<1> HIDE DEF q, t
<1>9. Busy(t, cr, guest', steady) /\ ~Ended(t)
  BY <1>1, <1>7, <1>8 DEF Busy, AppKinds, Ended
<1> QED
  BY <1>1, <1>3, <1>6, <1>9, CalmGoes

LEMMA SyncCalm ==
    ASSUME EditsInv, TypeInv, CalmInv, calm, NEW r \in Requests, NEW a \in Apps, Sync(r, a)
    PROVE  CalmInv'
<1> DEFINE q == req[r]
           e == q.list[a]
           rev == IF a \in HelmApps THEN e.v.rev
                  ELSE IF cat[a] # 0 THEN cat[a] ELSE guest[a][e.v.as.at]
           n(ok) == Entry(Installed(e.v.rev, ok, e.v.as), e.by)
<1>1. /\ q.step = "deploy" /\ q.op.kind = "sync" /\ a \in q.todo
      /\ UNCHANGED <<calm, steady, cr>>
  BY DEF Sync
<1>2. PICK ok \in BOOLEAN : /\ Deploys(a, rev, ok, e.v.as)
                            /\ Goes(r, [q EXCEPT !.todo = @ \ {a}, !.list[a] = n(ok)])
  BY DEF Sync
<1>3. Shape(q) /\ Fits(q, cr) /\ Works(q, latest) /\ Busy(q, cr, guest, steady) /\ Under \subseteq {r}
  BY <1>1, CalmUnder DEF EditsInv, TypeInv, Ended
<1>4. /\ IsDoc(q.list) /\ Sound(q.list, latest) /\ e.v # None
      /\ \A b \in HelmApps : Runs(q.list, guest[b], b, steady)
  BY <1>1, <1>3 DEF Fits, Works, Blind, Busy, AppKinds
<1>5. e.v.rev \in 1..latest[a] /\ e.v.as \in Release
  BY <1>4, FieldKinds DEF IsDoc, Sound, Values
<1>6. e.v.rev \in Nat
  <2>1. latest[a] \in Nat
    BY DEF TypeInv
  <2> HIDE DEF e
  <2> QED
    BY <1>5, <2>1
<1> DEFINE t == [q EXCEPT !.todo = @ \ {a}, !.list[a] = n(ok)]
<1>7. Goes(r, t)
  BY <1>2
<1>11. guest' \in {Moved(a, rev, e.v.as), guest} /\ (ok => guest' = Moved(a, rev, e.v.as))
  BY <1>2 DEF Deploys, Moved
<1>8. \A b \in HelmApps : Runs([q.list EXCEPT ![a] = n(ok)], guest'[b], b, steady)
  <2>1. CASE a \in HelmApps
    <3>1. rev = e.v.rev
      BY <2>1
    <3>2. steady => e.v.as = Standard
      BY <1>4, <2>1 DEF Runs, Tidy
    <3> HIDE DEF q, rev, e
    <3>3. /\ guest' \in {Moved(a, e.v.rev, e.v.as), guest}
          /\ ok => guest' = Moved(a, e.v.rev, e.v.as)
      BY <1>11, <3>1
    <3> QED
      BY <1>4, <1>5, <1>6, <2>1, <3>2, <3>3, ListedRuns
  <2>2. CASE a \notin HelmApps
    <3>1. \A b \in HelmApps : b \in Apps /\ b # a /\ guest'[b] = guest[b]
      <4>1. guest = [b \in Apps |-> guest[b]]
        BY DEF TypeInv
      <4> QED
        BY <1>11, <2>2, <4>1, AppAssumption DEF Moved
    <3>2. \A b \in HelmApps : [q.list EXCEPT ![a] = n(ok)][b] = q.list[b]
      BY <1>4, <3>1, FieldKinds DEF IsDoc
    <3> HIDE DEF n
    <3> QED
      BY <1>4, <3>1, <3>2 DEF Runs
  <2> QED
    BY <2>1, <2>2
<1> HIDE DEF n, e, rev
<1>9. t.op = q.op /\ t.step = "deploy" /\ t.list = [q.list EXCEPT ![a] = n(ok)]
  BY <1>1, <1>3 DEF Shape
<1> HIDE DEF q, t
<1>10. Busy(t, cr, guest', steady) /\ ~Ended(t)
  BY <1>1, <1>8, <1>9 DEF Busy, AppKinds, Ended
<1> QED
  BY <1>1, <1>3, <1>7, <1>10, CalmGoes

\* A release without a name noted stays: then the application has not always had one.
LEMMA UninstallCalm ==
    ASSUME EditsInv, TypeInv, CalmInv, calm, NEW r \in Requests, NEW a \in Apps, Uninstall(r, a)
    PROVE  CalmInv'
<1> DEFINE q == req[r]
           t == [q EXCEPT !.todo = @ \ {a}]
           at == q.copy[a].v.as.at
<1>1. /\ q.step = "deploy" /\ q.op.kind = "uninstall" /\ a \in q.todo /\ Goes(r, t)
      /\ UNCHANGED <<calm, steady, cr>>
      /\ guest' = IF Removable(r, a) THEN [guest EXCEPT ![a][at] = 0] ELSE guest
  BY CalmFault DEF Uninstall
<1>2. Shape(q) /\ Busy(q, cr, guest, steady) /\ Under \subseteq {r}
  BY <1>1, CalmUnder DEF EditsInv, Ended
<1>3. /\ t.op = q.op /\ t.step = "deploy" /\ t.list = q.list /\ t.copy = q.copy
      /\ t.todo = q.todo \ {a}
  BY <1>1, <1>2 DEF Shape
<1>7. Removes(q, guest, steady)
  BY <1>1, <1>2 DEF Busy, AppKinds
<1>8. guest = [b \in Apps |-> guest[b]] /\ guest[a] = [p \in Places |-> guest[a][p]]
  BY DEF TypeInv
<1>4. ASSUME a \in HelmApps, steady
      PROVE  \A p \in Places : guest'[a][p] = 0
  <2>1. Tidy(q.copy[a].v, guest[a]) /\ q.copy[a].v # None
    BY <1>1, <1>4, <1>7 DEF Removes
  <2>2. q.copy[a].v.as = Standard /\ \A p \in Places \ {Home} : guest[a][p] = 0
    BY <2>1 DEF Tidy
  <2>3. at = Home /\ Removable(r, a)
    BY <1>4, <2>2 DEF Removable, Standard
  <2> HIDE DEF at
  <2>4. guest' = [guest EXCEPT ![a][Home] = 0]
    BY <1>1, <2>3
  <2> QED
    BY <1>8, <2>2, <2>4
<1>9. \A b \in Apps \ {a} : guest'[b] = guest[b]
  BY <1>1, <1>8
<1> HIDE DEF q, t, at
<1>5. ASSUME NEW b \in HelmApps
      PROVE  b \in t.todo \/ Runs(t.list, guest'[b], b, steady)
  <2>1. CASE b # a
    BY <1>1, <1>2, <1>3, <1>9, <2>1, AppAssumption DEF Busy, AppKinds, Runs
  <2>2. CASE b = a
    <3>1. q.list[a].v = None
      BY <1>1, <1>7 DEF Removes
    <3> QED
      BY <1>3, <1>4, <1>5, <2>2, <3>1 DEF Runs, Tidy
  <2> QED
    BY <2>1, <2>2
<1>10. Removes(t, guest', steady)
  BY <1>3, <1>7, <1>9, AppAssumption DEF Removes
<1>6. Busy(t, cr, guest', steady) /\ ~Ended(t)
  BY <1>1, <1>2, <1>3, <1>5, <1>10 DEF Busy, AppKinds, Ended
<1> QED
  BY <1>1, <1>2, <1>6, CalmGoes

LEMMA ReadAgainCalm ==
    ASSUME EditsInv, CalmInv, calm, NEW r \in Requests, ReadAgain(r)
    PROVE  CalmInv'
<1> DEFINE q == req[r]
           t == [q EXCEPT !.step = "patch", !.copy = cr]
<1>1. /\ UNCHANGED <<calm, steady, cr, guest>> /\ Goes(r, t)
      /\ q.step = "get" \/ (q.step = "deploy" /\ q.todo = {})
  <2>1. /\ UNCHANGED <<calm, steady, cr, guest>> /\ (Goes(r, t) \/ Fault)
        /\ q.step = "get" \/ (q.step = "deploy" /\ q.todo = {})
    BY DEF ReadAgain
  <2> QED
    BY <2>1, CalmFault
<1>2. Shape(q) /\ Busy(q, cr, guest, steady) /\ Under \subseteq {r}
  BY <1>1, CalmUnder DEF EditsInv, Ended
<1>3. /\ t.op = q.op /\ t.step = "patch" /\ t.copy = cr /\ t.list = q.list
      /\ t.todo = q.todo
  BY <1>2 DEF Shape
<1> HIDE DEF q, t
<1>4. Busy(t, cr, guest', steady) /\ ~Ended(t)
  <2>1. q.op.kind = "uninstall" => t.todo = {}
    BY <1>1, <1>2, <1>3 DEF Busy, AppKinds
  <2> QED
    BY <1>1, <1>2, <1>3, <2>1 DEF Busy, AppKinds, Ended, Removes
<1> QED
  BY <1>1, <1>2, <1>4, CalmGoes

LEMMA PatchCalm ==
    ASSUME EditsInv, TypeInv, CalmInv, calm, NEW r \in Requests, Patch(r)
    PROVE  CalmInv'
<1> DEFINE q == req[r]
           p == PatchOf(r, q)
<1>1. q.step = "patch" /\ UNCHANGED <<calm, steady, guest>> /\ Stores(r, p)
  BY CalmFault DEF Patch
<1>2. /\ Fits(q, cr) /\ q.op \in Operation /\ Busy(q, cr, guest, steady) /\ Under \subseteq {r}
      /\ IsDoc(cr) /\ Settled(cr)
  BY <1>1, CalmUnder DEF EditsInv, TypeInv, Works, Ended
<1>9. DOMAIN cr["args"].v \subseteq Settings
  <2>1. cr["args"].v \in FlagLists
    BY <1>2, FieldKinds DEF IsDoc, TypeInv, Sound, Values
  <2> QED
    BY <2>1 DEF FlagLists
<1>3. Under' = {}
  <2> DEFINE left(s) == {f \in req[s].still : cr'[f].by = cr[f].by}
  <2>1. req' = [s \in Requests |-> IF s = r THEN Done ELSE [req[s] EXCEPT !.still = left(s)]]
    BY <1>1 DEF Stores
  <2>2. \A s \in Requests : Shape(req[s])
    BY DEF EditsInv
  <2> HIDE DEF left
  <2>3. ASSUME NEW s \in Requests, s # r PROVE req'[s].step = req[s].step
    BY <2>1, <2>2, <2>3 DEF Shape
  <2>4. \A s \in Requests \ {r} : req[s].step \in {"idle", "done"}
    BY <1>2 DEF Under
  <2> QED
    BY <2>1, <2>3, <2>4, IdleShape DEF Under, Ended
<1>4. /\ q.op.kind \notin Blind => q.copy = cr
      /\ q.op.kind \in {"join", "leave"} => q.list = cr
  BY <1>1, <1>2 DEF Busy
<1>5. cr' = Merge(p, cr)
  BY <1>1 DEF Stores
<1> HIDE DEF q
<1>6. Settled(cr')
  BY <1>2, <1>4, <1>5, <1>9, PatchSettles
<1>7. \A a \in Apps : cr'[a] = IF q.op.kind \in AppKinds THEN q.list[a] ELSE cr[a]
  BY <1>2, <1>4, <1>5, PatchLists
<1> HIDE DEF p
<1>8. ASSUME NEW a \in HelmApps
      PROVE  Runs(cr', guest'[a], a, steady)
  BY <1>1, <1>2, <1>7, AppAssumption DEF Busy, GuestRuns, Runs, AppKinds
<1> QED
  BY <1>1, <1>3, <1>6, <1>8 DEF CalmInv, GuestRuns

LEMMA CreatedCalm == Init => CalmInv
<1> SUFFICES ASSUME Init PROVE CalmInv
  OBVIOUS
<1>1. Under = {}
  BY DEF Init, Under, Idle
<1>2. PICK a \in Apps :
        /\ IF a \in HelmApps
           THEN \E given \in {{}, Settings} :
                   cr = Created({a}, Groups \cup {"endpoint"}, Settings, [s \in given |-> First])
           ELSE cr = Created({a}, {}, {}, NoFlags)
        /\ guest = [b \in Apps |-> [p \in Places |-> IF a = b /\ p = Home THEN 1 ELSE 0]]
  BY DEF Init
<1>3. PICK set, oidc, flags :
        /\ cr = Created({a}, set, oidc, flags)
        /\ DOMAIN flags \subseteq oidc
  BY <1>2 DEF NoFlags
<1>4. {"oidc", "args", "endpoint", "sans"} \cap (Groups \cup Apps \cup Always) = {}
  BY FieldKinds DEF Always
<1>5. {"oidc", "args", "endpoint", "sans"} \subseteq Fields
  BY FieldKinds
<1>6. Settled(cr)
  <2>1. cr["oidc"] = Entry(oidc, First) /\ cr["args"] = Entry(flags, First)
    BY <1>3, <1>4, <1>5 DEF Created
  <2>2. cr["sans"] = Entry(IF "endpoint" \in set THEN {First} ELSE {}, First)
    BY <1>3, <1>4, <1>5 DEF Created
  <2> DEFINE b == "endpoint" \in Always \cup set
  <2>3. cr["endpoint"] = Entry(b, First)
    BY <1>3, <1>4, <1>5 DEF Created
  <2>4. b => "endpoint" \in set
    BY DEF Always
  <2> HIDE DEF b
  <2>5. /\ cr["oidc"].v = oidc /\ cr["oidc"].by = First /\ cr["args"].v = flags
        /\ cr["endpoint"].v = b /\ cr["endpoint"].by = First
        /\ cr["sans"].v = IF "endpoint" \in set THEN {First} ELSE {}
    BY <2>1, <2>2, <2>3, EntryFields
  <2>6. cr["endpoint"].v => cr["endpoint"].by \in cr["sans"].v
    BY <2>4, <2>5
  <2> QED
    BY <1>3, <2>5, <2>6 DEF Settled
<1>7. ASSUME NEW b \in HelmApps
      PROVE  Runs(cr, guest[b], b, steady)
  <2> DEFINE new == Installed(1, TRUE, Standard)
  <2>1. b \in Apps /\ b \in Fields /\ Home \in Places
    BY AppAssumption, FieldKinds
  <2>2. cr[b] = Entry(IF b = a THEN new ELSE None, First)
    BY <1>3, <2>1, FieldKinds DEF Created
  <2>3. new # None /\ new.rev = 1 /\ new.as = Standard
    <3>1. new \in [rev : Nat, ok : BOOLEAN, as : Release] /\ new.rev = 1 /\ new.as = Standard
      BY StandardIsRelease DEF Installed
    <3> QED
      BY <3>1, NoneAssumption
  <2> HIDE DEF new
  <2>4. cr[b].v = IF b = a THEN new ELSE None
    BY <2>2, EntryFields
  <2>5. \A p \in Places : guest[b][p] = IF b = a /\ p = Home THEN 1 ELSE 0
    BY <1>2, <2>1
  <2>6. Standard.at = Home
    BY DEF Standard
  <2> QED
    BY <2>1, <2>3, <2>4, <2>5, <2>6 DEF Runs, Tidy
<1> QED
  BY <1>1, <1>6, <1>7 DEF CalmInv, GuestRuns

LEMMA NextCalm == EditsInv /\ TypeInv /\ CalmInv /\ [Next]_vars => CalmInv'
<1> SUFFICES ASSUME EditsInv, TypeInv, CalmInv, [Next]_vars PROVE CalmInv'
  OBVIOUS
<1>1. UNCHANGED <<calm, steady>>
  <2>1. ASSUME NEW r \in Requests, NEW op \in Operation, Begin(r, op)
        PROVE  UNCHANGED <<calm, steady>>
    BY <2>1 DEF Begin, BeginEdit, BeginBlindEdit, BeginRestore, BeginFleetEdit, BeginApps, Begins
  <2>2. ASSUME NEW r \in Requests, Plan(r) \/ ReadAgain(r) \/ Patch(r)
        PROVE  UNCHANGED <<calm, steady>>
    BY <2>2 DEF Plan, ReadAgain, Patch
  <2>3. ASSUME NEW r \in Requests, NEW a \in Apps,
               Install(r, a) \/ Sync(r, a) \/ Uninstall(r, a)
        PROVE  UNCHANGED <<calm, steady>>
    BY <2>3 DEF Install, Sync, Uninstall
  <2>4. ASSUME (\E a \in Apps : CatalogSave(a) \/ CatalogDelete(a)) \/ Restart
        PROVE  UNCHANGED <<calm, steady>>
    BY <2>4 DEF CatalogSave, CatalogDelete, Restart
  <2> QED
    BY <2>1, <2>2, <2>3, <2>4 DEF Next, vars
<1>2. CASE ~calm
  BY <1>1, <1>2 DEF CalmInv
<1>3. CASE calm
  <2>1. ASSUME NEW r \in Requests, NEW op \in Operation, Begin(r, op)
        PROVE  CalmInv'
    BY <1>3, <2>1, BeginCalm
  <2>2. ASSUME NEW r \in Requests, Plan(r) \/ ReadAgain(r) \/ Patch(r)
        PROVE  CalmInv'
    BY <1>3, <2>2, PlanCalm, ReadAgainCalm, PatchCalm
  <2>3. ASSUME NEW r \in Requests, NEW a \in Apps, Install(r, a) \/ Sync(r, a) \/ Uninstall(r, a)
        PROVE  CalmInv'
    BY <1>3, <2>3, InstallCalm, SyncCalm, UninstallCalm
  <2>4. CASE UNCHANGED <<calm, steady, cr, guest, req>>
    BY <2>4 DEF CalmInv, Under
  <2>5. CASE \E a \in Apps : CatalogSave(a) \/ CatalogDelete(a)
    BY <2>4, <2>5 DEF CatalogSave, CatalogDelete
  <2>6. CASE UNCHANGED vars
    BY <2>4, <2>6 DEF vars
  <2> QED
    BY <1>3, <2>1, <2>2, <2>3, <2>5, <2>6, CalmFault DEF Next, Restart
<1> QED
  BY <1>2, <1>3

LEMMA CalmAlways == Spec => []CalmInv
<1>1. Init => EditsInv /\ TypeInv /\ CalmInv
  BY InvInit, InitTyped, CreatedCalm
<1>2. EditsInv /\ TypeInv /\ CalmInv /\ [Next]_vars => (EditsInv /\ TypeInv /\ CalmInv)'
  BY InvNext, NextTyped, NextCalm
<1> QED
  BY <1>1, <1>2, PTL DEF Spec

\* Single sign-on and the endpoint are each kept in two places, and every kind of request
\* writes back what it read of both.  After any requests that do not overlap or fail, an
\* edit of single sign-on has its own settings as flags, whichever flags it found, and the
\* endpoint is among the certificate's names (k8s-client.ts:1614, 1696).
THEOREM SettingsAlwaysAgree == Spec => []SettingsAgree
<1>1. CalmInv => SettingsAgree
  BY DEF CalmInv, Settled, SettingsAgree
<1> QED
  BY <1>1, CalmAlways, PTL

\* After requests that do not overlap or fail, whichever of their deployments failed, a
\* chart recorded as installed runs where it is recorded, in the recorded revision.  One
\* that is not listed does not run, provided that charts have always had a releaseName
\* and gone to one place (cluster-apps.ts:234, 337, 370).
THEOREM ListAlwaysMatches == Spec => []ChartsMatchList
<1>1. CalmInv => ChartsMatchList
  BY DEF CalmInv, GuestRuns, Runs, Tidy, ChartsMatchList
<1> QED
  BY <1>1, CalmAlways, PTL
=============================================================================
