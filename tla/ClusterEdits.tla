----------------------------- MODULE ClusterEdits -----------------------------
(***************************************************************************)
(* The VirtualCluster of one cluster as the web application edits it.      *)
(* Each API request reads the stored object, computes a merge patch from   *)
(* its copy and sends it.  Nothing carries a resourceVersion, the patch of *)
(* most edits repeats what the copy said of other settings, and installing *)
(* applications puts minutes of deployments into the guest cluster between *)
(* the read of the installed applications and the write of the new list.   *)
(*                                                                         *)
(* A field of the object holds an entry: its value and the request that    *)
(* last set it.  An entry that is copied keeps its author, so an edit that *)
(* a stale copy reverts can be told from one that somebody asked for.      *)
(***************************************************************************)
EXTENDS Integers, FiniteSets, Functions

CONSTANTS
    Requests,    \* API requests, each made once
    Groups,      \* fleet groups
    Apps,        \* applications of the catalog
    HelmApps,    \* those that are Helm charts; the others are manifests
    Places,      \* a name of a release and a namespace of the guest to install it in
    Home,        \* the place of those who do not name another
    Choices,     \* the optional settings a configuration of single sign-on has
    None,        \* not installed
    MaxRevision, \* bound: revisions an application gets
    MaxChanging, \* bound: applications of the catalog that change
    RoughMoves,  \* bound: whether charts move in behaviours that are not calm
    MaxFaults    \* bound: refused, failed and lost calls, restarts of the process

ASSUME AppAssumption == HelmApps \subseteq Apps /\ Home \in Places
ASSUME BoundAssumption == MaxRevision \in Nat \ {0} /\ MaxChanging \in Nat /\ MaxFaults \in Nat
ASSUME ChoiceAssumption == RoughMoves \in BOOLEAN /\ Choices \subseteq SUBSET {"prefix", "ca"}

First == "first"  \* who created the cluster
Authors == Requests \cup {First}

RawConfig == {"sans", "args"}  \* the certificate's names, the API server's flags
Components == {"istio", "gateway", "dns"}
Recovery == {"schedule", "restore"}
Optional == {"prefix", "ca"}  \* of single sign-on: a prefix of the names, a CA file
Settings == {"provider"} \cup Optional
Fields == {"owner", "endpoint", "oidc", "sleep", "version"}
          \cup Groups \cup Apps \cup RawConfig \cup Components \cup Recovery

\* What a group or an application is called by, no setting is called by.
ASSUME FieldAssumption ==
    /\ Groups \cap Apps = {}
    /\ {"owner", "endpoint", "oidc", "sleep", "version"} \cap (Groups \cup Apps) = {}
    /\ (RawConfig \cup Components \cup Recovery \cup Optional) \cap (Groups \cup Apps) = {}

\* named: the chart's specification has a releaseName; without one, a name is derived.
Release == [at : Places, named : BOOLEAN]
Standard == [at |-> Home, named |-> TRUE]
ASSUME NoneAssumption == None \notin [rev : Nat, ok : BOOLEAN, as : Release]

Entry(v, by) == [v |-> v, by |-> by]
Installed(rev, ok, as) == [rev |-> rev, ok |-> ok, as |-> as]

\* What requests ask for.
Plain == {"owner", "endpoint", "noEndpoint", "noOidc", "istio", "gateway"}
Blind == {"sleep", "wake", "upgrade", "schedule"}
Ask(kind, of, rev) == [kind |-> kind, of |-> of, rev |-> rev]
Operation ==
    {Ask(kind, {}, 0) : kind \in Plain \cup Blind \cup {"restore", "sync"}}
    \cup {Ask("groups", of, 0) : of \in SUBSET Groups}
    \cup {Ask("oidc", of, 0) : of \in Choices}
    \cup {Ask(kind, {g}, 0) : kind \in {"join", "leave"}, g \in Groups}
    \cup {Ask("apply", {g} \cup of, 0) : g \in Groups, of \in Choices}
    \cup {Ask("install", of, 0) : of \in SUBSET Apps \ {{}}}
    \cup {Ask("install", {a}, rev) : a \in Apps, rev \in 1..MaxRevision}
    \cup {Ask("uninstall", {a}, 0) : a \in Apps}

\* The fields a request is about.
About(op) ==
    CASE op.kind \in {"owner", "istio", "gateway", "sleep", "schedule"} -> {op.kind}
      [] op.kind = "wake" -> {"sleep"}
      [] op.kind = "upgrade" -> {"version", "dns"}
      [] op.kind = "endpoint" -> {"endpoint", "sans"}
      [] op.kind = "noEndpoint" -> {"endpoint"}
      [] op.kind \in {"oidc", "noOidc", "apply"} -> {"oidc", "args"}
      [] op.kind = "restore" -> {"restore"}
      [] op.kind = "groups" -> Groups
      [] op.kind = "sync" -> {}
      [] OTHER -> op.of

VARIABLES
    calm,   \* no overlapping requests and no faults in this behaviour
    steady, \* charts have a releaseName and go to one place in this behaviour
    cr,     \* the stored VirtualCluster
    guest,  \* the revision of each application that runs at each place, 0: none
    cat,    \* the revision of each application in the catalog, 0: deleted
    latest, \* the number of revisions in its history
    req,    \* the requests
    faults

vars == <<calm, steady, cr, guest, cat, latest, req, faults>>
catalog == <<cat, latest>>

\* still: the fields nobody has changed since the request began.
Idle == [step |-> "idle", op |-> Ask("sync", {}, 0), still |-> {}, copy |-> None,
         list |-> None, cat |-> None, todo |-> {}, listed |-> TRUE]
Done == [Idle EXCEPT !.step = "done"]
Under == {r \in Requests : req[r].step \notin {"idle", "done"}}

Fault == ~calm /\ faults < MaxFaults /\ faults' = faults + 1
NoFault == UNCHANGED faults

-------------------------------------------------------------------------------
(* Merge patches: what is not in the patch stays as it is stored. *)

Merge(patch, doc) == [f \in DOMAIN doc |-> IF f \in DOMAIN patch THEN patch[f] ELSE doc[f]]
With(patch, more) ==
    [f \in DOMAIN patch \cup DOMAIN more |-> IF f \in DOMAIN more THEN more[f] ELSE patch[f]]

\* Single sign-on is the annotation oidc-config, which both the application and the
\* operator read before those that repeat its parts: the settings it has, none when
\* switched off.  It stays, and so does the list the flags are in, each with the
\* request it is from.
NoFlags == [s \in {} |-> First]
Written(e, off) == e.v # off \/ e.by # First

\* The annotations that exist are copied.  The groups are one annotation, absent when
\* there are none; so are the applications.
Annotated(copy) ==
    {"owner"} \cup Apps
    \cup {f \in {"endpoint"} : copy[f].v}
    \cup {f \in {"oidc"} : Written(copy[f], {})}
    \cup {g \in Groups : \E h \in Groups : copy[h].v}
Annotations(copy) == Restrict(copy, Annotated(copy))

\* rawConfig is copied whole.
Raw(copy) == Restrict(copy, {f \in {"args"} : Written(copy[f], NoFlags)} \cup {f \in {"sans"} : copy[f].v # {}})

OwnerPatch(r, q) == With(Annotations(q.copy), [f \in {"owner"} |-> Entry(TRUE, r)])

GroupsPatch(r, q, member) == With(Annotations(q.copy), [g \in Groups |-> member[g]])
\* The route for the whole fleet computes the groups from the list it began with.
Joined(r, q) ==
    [g \in Groups |-> IF g \in q.op.of THEN Entry(q.op.kind = "join", r) ELSE q.list[g]]

Configured(op) == IF op.kind = "noOidc" THEN {} ELSE {"provider"} \cup (op.of \cap Optional)

\* Mutant: a CA file that is not configured any more stays a flag.
FlagsKeepingCa(flags, set, r) ==
    IF set = {} THEN NoFlags ELSE With(flags, [s \in set |-> r])

\* A new flag replaces the one of its kind.  Of the others, only that of the CA file is
\* taken out, unless single sign-on is switched off.
Flags(flags, set, r) ==
    IF set = {} THEN NoFlags
    ELSE With(Restrict(flags, DOMAIN flags \ {"ca"}), [s \in set |-> r])

OidcPatch(r, q) ==
    LET set == Configured(q.op)
        args == q.copy["args"]
        new == [f \in {"oidc"} \cup (IF set # {} \/ Written(args, NoFlags) THEN {"args"} ELSE {}) |->
                   Entry(IF f = "oidc" THEN set ELSE Flags(args.v, set, r), r)]
    IN  With(With(Annotations(q.copy), Raw(q.copy)), new)

\* An endpoint adds its host to the certificate's names, where it stays.  Clearing it
\* deletes the annotation the copy has.
EndpointPatch(r, q) ==
    LET sans == Entry(q.copy["sans"].v \cup {r}, r)
        set == CASE q.op.kind = "endpoint" ->
                        [f \in {"endpoint", "sans"} |->
                            IF f = "sans" THEN sans ELSE Entry(TRUE, r)]
                 [] OTHER -> [f \in {f \in {"endpoint"} : q.copy[f].v} |-> Entry(FALSE, r)]
    IN  With(With(Annotations(q.copy), Raw(q.copy)), set)

\* Istio and the Gateway API repeat the other components.
ComponentPatch(r, q) ==
    With(Restrict(q.copy, Components), [f \in {q.op.kind} |-> Entry(TRUE, r)])

\* Mutant: the default settings are always repeated.
RestorePatchWithDefaults(r, q) == [f \in Recovery |-> Entry(TRUE, r)]

RestorePatch(r, q) ==
    [f \in Recovery |->
        IF f = "schedule" /\ q.listed THEN q.copy[f] ELSE Entry(TRUE, r)]

AppsPatch(q) == With(Annotations(q.copy), Restrict(q.list, Apps))

PatchOf(r, q) ==
    CASE q.op.kind = "owner" -> OwnerPatch(r, q)
      [] q.op.kind = "groups" ->
            GroupsPatch(r, q, [g \in Groups |-> Entry(g \in q.op.of, r)])
      [] q.op.kind \in {"join", "leave"} -> GroupsPatch(r, q, Joined(r, q))
      [] q.op.kind \in {"oidc", "noOidc", "apply"} -> OidcPatch(r, q)
      [] q.op.kind \in {"endpoint", "noEndpoint"} -> EndpointPatch(r, q)
      [] q.op.kind \in {"istio", "gateway"} -> ComponentPatch(r, q)
      [] q.op.kind = "restore" -> RestorePatch(r, q)
      [] q.op.kind \in {"install", "uninstall", "sync"} -> AppsPatch(q)
      [] q.op.kind \in Blind -> [f \in About(q.op) |-> Entry(q.op.kind # "wake", r)]

-------------------------------------------------------------------------------
(* Requests *)

Goes(r, q) == req' = [req EXCEPT ![r] = q]

\* A request arrives and its first read is answered.
Begins(r, op) ==
    /\ req[r].step = "idle"
    /\ calm => Under = {}
    /\ UNCHANGED <<calm, steady, cr, guest, catalog>>
Started(op, step) ==
    [step |-> step, op |-> op, still |-> Fields, copy |-> cr,
     list |-> cr, cat |-> None, todo |-> {}, listed |-> TRUE]

\* The object is read and patched; what is not read needs no copy.
BeginEdit(r, op) ==
    /\ op.kind \in Plain \cup {"groups", "oidc"} /\ Begins(r, op)
    /\ \/ Goes(r, Started(op, "patch")) /\ NoFault
       \/ Goes(r, Done) /\ Fault

BeginBlindEdit(r, op) ==
    /\ op.kind \in Blind /\ Begins(r, op)
    /\ Goes(r, [Started(op, "patch") EXCEPT !.copy = None, !.list = None])
    /\ NoFault

\* A list of the clusters that fails counts as a list of none: a restore then
\* repeats the default recovery settings, ...
BeginRestore(r, op) ==
    /\ op.kind = "restore" /\ Begins(r, op)
    /\ \E listed \in BOOLEAN :
          /\ Goes(r, [Started(op, "patch") EXCEPT !.listed = listed])
          /\ IF listed THEN NoFault ELSE Fault

\* ... and an edit of the fleet has nothing to do, as when the groups are right already.
Concerned(op) ==
    \A g \in op.of \cap Groups : cr[g].v = (op.kind # "join")

BeginFleetEdit(r, op) ==
    /\ op.kind \in {"join", "leave", "apply"} /\ Begins(r, op)
    /\ \/ Concerned(op) /\ Goes(r, Started(op, "get")) /\ NoFault
       \/ ~Concerned(op) /\ Goes(r, Done) /\ NoFault
       \/ Goes(r, Done) /\ Fault

\* Applications are left alone while the cluster sleeps or has no kubeconfig; an
\* uninstallation without one only edits the list.
BeginApps(r, op) ==
    /\ op.kind \in {"install", "uninstall", "sync"} /\ Begins(r, op)
    /\ LET q == Started(op, "deploy")
           recorded == {a \in Apps : cr[a].v # None}
       IN  \/ cr["sleep"].v /\ Goes(r, Done) /\ NoFault
           \/ Goes(r, Done) /\ Fault
           \/ ~cr["sleep"].v /\ op.kind = "install" /\ Goes(r, [q EXCEPT !.step = "plan"]) /\ NoFault
           \/ /\ ~cr["sleep"].v /\ op.kind = "sync"
              /\ Goes(r, IF recorded = {} THEN Done ELSE [q EXCEPT !.todo = recorded])
              /\ NoFault
           \/ /\ ~cr["sleep"].v /\ op.kind = "uninstall"
              /\ \E kube \in BOOLEAN :
                    /\ Goes(r, [q EXCEPT !.list = Merge([a \in op.of |-> Entry(None, r)], cr),
                                         !.todo = IF kube THEN op.of \cap recorded ELSE {}])
                    /\ IF kube THEN NoFault ELSE Fault

\* The catalog is read once; applications it does not have are skipped.
Plan(r) ==
    /\ req[r].step = "plan"
    /\ Goes(r, [req[r] EXCEPT !.step = "deploy", !.cat = cat,
                              !.todo = {a \in req[r].op.of : cat[a] # 0}])
    /\ UNCHANGED <<calm, steady, cr, guest, catalog, faults>>

\* Mutant: a failed deployment is recorded as installed.
DeployUnchecked(r, a, rev, ok, as) ==
    [req[r] EXCEPT !.todo = @ \ {a}, !.list[a] = Entry(Installed(rev, TRUE, as), r)]

\* The list notes where a chart is.  Where manifests went, it does not.
Deployed(r, a, rev, ok, as) ==
    LET noted == IF a \in HelmApps THEN as ELSE Standard
    IN  [req[r] EXCEPT !.todo = @ \ {a}, !.list[a] = Entry(Installed(rev, ok, noted), r)]

\* kubectl apply and helm upgrade --install succeed, or fail with or without effect.
\* What runs elsewhere is left alone.
Deploys(a, rev, ok, as) ==
    /\ guest' \in {[guest EXCEPT ![a][as.at] = rev]} \cup (IF ok THEN {} ELSE {guest})
    /\ IF ok THEN NoFault ELSE faults < MaxFaults /\ faults' = faults + 1

\* The request names the namespace, the revision the release.
Releases == IF steady THEN {Standard} ELSE Release

\* Mutant: whatever revision is asked for is deployed.
InstallUnknown(r, a) ==
    /\ req[r].step = "deploy" /\ req[r].op.kind = "install" /\ a \in req[r].todo
    /\ LET rev == IF req[r].op.rev # 0 THEN req[r].op.rev ELSE req[r].cat[a]
       IN  Deploys(a, rev, TRUE, Standard) /\ Goes(r, Deployed(r, a, rev, TRUE, Standard))
    /\ UNCHANGED <<calm, steady, cr, catalog>>

\* A revision that is not in the history, or whose history cannot be read, is replaced
\* by the catalog's current one.
Install(r, a) ==
    /\ req[r].step = "deploy" /\ req[r].op.kind = "install" /\ a \in req[r].todo
    /\ LET asked == req[r].op.rev
           known == asked \in 1..latest[a]
       IN  \E as \in Releases :
              \/ \E ok \in BOOLEAN :
                    LET rev == IF known THEN asked ELSE req[r].cat[a]
                    IN  Deploys(a, rev, ok, as) /\ Goes(r, Deployed(r, a, rev, ok, as))
              \/ /\ known
                 /\ guest' = [guest EXCEPT ![a][as.at] = req[r].cat[a]]
                 /\ Goes(r, Deployed(r, a, req[r].cat[a], TRUE, as))
                 /\ Fault
    /\ UNCHANGED <<calm, steady, cr, catalog>>

\* The list keeps a chart's version but no manifests: a synchronisation deploys the
\* catalog's current ones, or nothing if there are none, and keeps the entry.
Sync(r, a) ==
    /\ req[r].step = "deploy" /\ req[r].op.kind = "sync" /\ a \in req[r].todo
    /\ LET e == req[r].list[a]
           rev == IF a \in HelmApps THEN e.v.rev
                  ELSE IF cat[a] # 0 THEN cat[a] ELSE guest[a][e.v.as.at]
       IN  \E ok \in BOOLEAN :
              /\ Deploys(a, rev, ok, e.v.as)
              /\ Goes(r, [req[r] EXCEPT !.todo = @ \ {a},
                                        !.list[a] = Entry(Installed(e.v.rev, ok, e.v.as), e.by)])
    /\ UNCHANGED <<calm, steady, cr, catalog>>

\* A release is removed if its name is noted, manifests if the catalog has them.
Removable(r, a) ==
    IF a \in HelmApps THEN req[r].copy[a].v.as.named ELSE cat[a] # 0

\* Errors are ignored.
Uninstall(r, a) ==
    /\ req[r].step = "deploy" /\ req[r].op.kind = "uninstall" /\ a \in req[r].todo
    /\ Goes(r, [req[r] EXCEPT !.todo = @ \ {a}])
    /\ \/ /\ guest' = IF Removable(r, a) THEN [guest EXCEPT ![a][req[r].copy[a].v.as.at] = 0]
                      ELSE guest
          /\ NoFault
       \/ UNCHANGED guest /\ Fault
    /\ UNCHANGED <<calm, steady, cr, catalog>>

\* Then the object is read again.
ReadAgain(r) ==
    /\ \/ req[r].step = "get"
       \/ req[r].step = "deploy" /\ req[r].todo = {}
    /\ \/ Goes(r, [req[r] EXCEPT !.step = "patch", !.copy = cr]) /\ NoFault
       \/ Goes(r, Done) /\ Fault
    /\ UNCHANGED <<calm, steady, cr, guest, catalog>>

\* Annotations that grow too large lose the installed applications on their way, and
\* then the configuration of single sign-on.
Pruned(op, patch) ==
    LET lost == IF op.kind \in {"groups", "join", "leave"} THEN {{}} ELSE {Apps, Apps \cup {"oidc"}}
    IN  {Restrict(patch, DOMAIN patch \ fields) : fields \in lost}

\* Whoever else is under way works from a copy of the object as it was.
Stores(r, patch) ==
    /\ cr' = Merge(patch, cr)
    /\ req' = [s \in Requests |->
                 IF s = r THEN Done
                 ELSE [req[s] EXCEPT !.still = {f \in @ : cr'[f].by = cr[f].by}]]

\* The patch is applied, whether or not its answer arrives, or it is refused.
Patch(r) ==
    /\ req[r].step = "patch"
    /\ LET patch == PatchOf(r, req[r])
       IN  \/ Stores(r, patch) /\ NoFault
           \/ \E pruned \in Pruned(req[r].op, patch) : Stores(r, pruned) /\ Fault
           \/ UNCHANGED cr /\ Goes(r, Done) /\ Fault
    /\ UNCHANGED <<calm, steady, guest, catalog>>

-------------------------------------------------------------------------------
(* Their surroundings *)

MayChange(a) == Cardinality({b \in Apps \ {a} : cat[b] # 1}) < MaxChanging

CatalogSave(a) ==
    /\ MayChange(a) /\ latest[a] < MaxRevision
    /\ latest' = [latest EXCEPT ![a] = @ + 1]
    /\ cat' = [cat EXCEPT ![a] = latest'[a]]
    /\ UNCHANGED <<calm, steady, cr, guest, req, faults>>

CatalogDelete(a) ==
    /\ MayChange(a) /\ cat[a] # 0
    /\ cat' = [cat EXCEPT ![a] = 0]
    /\ UNCHANGED <<calm, steady, cr, guest, latest, req, faults>>

\* The web application restarts: the requests under way end there.
Restart ==
    /\ Under # {} /\ Fault
    /\ req' = [r \in Requests |-> IF r \in Under THEN Done ELSE req[r]]
    /\ UNCHANGED <<calm, steady, cr, guest, catalog>>

Always == {"owner", "dns", "schedule", "version"}
Created(apps, set, oidc, flags) ==
    [f \in Fields |->
        Entry(CASE f \in Apps -> IF f \in apps THEN Installed(1, TRUE, Standard) ELSE None
                [] f = "sans" -> IF "endpoint" \in set THEN {First} ELSE {}
                [] f = "oidc" -> oidc
                [] f = "args" -> flags
                [] OTHER -> f \in Always \cup set,
              First)]

\* A cluster created with an application; if it is a chart, with a group, single sign-on
\* and an endpoint as well.  What single sign-on is inherited from a profile has no flags.
Init ==
    /\ calm \in BOOLEAN /\ steady \in IF calm \/ RoughMoves THEN BOOLEAN ELSE {TRUE}
    /\ \E a \in Apps :
          /\ IF a \in HelmApps
             THEN \E given \in {{}, Settings} :
                     cr = Created({a}, Groups \cup {"endpoint"}, Settings, [s \in given |-> First])
             ELSE cr = Created({a}, {}, {}, NoFlags)
          /\ guest = [b \in Apps |-> [p \in Places |-> IF a = b /\ p = Home THEN 1 ELSE 0]]
    /\ cat = [a \in Apps |-> 1] /\ latest = cat
    /\ req = [r \in Requests |-> Idle]
    /\ faults = 0

Begin(r, op) ==
    \/ BeginEdit(r, op) \/ BeginBlindEdit(r, op) \/ BeginRestore(r, op)
    \/ BeginFleetEdit(r, op) \/ BeginApps(r, op)

Next ==
    \/ \E r \in Requests :
          \/ \E op \in Operation : Begin(r, op)
          \/ Plan(r)
          \/ \E a \in Apps : Install(r, a) \/ Sync(r, a) \/ Uninstall(r, a)
          \/ ReadAgain(r)
          \/ Patch(r)
    \/ \E a \in Apps : CatalogSave(a) \/ CatalogDelete(a)
    \/ Restart

Spec == Init /\ [][Next]_vars

-------------------------------------------------------------------------------
(* Properties *)

\* Type correctness.
TypeOK ==
    /\ calm \in BOOLEAN /\ steady \in BOOLEAN /\ faults \in 0..MaxFaults
    /\ DOMAIN cr = Fields
    /\ \A f \in Fields :
          /\ cr[f].by \in Authors
          /\ CASE f \in Apps -> cr[f].v \in {None} \cup [rev : 1..MaxRevision, ok : BOOLEAN, as : Release]
               [] f = "sans" -> cr[f].v \subseteq Authors
               [] f = "oidc" -> cr[f].v \subseteq Settings
               [] f = "args" -> cr[f].v \in UNION {[set -> Authors] : set \in SUBSET Settings}
               [] OTHER -> cr[f].v \in BOOLEAN
    /\ \A a \in Apps : cat[a] \in {0, latest[a]} /\ \A p \in Places : guest[a][p] \in 0..latest[a]
    /\ \A r \in Requests :
          req[r].step \in {"idle", "plan", "deploy", "get", "patch", "done"}

\* Patches repeat what a copy said of settings nobody asked to change, deployments may
\* lie between the read and the write, and nothing detects a conflict
\* (k8s-client.ts:1167, cluster-apps.ts:374).  Still a request disturbs another's edit
\* only while the two overlap: what was stored when it began, and that nobody has
\* changed since, outlives a request about something else.
EarlierEditsSurvive ==
    [][\A r \in Requests :
          req[r].step = "patch" /\ req[r].listed /\ req'[r].step # "patch" =>
              \A f \in req[r].still \ About(req[r].op) : cr'[f].by = cr[f].by]_vars

\* Single sign-on is kept twice, as the configuration the application shows and as flags
\* of the API server, and an endpoint twice, as an annotation and among the certificate's
\* names (k8s-client.ts:1614).  After any requests that do not overlap or fail, what an
\* edit configured is the flags of that edit, whatever flags it found; beside them there
\* is at most a prefix an earlier one left (k8s-client.ts:1696), and nothing once single
\* sign-on is switched off.
SettingsAgree ==
    calm /\ Under = {} =>
        LET set == cr["oidc"].v
            flags == cr["args"].v
        IN  /\ cr["oidc"].by # First =>
                  \A s \in set : s \in DOMAIN flags /\ flags[s] = cr["oidc"].by
            /\ DOMAIN flags \subseteq set \cup (IF set = {} THEN {} ELSE {"prefix"})
            /\ cr["endpoint"].v => cr["endpoint"].by \in cr["sans"].v

\* The list of installed applications is the only record of what runs in the guest
\* (cluster-apps.ts:370).  After requests that do not overlap or fail, although
\* deployments may, a chart recorded as installed runs where it is recorded, in the
\* recorded revision.  One that is not listed does not run, if it has always had a
\* releaseName (cluster-apps.ts:234) and gone to one place: an installation elsewhere
\* leaves the old release running (cluster-apps.ts:337).
ChartsMatchList ==
    calm /\ Under = {} =>
        \A a \in HelmApps :
            LET e == cr[a].v
            IN  /\ e # None /\ e.ok => guest[a][e.as.at] = e.rev
                /\ steady /\ e = None => \A p \in Places : guest[a][p] = 0
=============================================================================
