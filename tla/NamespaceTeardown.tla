--------------------------- MODULE NamespaceTeardown ---------------------------
(***************************************************************************)
(* Several VirtualClusters in a few namespaces, and the one worker that    *)
(* builds and tears them down.  Deleting a cluster sweeps the objects of   *)
(* its namespace by label and name prefix; when the worker thinks that no  *)
(* other cluster lives there, it sweeps everything and, after its          *)
(* finalizer is gone, deletes the namespace.  Namespaced clusters govern   *)
(* further namespaces and share one RoleBinding name in each.              *)
(*                                                                         *)
(* What ClusterLifecycle says about one cluster (status, sleep, versions)  *)
(* is left out here; what it leaves to chance in CleanUp is spelled out.   *)
(***************************************************************************)
EXTENDS Integers, FiniteSets

CONSTANTS
    Clusters,     \* names, each used once
    Namespaces,
    Protected,    \* default, kube-system, vcop-system and the like
    Plans,        \* Plans[c]: the ways the user may create c
    Sweeps,       \* Sweeps[c]: the clusters whose object names and labels pass
                  \* for c's: c itself and siblings named <c>-something
    None,         \* no RoleBinding
    MaxFaults     \* bound: failed calls, operator restarts, mistaken deletions

\* home is metadata.namespace; targets is spec.namespaces (GetNamespaces), empty
\* for a virtual cluster; admins says whether anyone is to be bound as an admin.
Plan == [home : Namespaces, targets : SUBSET Namespaces, admins : BOOLEAN]

ASSUME PlanAssumption == \A c \in Clusters : Plans[c] \subseteq Plan
ASSUME SweepAssumption ==
    /\ Sweeps \in [Clusters -> SUBSET Clusters]
    /\ \A c \in Clusters : c \in Sweeps[c]
ASSUME NameAssumption == None \notin Clusters /\ Protected \subseteq Namespaces
ASSUME BoundAssumption == MaxFaults \in Nat

VARIABLES
    vcs,          \* the stored custom resources
    seen,         \* the informer's copy of all of them
    plan,         \* what each was created with
    posted,       \* creations whose namespace was requested, but not the cluster
    ns,           \* the namespaces
    things,       \* what the operator built
    admin,        \* the cluster whose admins vcop-oidc-admins binds, by namespace
    op,           \* the worker
    faults

vars == <<vcs, seen, plan, posted, ns, things, admin, op, faults>>

\* A cluster that is deleted before it has its finalizer is gone; one that was
\* torn down is released.
States == {"new", "live", "deleting", "gone", "released"}
VirtualCluster == [st : States, fin : BOOLEAN]
Live(d) == vcs[d].st = "live"
Built(d) == Live(d) /\ vcs[d].fin

\* Owned objects carry an owner reference to the cluster.  Volume claims, and
\* whatever a namespaced cluster has outside its home, do not: they are loose.
Thing == [of : Clusters, in : Namespaces, kind : {"owned", "loose"}]
Wanted(c) ==
    LET home == plan[c].home
    IN  {[of |-> c, in |-> home, kind |-> "owned"]} \cup
        IF plan[c].targets = {}
        THEN {[of |-> c, in |-> home, kind |-> "loose"]}
        ELSE {[of |-> c, in |-> n, kind |-> "loose"] : n \in plan[c].targets \ {home}}

Steps == {"idle", "ensure", "build", "grant", "sweep", "decide", "release", "drop"}
Worker == [pc : Steps, c : Clusters \cup {None}, dedicated : BOOLEAN]
Idle == [pc |-> "idle", c |-> None, dedicated |-> FALSE]

Active(n) == ns[n] = "active"
Absent == {n \in Namespaces : ns[n] = "absent"}

Init ==
    /\ vcs = [c \in Clusters |-> [st |-> "new", fin |-> FALSE]]
    /\ seen = vcs
    /\ plan \in [Clusters -> Plan] /\ \A c \in Clusters : plan[c] \in Plans[c]
    /\ posted = {}
    /\ ns = [n \in Namespaces |-> IF n \in Protected THEN "active" ELSE "absent"]
    /\ things = {}
    /\ admin = [n \in Namespaces |-> None]
    /\ op = Idle
    /\ faults = 0

Fault == faults < MaxFaults /\ faults' = faults + 1
NoFault == UNCHANGED faults
Either(fault) == IF fault THEN Fault ELSE NoFault

-----------------------------------------------------------------------------
(* The web application.                                                    *)

\* createVirtualCluster asks for the namespaces first; errors are ignored.
PostNamespaces(c) ==
    /\ vcs[c].st = "new"
    /\ c \notin posted
    /\ posted' = posted \cup {c}
    /\ ns' = [n \in Namespaces |->
                IF n \in Absent \cap ({plan[c].home} \cup plan[c].targets)
                THEN "active" ELSE ns[n]]
    /\ UNCHANGED <<vcs, seen, plan, things, admin, op, faults>>

\* The custom resource is refused by a namespace that is missing or going.
PostCluster(c) ==
    /\ c \in posted
    /\ posted' = posted \ {c}
    /\ vcs' = [vcs EXCEPT ![c].st = IF Active(plan[c].home) THEN "live" ELSE "gone"]
    /\ UNCHANGED <<seen, plan, ns, things, admin, op, faults>>

Marked(c) == IF vcs[c].fin THEN [vcs[c] EXCEPT !.st = "deleting"]
                           ELSE [vcs[c] EXCEPT !.st = "gone"]

UserDelete(c) ==
    /\ Live(c)
    /\ vcs' = [vcs EXCEPT ![c] = Marked(c)]
    /\ UNCHANGED <<seen, plan, posted, ns, things, admin, op, faults>>

\* deleteVirtualCluster with a namespace in which the API server finds no such
\* cluster: the namespace is deleted, whoever lives there.
DeleteFallback(c, n) ==
    /\ ~(vcs[c].st \in {"live", "deleting"} /\ plan[c].home = n)
    /\ Active(n) /\ n \notin Protected
    /\ Fault
    /\ ns' = [ns EXCEPT ![n] = "terminating"]
    /\ UNCHANGED <<vcs, seen, plan, posted, things, admin, op>>

-----------------------------------------------------------------------------
(* The operator.                                                           *)

CacheSync ==
    /\ seen # vcs
    /\ seen' = vcs
    /\ UNCHANGED <<vcs, plan, posted, ns, things, admin, op, faults>>

Restart ==
    /\ Fault
    /\ op.pc # "idle"
    /\ op' = Idle
    /\ seen' = vcs
    /\ UNCHANGED <<vcs, plan, posted, ns, things, admin>>

Goto(pc) == op' = [op EXCEPT !.pc = pc]
\* Mutation: a verdict outlives the reconcile it was reached in.
DoneUndecided == op' = [op EXCEPT !.pc = "idle", !.c = None]
Done == op' = Idle

AddFinalizer(c) ==
    /\ op.pc = "idle"
    /\ seen[c] = [st |-> "live", fin |-> FALSE]
    /\ vcs[c] = seen[c]
    /\ vcs' = [vcs EXCEPT ![c].fin = TRUE]
    /\ UNCHANGED <<seen, plan, posted, ns, things, admin, op, faults>>

\* Mutation: a cluster in a namespace that is going is left to Kubernetes.
FetchUnlessEvicted(c) ==
    /\ op.pc = "idle"
    /\ seen[c].st \in {"live", "deleting"} /\ seen[c].fin
    /\ ns[plan[c].home] # "terminating"
    /\ op' = [pc |-> IF seen[c].st = "deleting" THEN "sweep"
                     ELSE IF plan[c].targets = {} THEN "build" ELSE "ensure",
              c |-> c, dedicated |-> FALSE]
    /\ UNCHANGED <<vcs, seen, plan, posted, ns, things, admin, faults>>

Fetch(c) ==
    /\ op.pc = "idle"
    /\ seen[c].st \in {"live", "deleting"} /\ seen[c].fin
    /\ op' = [pc |-> IF seen[c].st = "deleting" THEN "sweep"
                     ELSE IF plan[c].targets = {} THEN "build" ELSE "ensure",
              c |-> c, dedicated |-> FALSE]
    /\ UNCHANGED <<vcs, seen, plan, posted, ns, things, admin, faults>>

EnsureNamespaces ==
    /\ op.pc = "ensure"
    /\ \E made \in SUBSET (Absent \cap plan[op.c].targets) :
          /\ ns' = [n \in Namespaces |-> IF n \in made THEN "active" ELSE ns[n]]
          /\ \/ made = Absent \cap plan[op.c].targets /\ NoFault /\ Goto("build")
             \/ Fault /\ Done
    /\ UNCHANGED <<vcs, seen, plan, posted, things, admin>>

\* Nothing can be created in a namespace that is missing or going.
Build ==
    /\ op.pc = "build"
    /\ LET possible == {t \in Wanted(op.c) : Active(t.in)}
       IN  \E made \in SUBSET possible :
              /\ Either(made # possible)
              /\ things' = things \cup made
    /\ IF plan[op.c].targets = {} THEN Done ELSE Goto("grant")
    /\ UNCHANGED <<vcs, seen, plan, posted, ns, admin>>

\* Mutation: an existing binding is not brought up to date.
GrantOnce ==
    /\ op.pc = "grant"
    /\ LET targets == plan[op.c].targets
           possible == {n \in targets : Active(n)}
       IN  \E done \in SUBSET possible :
              /\ Either(done # possible /\ possible = targets)
              /\ admin' = [n \in Namespaces |->
                    IF n \notin done \/ admin[n] # None THEN admin[n]
                    ELSE IF plan[op.c].admins THEN op.c ELSE None]
    /\ Done
    /\ UNCHANGED <<vcs, seen, plan, posted, ns, things>>

\* ReconcileNamespacedRBAC stops at the first namespace that refuses; without
\* admins it deletes the binding, whoever wrote it.
Grant ==
    /\ op.pc = "grant"
    /\ LET targets == plan[op.c].targets
           possible == {n \in targets : Active(n)}
       IN  \E done \in SUBSET possible :
              /\ Either(done # possible /\ possible = targets)
              /\ admin' = [n \in Namespaces |->
                    IF n \notin done THEN admin[n]
                    ELSE IF plan[op.c].admins THEN op.c ELSE None]
    /\ Done
    /\ UNCHANGED <<vcs, seen, plan, posted, ns, things>>

\* Mutation: clusters that are being deleted count as users of the namespace.
SharedWithDeleting(c, d) ==
    d # c /\ seen[d].st \in {"live", "deleting"} /\ plan[d].home = plan[c].home
\* Mutation: a namespaced cluster does not count as a user of its home.
SharedWithVirtual(c, d) ==
    d # c /\ seen[d].st = "live" /\ plan[d].home = plan[c].home /\ plan[d].targets = {}
\* Mutation: the names are compared as prefixes, as the sweep does.
SharedByPrefix(c, d) ==
    d \notin Sweeps[c] /\ seen[d].st = "live" /\ plan[d].home = plan[c].home

\* isDedicatedNamespace, on the informer's list.
Shared(c, d) == d # c /\ seen[d].st = "live" /\ plan[d].home = plan[c].home
Dedicated(c) == plan[c].home \notin Protected /\ \A d \in Clusters : ~Shared(c, d)

\* Deletes by name in the targets, then the sweep of the home; the RoleBinding
\* in the home is labelled with the cluster that wrote it last.  No object is
\* built while this goes on, since only this worker builds.
Swept(t) ==
    \/ t.of = op.c /\ t.in \in plan[op.c].targets
    \/ t.in = plan[op.c].home /\ (Dedicated(op.c) \/ t.of \in Sweeps[op.c])
Unbound(n) ==
    \/ n \in plan[op.c].targets
    \/ n = plan[op.c].home /\ (Dedicated(op.c) \/ admin[n] = op.c)

Sweep ==
    /\ op.pc = "sweep"
    /\ \E kept \in SUBSET {t \in things : Swept(t)},
          bound \in SUBSET {n \in Namespaces : admin[n] # None /\ Unbound(n)} :
             /\ Either(kept # {} \/ bound # {})
             /\ things' = {t \in things : ~Swept(t)} \cup kept
             /\ admin' = [n \in Namespaces |->
                    IF Unbound(n) /\ n \notin bound THEN None ELSE admin[n]]
    /\ Goto("decide")
    /\ UNCHANGED <<vcs, seen, plan, posted, ns>>

\* A list that cannot be read counts as shared.
Decide ==
    /\ op.pc = "decide"
    /\ \E listed \in BOOLEAN :
          /\ Either(~listed)
          /\ op' = [op EXCEPT !.pc = "release", !.dedicated = listed /\ Dedicated(op.c)]
    /\ UNCHANGED <<vcs, seen, plan, posted, ns, things, admin>>

\* Refused when the copy is old: the reconcile fails and is repeated.
RemoveFinalizer ==
    /\ op.pc = "release"
    /\ \/ /\ vcs[op.c].st = "deleting"
          /\ NoFault
          /\ vcs' = [vcs EXCEPT ![op.c].st = "released"]
          /\ IF op.dedicated THEN Goto("drop") ELSE Done
       \/ /\ Either(vcs[op.c].st = "deleting")
          /\ vcs' = vcs
          /\ Done
    /\ UNCHANGED <<seen, plan, posted, ns, things, admin>>

\* The error is only logged, and nothing repeats this step.
DropNamespace ==
    /\ op.pc = "drop"
    /\ LET n == plan[op.c].home
       IN  \E ok \in BOOLEAN :
              /\ Either(~ok)
              /\ ns' = IF ok /\ Active(n) THEN [ns EXCEPT ![n] = "terminating"] ELSE ns
    /\ Done
    /\ UNCHANGED <<vcs, seen, plan, posted, things, admin>>

-----------------------------------------------------------------------------
(* Kubernetes: the namespace controller and the garbage collector.         *)

EvictCluster(c) ==
    /\ Live(c)
    /\ ns[plan[c].home] = "terminating"
    /\ vcs' = [vcs EXCEPT ![c] = Marked(c)]
    /\ UNCHANGED <<seen, plan, posted, ns, things, admin, op, faults>>

EmptyNamespace(n) ==
    /\ ns[n] = "terminating"
    /\ admin[n] # None \/ \E t \in things : t.in = n
    /\ things' = {t \in things : t.in # n}
    /\ admin' = [admin EXCEPT ![n] = None]
    /\ UNCHANGED <<vcs, seen, plan, posted, ns, op, faults>>

FinishNamespace(n) ==
    /\ ns[n] = "terminating"
    /\ admin[n] = None /\ \A t \in things : t.in # n
    /\ \A c \in Clusters : vcs[c].st \in {"live", "deleting"} => plan[c].home # n
    /\ ns' = [ns EXCEPT ![n] = "absent"]
    /\ UNCHANGED <<vcs, seen, plan, posted, things, admin, op, faults>>

CollectGarbage ==
    LET orphans == {t \in things : t.kind = "owned"
                                   /\ vcs[t.of].st \in {"gone", "released"}}
    IN  /\ orphans # {}
        /\ things' = things \ orphans
        /\ UNCHANGED <<vcs, seen, plan, posted, ns, admin, op, faults>>

-----------------------------------------------------------------------------
Reconcile(c) == AddFinalizer(c) \/ Fetch(c)
Proceed == EnsureNamespaces \/ Build \/ Grant \/ Sweep \/ Decide
           \/ RemoveFinalizer \/ DropNamespace
NamespaceController(n) == EmptyNamespace(n) \/ FinishNamespace(n)

Next ==
    \/ \E c \in Clusters :
          \/ PostNamespaces(c) \/ PostCluster(c) \/ UserDelete(c)
          \/ Reconcile(c) \/ EvictCluster(c)
          \/ \E n \in Namespaces : DeleteFallback(c, n)
    \/ CacheSync \/ Restart \/ Proceed \/ CollectGarbage
    \/ \E n \in Namespaces : NamespaceController(n)

Spec == Init /\ [][Next]_vars

\* The work queue is first in, first out and every cluster is queued again after
\* at most 30 seconds, so each gets its turn however busy the others keep the
\* worker: strong fairness for each.
Fairness ==
    /\ WF_vars(CacheSync) /\ WF_vars(Proceed) /\ WF_vars(CollectGarbage)
    /\ \A c \in Clusters : SF_vars(Reconcile(c)) /\ WF_vars(EvictCluster(c))
    /\ \A n \in Namespaces : WF_vars(NamespaceController(n))

FairSpec == Spec /\ Fairness
-----------------------------------------------------------------------------
(* Properties.                                                             *)

\* Every variable stays in its type; a worker at work has a cluster, and only one
\* that has decided has a verdict.
TypeOK ==
    /\ vcs \in [Clusters -> VirtualCluster]
    /\ seen \in [Clusters -> VirtualCluster]
    /\ plan \in [Clusters -> Plan]
    /\ posted \subseteq Clusters
    /\ ns \in [Namespaces -> {"absent", "active", "terminating"}]
    /\ things \subseteq Thing
    /\ admin \in [Namespaces -> Clusters \cup {None}]
    /\ op \in Worker
    /\ op.pc # "idle" => op.c \in Clusters
    /\ op.dedicated => op.pc \in {"release", "drop"}
    /\ faults \in 0..MaxFaults

\* When the worker is about to delete a namespace it took for dedicated, or to
\* sweep one whole, no other cluster that was ever built lives there: not one
\* created since the decision, nor one the informer had not shown yet.
VerdictSparesOthers ==
    \/ op.pc \in {"release", "drop"} /\ op.dedicated
    \/ op.pc = "sweep" /\ Dedicated(op.c)
    => \A d \in Clusters \ {op.c} : plan[d].home = plan[op.c].home => ~Built(d)

\* What was built for a cluster at home stays while the cluster lives, unless its
\* namespace is going or a cluster whose name it extends is swept.
ThingsStay ==
    [][\A t \in things : Built(t.of) /\ t.in = plan[t.of].home /\ t \notin things' =>
          \/ ns[t.in] = "terminating"
          \/ op.pc = "sweep" /\ t.of # op.c /\ t.of \in Sweeps[op.c]]_vars

\* A deletion ends, whatever else goes on in the namespace.
DeletionCompletes == \A c \in Clusters : <>[](vcs[c].st # "deleting")

\* Without failures nothing is left of clusters that were torn down: no object,
\* no admin binding, and no namespace that only such clusters lived in and no
\* other cluster uses.
NothingLeftBehind ==
    <>[](faults = 0 =>
        /\ \A t \in things : Live(t.of)
        /\ \A n \in Namespaces : admin[n] # None => Live(admin[n])
        /\ \A n \in Namespaces \ Protected :
              LET at == {c \in Clusters : plan[c].home = n}
              IN  /\ at # {} /\ at \cap posted = {}
                  /\ \A c \in at : vcs[c].st = "released"
                  /\ \A c \in Clusters \ at : n \notin plan[c].targets
                  => ns[n] = "absent")

\* Where one cluster alone governs a namespace, its admins are bound there again
\* and again, whatever another cluster's teardown removed.
AdminsReturn ==
    \A c \in Clusters, n \in Namespaces :
        <>[](/\ Live(c) /\ plan[c].admins /\ n \in plan[c].targets
             /\ \A d \in Clusters \ {c} : Live(d) => n \notin plan[d].targets)
        => <>[](admin[n] = c)

-----------------------------------------------------------------------------
(* What the repository says and the code does not do.                      *)

\* lib/k8s-client.ts, deleteVirtualCluster: "check if a dedicated namespace exists
\* and clean it up".
FallbackIsDedicated ==
    [][\A c \in Clusters, n \in Namespaces :
          DeleteFallback(c, n) => \A d \in Clusters : Built(d) => plan[d].home # n]_vars
=============================================================================
