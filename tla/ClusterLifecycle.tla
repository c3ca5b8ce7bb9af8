--------------------------- MODULE ClusterLifecycle ---------------------------
(***************************************************************************)
(* The life of one VirtualCluster: the custom resource users edit, the     *)
(* informer cache the operator reads it through, the single worker that    *)
(* runs VirtualClusterReconciler.Reconcile, and the two StatefulSets       *)
(* (etcd and the vCluster syncer) the StatefulSet controller runs for it.  *)
(*                                                                         *)
(* The worker acts on a snapshot taken from the cache, which may be older  *)
(* than the stored object.  The API server refuses an update made from an  *)
(* old resourceVersion; since the versions themselves are never compared   *)
(* in another way, a flag per reader ("is this copy still the current      *)
(* one?") stands for them.                                                 *)
(***************************************************************************)
EXTENDS Integers, FiniteSets

CONSTANTS
    Versions,     \* what the spec may ask for: one value for the Kubernetes,
                  \* vCluster and etcd versions, edited together
    FirstVersions, \* those a cluster is created with
    None,         \* the empty version string of a fresh status
    Host,         \* the version a namespaced cluster reports
    Down,         \* a pod that is not running
    Types,        \* spec.clusterType of the clusters created; host is like namespaced
    EtcdSize,     \* etcd replicas of the size preset, 0 for embedded SQLite
    SyncerSize,   \* syncer replicas of the size preset
    HostHasRoom,  \* the quota of this cluster fits on the host
    MaxGen,       \* bound: spec edits stop at this generation
    MaxLives,     \* bound: how many times a cluster of this name is created
    MaxFaults     \* bound: failed calls, lost pods and operator restarts

ClusterTypes == {"vcluster", "namespaced"}

ASSUME VersionAssumption ==
    /\ FirstVersions # {} /\ FirstVersions \subseteq Versions
    /\ None \notin Versions /\ Host \notin Versions /\ Down \notin Versions
    /\ None # Host
ASSUME SizeAssumption == EtcdSize \in Nat /\ SyncerSize \in Nat \ {0}
ASSUME FlagAssumption == Types \subseteq ClusterTypes /\ HostHasRoom \in BOOLEAN
ASSUME BoundAssumption == MaxGen \in Nat /\ MaxLives \in Nat /\ MaxFaults \in Nat

VARIABLES
    vc,           \* the stored VirtualCluster
    cached,       \* the informer's copy of it
    cacheFresh,   \* no write to vc since the informer last caught up
    rec,          \* the worker: program counter, snapshot, what it found
    sts,          \* the StatefulSets and their pods
    data,         \* the life whose data the volume claims hold, 0: no claims
    work,         \* are the tenant's workloads scaled up?
    faults        \* disturbances so far

vars == <<vc, cached, cacheFresh, rec, sts, data, work, faults>>

Components == {"etcd", "syncer"}
Phases == {"", "Pending", "Provisioning", "Ready", "Upgrading", "Degraded",
           "Terminating", "Sleeping"}
WorkerStates == {"idle", "gate", "etcd", "syncer", "quiesce", "workloads",
                 "access", "components", "finish", "degrade",
                 "terminate", "cleanup", "release"}

Size(c) == IF c = "etcd" THEN EtcdSize ELSE SyncerSize
Ordinals(c) == 0..(Size(c) - 1)

\* The component whose volume claims hold the cluster's data.
Store == IF EtcdSize > 0 THEN "etcd" ELSE "syncer"

Status == [phase : Phases, obs : Nat, ver : Versions \cup {None, Host},
           asleep : {"Unknown", "True", "False"}]
VirtualCluster == [uid : Nat, exists : BOOLEAN, fin : BOOLEAN,
                   deleting : BOOLEAN, gen : Nat, sleep : BOOLEAN,
                   ver : Versions \cup {None}, type : ClusterTypes, st : Status]
StatefulSet(c) == [exists : BOOLEAN, owner : Nat, replicas : {0, Size(c)},
                   tmpl : Versions \cup {None},
                   pods : [Ordinals(c) -> Versions \cup {None, Down}], ready : Nat]
Reconciliation == [pc : WorkerStates, vc : VirtualCluster, fresh : BOOLEAN,
                   up : SUBSET Components, kube : BOOLEAN, all : BOOLEAN]

FreshStatus == [phase |-> "", obs |-> 0, ver |-> None, asleep |-> "Unknown"]
Gone(uid) == [uid |-> uid, exists |-> FALSE, fin |-> FALSE, deleting |-> FALSE,
              gen |-> 0, sleep |-> FALSE, ver |-> None, type |-> "vcluster",
              st |-> FreshStatus]
NoSts(c) == [exists |-> FALSE, owner |-> 0, replicas |-> 0, tmpl |-> None,
             pods |-> [o \in Ordinals(c) |-> Down], ready |-> 0]
Idle == [pc |-> "idle", vc |-> Gone(0), fresh |-> FALSE, up |-> {},
         kube |-> FALSE, all |-> FALSE]

Init ==
    /\ vc = Gone(0)
    /\ cached = Gone(0)
    /\ cacheFresh = TRUE
    /\ rec = Idle
    /\ sts = [c \in Components |-> NoSts(c)]
    /\ data = 0
    /\ work = "running"
    /\ faults = 0

-----------------------------------------------------------------------------
(* Disturbances are bounded so that every run of the model gets quiet.     *)

Fault == faults < MaxFaults /\ faults' = faults + 1
NoFault == UNCHANGED faults
Either(fault) == IF fault THEN Fault ELSE NoFault

\* Somebody other than the worker's current write changes the stored object:
\* every copy of it is out of date.
Stored(new) ==
    /\ vc' = new
    /\ cacheFresh' = (cacheFresh /\ new = vc)
    /\ cached' = cached

Running(c) == {o \in Ordinals(c) : sts[c].pods[o] # Down}
Quorum(n) == n \div 2 + 1

\* The guest API server answers: a syncer pod is up and its store has quorum.
Serving ==
    /\ Running("syncer") # {}
    /\ EtcdSize > 0 => Cardinality(Running("etcd")) >= Quorum(EtcdSize)

-----------------------------------------------------------------------------
(* Users, through the UI or kubectl.                                       *)

UserWrites(new) ==
    /\ Stored(new)
    /\ rec' = [rec EXCEPT !.fresh = FALSE]
    /\ UNCHANGED <<sts, data, work, faults>>

\* The namespaces a namespaced cluster is given may hold workloads scaled either way; a
\* virtual cluster has those of the data it finds.
Create ==
    /\ ~vc.exists
    /\ vc.uid < MaxLives
    /\ \E v \in FirstVersions, asleep \in BOOLEAN, type \in Types :
          /\ Stored([Gone(vc.uid + 1) EXCEPT !.exists = TRUE, !.gen = 1, !.type = type,
                                             !.sleep = asleep, !.ver = v])
          /\ work' \in IF type = "namespaced" THEN {"running", "asleep"}
                       ELSE IF data = 0 THEN {"running"} ELSE {work}
    /\ rec' = [rec EXCEPT !.fresh = FALSE]
    /\ UNCHANGED <<sts, data, faults>>

SetSleep ==
    /\ vc.exists
    /\ vc.gen < MaxGen
    /\ UserWrites([vc EXCEPT !.sleep = ~vc.sleep, !.gen = vc.gen + 1])

SetVersion ==
    /\ vc.exists
    /\ vc.gen < MaxGen
    /\ \E v \in Versions \ {vc.ver} :
          UserWrites([vc EXCEPT !.ver = v, !.gen = vc.gen + 1])

\* With the finalizer in place the API server only marks the object.
Delete ==
    /\ vc.exists
    /\ ~vc.deleting
    /\ UserWrites(IF vc.fin THEN [vc EXCEPT !.deleting = TRUE, !.gen = vc.gen + 1]
                            ELSE Gone(vc.uid))

-----------------------------------------------------------------------------
(* The operator process.                                                   *)

CacheSync ==
    /\ ~cacheFresh
    /\ cached' = vc
    /\ cacheFresh' = TRUE
    /\ UNCHANGED <<vc, rec, sts, data, work, faults>>

\* A restarted operator lists the object anew and starts from no snapshot.
Restart ==
    /\ Fault
    /\ rec' = Idle
    /\ cached' = vc
    /\ cacheFresh' = TRUE
    /\ UNCHANGED <<vc, sts, data, work>>

Goto(pc) == rec' = [rec EXCEPT !.pc = pc]

\* r.Update from a cached copy that is not the current one is refused, and the
\* reconcile simply runs again: the action needs a fresh cache.
AddFinalizer ==
    /\ rec.pc = "idle"
    /\ cached.exists /\ ~cached.deleting /\ ~cached.fin
    /\ cacheFresh
    /\ Stored([vc EXCEPT !.fin = TRUE])
    /\ UNCHANGED <<rec, sts, data, work, faults>>

\* Mutation: the reconcile goes on although the finalizer is not stored yet.
FetchUnfinalized ==
    /\ rec.pc = "idle"
    /\ cached.exists
    /\ rec' = [Idle EXCEPT !.pc = IF cached.deleting THEN "terminate" ELSE "gate",
                           !.vc = cached, !.fresh = cacheFresh]
    /\ UNCHANGED <<vc, cached, cacheFresh, sts, data, work, faults>>

\* Mutation: a cluster already marked Terminating is not torn down again but
\* reconciled like any other.
FetchTerminatingOnce ==
    /\ rec.pc = "idle"
    /\ cached.exists
    /\ cached.deleting \/ cached.fin
    /\ rec' = [Idle EXCEPT !.pc = IF cached.deleting /\ cached.st.phase # "Terminating"
                                  THEN "terminate" ELSE "gate",
                           !.vc = cached, !.fresh = cacheFresh]
    /\ UNCHANGED <<vc, cached, cacheFresh, sts, data, work, faults>>

\* Mutation: a refused finalizer removal is not retried.
FetchNoRetry ==
    /\ rec.pc = "idle"
    /\ cached.exists
    /\ cached.deleting \/ cached.fin
    /\ cached.st.phase # "Terminating"
    /\ rec' = [Idle EXCEPT !.pc = IF cached.deleting THEN "terminate" ELSE "gate",
                           !.vc = cached, !.fresh = cacheFresh]
    /\ UNCHANGED <<vc, cached, cacheFresh, sts, data, work, faults>>

Fetch ==
    /\ rec.pc = "idle"
    /\ cached.exists
    /\ cached.deleting \/ cached.fin
    /\ rec' = [Idle EXCEPT !.pc = IF cached.deleting THEN "terminate" ELSE "gate",
                           !.vc = cached, !.fresh = cacheFresh]
    /\ UNCHANGED <<vc, cached, cacheFresh, sts, data, work, faults>>

Namespaced(c) == c.type = "namespaced"
NeedsUpgrade(c) == ~Namespaced(c) /\ c.st.ver # None /\ c.st.ver # c.ver

\* The phase the reconcile goes on with once the checks at its head are done.
PhaseAtGate(c) == IF NeedsUpgrade(c) THEN "Upgrading"
                  ELSE IF c.st.phase = "" THEN "Pending" ELSE c.st.phase

\* Namespaces, upgrade detection and the capacity guardrail.
Gate ==
    /\ rec.pc = "gate"
    /\ \/ /\ Namespaced(rec.vc)                \* ensureNamespaces failed
          /\ Fault
          /\ Goto("degrade")
       \/ /\ NoFault
          /\ LET p == PhaseAtGate(rec.vc)
                 refused == ~HostHasRoom /\ p \in {"Pending", "Provisioning"}
             IN  rec' = [rec EXCEPT
                    !.vc.st.phase = p,
                    !.pc = IF refused THEN "degrade"
                           ELSE IF Namespaced(rec.vc) THEN "workloads"
                           ELSE IF rec.vc.sleep THEN "quiesce" ELSE "etcd"]
    /\ UNCHANGED <<vc, cached, cacheFresh, sts, data, work>>

\* Mutation: an early return writes a new status instead of amending the old.
DegradedReset ==
    /\ rec.pc = "degrade"
    /\ rec' = Idle
    /\ IF rec.fresh
       THEN Stored([vc EXCEPT !.st = [FreshStatus EXCEPT !.phase = "Degraded"]])
       ELSE UNCHANGED <<vc, cached, cacheFresh>>
    /\ UNCHANGED <<sts, data, work, faults>>

\* The early returns: phase Degraded, with an update whose error is dropped.
DegradedUpdate ==
    /\ rec.pc = "degrade"
    /\ rec' = Idle
    /\ IF rec.fresh
       THEN Stored([vc EXCEPT !.st = [rec.vc.st EXCEPT !.phase = "Degraded"]])
       ELSE UNCHANGED <<vc, cached, cacheFresh>>
    /\ UNCHANGED <<sts, data, work, faults>>

-----------------------------------------------------------------------------
(* StatefulSets as the reconcilers write them.                             *)

\* Mutation: an upgrade surges by one replica.
SurgeReplicas(c) == IF NeedsUpgrade(rec.vc) THEN Size(c) + 1 ELSE Size(c)
WantedReplicas(c) == IF rec.vc.sleep THEN 0 ELSE Size(c)

Created(c) == [NoSts(c) EXCEPT !.exists = TRUE, !.owner = rec.vc.uid,
                               !.replicas = WantedReplicas(c), !.tmpl = rec.vc.ver]
\* Mutation: only the replicas of an existing StatefulSet are updated.
ScaledOnly(c) == [sts[c] EXCEPT !.replicas = WantedReplicas(c)]
Updated(c) == [sts[c] EXCEPT !.replicas = WantedReplicas(c), !.tmpl = rec.vc.ver]

\* Ready is judged on the readyReplicas the StatefulSet controller last
\* published, whichever pods those were.
Judged(c) == /\ sts[c].exists
             /\ WantedReplicas(c) > 0
             /\ sts[c].ready >= Quorum(WantedReplicas(c))

\* The ways a reconcile of one StatefulSet can end: it is as wanted; or nothing
\* was written, because the update lost to a conflict (dropped silently) or the
\* copy of the StatefulSet the worker read was old; or the call was refused.
Written(c) == /\ sts' = [sts EXCEPT ![c] = IF @.exists THEN Updated(c) ELSE Created(c)]
              /\ NoFault
Missed(c) == Fault /\ UNCHANGED sts
Refused(c) == Fault /\ UNCHANGED sts

\* What the caller makes of the answer.
Found(c, ready, next) ==
    LET p == IF ready \/ rec.vc.st.phase = "Upgrading" \/ rec.vc.sleep
             THEN rec.vc.st.phase ELSE "Provisioning"
        up == IF ready THEN rec.up \cup {c} ELSE rec.up
    IN  rec' = [rec EXCEPT !.pc = next, !.up = up, !.vc.st.phase = p]

\* After a miss, the ready count is that of the copy that was read.
Answered(c, next) ==
    \/ Written(c) /\ Found(c, Judged(c), next)
    \/ /\ Missed(c)
       /\ \E ready \in BOOLEAN : (ready => WantedReplicas(c) > 0) /\ Found(c, ready, next)

AfterEtcd == IF rec.vc.sleep THEN "finish" ELSE "syncer"
AfterSyncer == IF rec.vc.sleep THEN "etcd" ELSE "access"

ReconcileEtcd ==
    /\ rec.pc = "etcd"
    /\ \/ /\ EtcdSize = 0                      \* embedded store: nothing to run
          /\ Found("etcd", TRUE, AfterEtcd)
          /\ UNCHANGED <<sts, faults>>
       \/ /\ EtcdSize > 0
          /\ Answered("etcd", AfterEtcd)
       \/ /\ EtcdSize > 0                      \* any other error
          /\ Refused("etcd")
          /\ Goto(IF rec.vc.sleep THEN AfterEtcd ELSE "degrade")
    /\ UNCHANGED <<vc, cached, cacheFresh, data, work>>

\* Mutation: starting over also deletes the volume claims.
SyncerFromScratch ==
    /\ rec.pc = "syncer"
    /\ \/ /\ Answered("syncer", AfterSyncer)
          /\ UNCHANGED data
       \/ /\ sts["syncer"].exists
          /\ Fault
          /\ sts' = [sts EXCEPT !["syncer"] = NoSts("syncer")]
          /\ data' = IF Store = "syncer" THEN 0 ELSE data
          /\ Found("syncer", FALSE, AfterSyncer)
       \/ /\ Refused("syncer")
          /\ UNCHANGED data
          /\ Goto(IF rec.vc.sleep THEN AfterSyncer ELSE "degrade")
    /\ UNCHANGED <<vc, cached, cacheFresh, work>>

ReconcileSyncer ==
    /\ rec.pc = "syncer"
    /\ \/ Answered("syncer", AfterSyncer)
       \/ /\ sts["syncer"].exists              \* the update was rejected:
          /\ Fault                             \* delete it and start over
          /\ sts' = [sts EXCEPT !["syncer"] = NoSts("syncer")]
          /\ Found("syncer", FALSE, AfterSyncer)
       \/ /\ Refused("syncer")                 \* it could not be read or created
          /\ Goto(IF rec.vc.sleep THEN AfterSyncer ELSE "degrade")
    /\ UNCHANGED <<vc, cached, cacheFresh, data, work>>

\* Tenant workloads are scaled to zero through the guest API server, before it
\* goes away; a failure is ignored.
SleepVirtualWorkloads ==
    /\ rec.pc = "quiesce"
    /\ \E ok \in BOOLEAN :
          /\ Either(~ok /\ Serving)
          /\ work' = IF ok /\ Serving THEN "asleep" ELSE work
    /\ Goto("syncer")
    /\ UNCHANGED <<vc, cached, cacheFresh, sts, data>>

\* Mutation: namespaced workloads are woken but never put to sleep.
NamespacedWakeOnly ==
    /\ rec.pc = "workloads"
    /\ work' = IF rec.vc.sleep THEN work ELSE "running"
    /\ rec' = [rec EXCEPT !.pc = IF rec.vc.sleep THEN "finish" ELSE "access",
                          !.up = IF rec.vc.sleep THEN {} ELSE Components]
    /\ UNCHANGED <<vc, cached, cacheFresh, sts, data, faults>>

\* A namespaced cluster has no control plane: only workloads sleep and wake.
NamespacedWorkloads ==
    /\ rec.pc = "workloads"
    /\ \E ok \in BOOLEAN :
          /\ Either(~ok)
          /\ work' = IF ~ok THEN work ELSE IF rec.vc.sleep THEN "asleep" ELSE "running"
    /\ rec' = [rec EXCEPT !.pc = IF rec.vc.sleep THEN "finish" ELSE "access",
                          !.up = IF rec.vc.sleep THEN {} ELSE Components]
    /\ UNCHANGED <<vc, cached, cacheFresh, sts, data>>

-----------------------------------------------------------------------------
(* Kubeconfig, add-ons, quota, RBAC and ingress; then the final status.    *)

ReconcileAccess ==
    /\ rec.pc = "access"
    /\ \E ok, woken \in BOOLEAN :
          LET kube == ok /\ "syncer" \in rec.up
              wakes == kube /\ ~Namespaced(rec.vc) /\ Serving
          IN  /\ Either("syncer" \in rec.up /\ (~ok \/ (wakes /\ ~woken)))
              /\ work' = IF wakes /\ woken THEN "running" ELSE work
              /\ rec' = [rec EXCEPT !.pc = "components", !.kube = kube,
                                     !.vc.st.asleep = "False"]
    /\ UNCHANGED <<vc, cached, cacheFresh, sts, data>>

\* Whatever talks to the guest needs its API server.
Reachable == Namespaced(rec.vc) \/ (rec.kube /\ Serving)

ReconcileComponents ==
    /\ rec.pc = "components"
    /\ \/ /\ Reachable
          /\ NoFault
          /\ rec' = [rec EXCEPT !.pc = "finish", !.all = TRUE]
       \/ /\ Either(Reachable)                 \* add-ons, quota or RBAC pending
          /\ Goto("finish")
       \/ /\ ~Namespaced(rec.vc) /\ rec.kube   \* Istio or Gateway API error
          /\ Either(Reachable)
          /\ Goto("degrade")
    /\ UNCHANGED <<vc, cached, cacheFresh, sts, data, work>>

\* Mutation: the generation recorded is that of the object written over, not
\* of the snapshot the reconcile worked from.
LatestStatus ==
    LET asleep == IF rec.vc.sleep THEN "True" ELSE "False"
        ready == ~rec.vc.sleep /\ rec.up = Components /\ rec.all
    IN  [phase  |-> IF rec.vc.sleep THEN "Sleeping"
                    ELSE IF ready THEN "Ready" ELSE rec.vc.st.phase,
         obs    |-> vc.gen,
         ver    |-> IF ~ready THEN rec.vc.st.ver
                    ELSE IF Namespaced(rec.vc) THEN Host ELSE rec.vc.ver,
         asleep |-> asleep]

FinalStatus ==
    LET asleep == IF rec.vc.sleep THEN "True" ELSE "False"
        ready == ~rec.vc.sleep /\ rec.up = Components /\ rec.all
    IN  [phase  |-> IF rec.vc.sleep THEN "Sleeping"
                    ELSE IF ready THEN "Ready" ELSE rec.vc.st.phase,
         obs    |-> rec.vc.gen,
         ver    |-> IF ~ready THEN rec.vc.st.ver
                    ELSE IF Namespaced(rec.vc) THEN Host ELSE rec.vc.ver,
         asleep |-> asleep]

\* RetryOnConflict re-reads the cache and puts this status over whatever spec is
\* there now; while the cache is behind, every attempt conflicts and it gives up.
UpdateStatus ==
    /\ rec.pc = "finish"
    /\ rec' = Idle
    /\ IF cached.exists /\ cacheFresh
       THEN Stored([vc EXCEPT !.st = FinalStatus])
       ELSE UNCHANGED <<vc, cached, cacheFresh>>
    /\ UNCHANGED <<sts, data, work, faults>>

-----------------------------------------------------------------------------
(* handleDeletion.                                                         *)

MarkTerminating ==
    /\ rec.pc = "terminate"
    /\ rec' = [rec EXCEPT !.pc = "cleanup", !.vc.st.phase = "Terminating"]
    /\ IF rec.fresh
       THEN Stored([vc EXCEPT !.st.phase = "Terminating"])
       ELSE UNCHANGED <<vc, cached, cacheFresh>>
    /\ UNCHANGED <<sts, data, work, faults>>

\* Deletes by name, then a sweep; errors of either are dropped.
CleanUp ==
    /\ rec.pc = "cleanup"
    /\ \E kept \in SUBSET Components, keepData \in BOOLEAN :
          /\ Either(kept # {} \/ keepData)
          /\ sts' = [c \in Components |-> IF c \in kept THEN sts[c] ELSE NoSts(c)]
          /\ data' = IF keepData THEN data ELSE 0
          /\ work' = IF Namespaced(rec.vc) \/ keepData THEN work ELSE "running"
    /\ Goto("release")
    /\ UNCHANGED <<vc, cached, cacheFresh>>

RemoveFinalizer ==
    /\ rec.pc = "release"
    /\ rec' = Idle
    /\ IF rec.fresh THEN Stored(Gone(vc.uid)) ELSE UNCHANGED <<vc, cached, cacheFresh>>
    /\ UNCHANGED <<sts, data, work, faults>>

-----------------------------------------------------------------------------
(* Kubernetes: the StatefulSet controller, the garbage collector, bad luck. *)

Pods(c, o, p) == sts' = [sts EXCEPT ![c].pods[o] = p]

\* A pod starts from the current template and becomes ready; the syncer's
\* needs its store.  The first pod of the store binds the volume claims.
PodStart(c) ==
    /\ sts[c].exists
    /\ c = "syncer" /\ EtcdSize > 0 =>
          Cardinality(Running("etcd")) >= Quorum(EtcdSize)
    /\ \E o \in Ordinals(c) :
          /\ o < sts[c].replicas
          /\ sts[c].pods[o] = Down
          /\ Pods(c, o, sts[c].tmpl)
    /\ data' = IF c = Store /\ data = 0 THEN sts[c].owner ELSE data
    /\ UNCHANGED <<vc, cached, cacheFresh, rec, work, faults>>

PodStop(c) ==
    /\ \E o \in Running(c) : o >= sts[c].replicas /\ Pods(c, o, Down)
    /\ UNCHANGED <<vc, cached, cacheFresh, rec, data, work, faults>>

\* RollingUpdate: one pod at a time, the highest ordinal first.
PodRoll(c) ==
    /\ sts[c].exists
    /\ Cardinality(Running(c)) = sts[c].replicas
    /\ \E o \in Running(c) :
          /\ sts[c].pods[o] # sts[c].tmpl
          /\ \A p \in Running(c) : p > o => sts[c].pods[p] = sts[c].tmpl
          /\ Pods(c, o, Down)
    /\ UNCHANGED <<vc, cached, cacheFresh, rec, data, work, faults>>

PublishReady(c) ==
    /\ sts[c].exists
    /\ sts[c].ready # Cardinality(Running(c))
    /\ sts' = [sts EXCEPT ![c].ready = Cardinality(Running(c))]
    /\ UNCHANGED <<vc, cached, cacheFresh, rec, data, work, faults>>

\* Owner references take the StatefulSets of a cluster that is gone.
CollectGarbage(c) ==
    /\ sts[c].exists
    /\ ~vc.exists \/ sts[c].owner # vc.uid
    /\ sts' = [sts EXCEPT ![c] = NoSts(c)]
    /\ UNCHANGED <<vc, cached, cacheFresh, rec, data, work, faults>>

PodFail(c) ==
    /\ Fault
    /\ \E o \in Running(c) : Pods(c, o, Down)
    /\ UNCHANGED <<vc, cached, cacheFresh, rec, data, work>>

-----------------------------------------------------------------------------
User == Create \/ SetSleep \/ SetVersion \/ Delete

Worker ==
    \/ AddFinalizer \/ Fetch \/ Gate \/ DegradedUpdate
    \/ ReconcileEtcd \/ ReconcileSyncer
    \/ SleepVirtualWorkloads \/ NamespacedWorkloads
    \/ ReconcileAccess \/ ReconcileComponents \/ UpdateStatus
    \/ MarkTerminating \/ CleanUp \/ RemoveFinalizer

Kubernetes(c) == PodStart(c) \/ PodStop(c) \/ PodRoll(c) \/ PublishReady(c)
                 \/ CollectGarbage(c)

Next ==
    \/ User
    \/ CacheSync
    \/ Restart
    \/ Worker
    \/ \E c \in Components : Kubernetes(c) \/ PodFail(c)

Spec == Init /\ [][Next]_vars

\* The informer delivers, the work queue (watch events and the 10 or 30 second
\* requeue) brings the worker back, and Kubernetes' own controllers run.
Fairness ==
    /\ WF_vars(CacheSync)
    /\ WF_vars(Worker)
    /\ \A c \in Components :
          /\ WF_vars(PodStart(c)) /\ WF_vars(PodStop(c)) /\ WF_vars(PodRoll(c))
          /\ WF_vars(PublishReady(c)) /\ WF_vars(CollectGarbage(c))

FairSpec == Spec /\ Fairness
-----------------------------------------------------------------------------
(* Properties.                                                             *)

\* Every variable stays in its type.
TypeOK ==
    /\ vc \in VirtualCluster
    /\ cached \in VirtualCluster
    /\ cacheFresh \in BOOLEAN
    /\ rec \in Reconciliation
    /\ DOMAIN sts = Components
    /\ \A c \in Components : sts[c] \in StatefulSet(c)
    /\ data \in Nat
    /\ work \in {"running", "asleep"}
    /\ faults \in 0..MaxFaults

\* What the worker builds for a living cluster, the finalizer protects: while a
\* StatefulSet of the stored cluster exists, deleting that cluster cannot
\* bypass handleDeletion, however old the copy the worker built it from.
FinalizerProtects ==
    \A c \in Components :
        sts[c].exists /\ vc.exists /\ sts[c].owner = vc.uid => vc.fin

\* observedGeneration is honest: it never runs ahead, a deletion is never
\* reported as observed, and a status at the current generation tells of that
\* generation's spec, although it was computed from a cached copy and is written
\* over whatever object is there (Sleeping condition, phase Ready and versions).
StatusDescribesGeneration ==
    vc.exists =>
        /\ vc.st.obs <= vc.gen
        /\ vc.st.obs = vc.gen =>
              /\ ~vc.deleting
              /\ vc.st.asleep = (IF vc.sleep THEN "True" ELSE "False")
              /\ vc.st.phase = "Ready" => ~vc.sleep
              /\ vc.st.phase = "Ready" /\ ~Namespaced(vc) => vc.st.ver = vc.ver
              /\ vc.sleep /\ ~Namespaced(vc) => vc.st.phase = "Sleeping"

\* The observed generation of a cluster never goes back, so a client waiting for
\* it never sees an older reconcile overwrite a newer one.
ObservedNeverRegresses ==
    [][vc.exists /\ vc'.uid = vc.uid /\ vc'.exists => vc'.st.obs >= vc.st.obs]_vars

\* Once a cluster reports Terminating nothing brings it back: the phase stays,
\* and no StatefulSet is created for it by a reconcile that started earlier or
\* reads an old copy.
TerminatingIsFinal ==
    [][vc.exists /\ vc.st.phase = "Terminating" =>
          /\ vc'.exists => vc'.st.phase = "Terminating"
          /\ \A c \in Components :
                sts'[c].exists => sts[c].exists]_vars

\* Volume claims are taken away only from a cluster that is being deleted (or is
\* gone): not by sleep, an upgrade, a lost update, a restart, nor by the
\* teardown of an earlier cluster of the same name.
DataOutlivesEverythingButDeletion ==
    [][data # 0 /\ data' # data =>
          \/ ~vc.exists \/ vc.deleting
          \/ data # vc.uid]_vars

\* Once edits and faults cease, a cluster that is to be awake ends up Ready at
\* its current generation and version, every pod on that version, its
\* workloads scaled up again.
AwakeClusterSettles ==
    <>[](vc.exists /\ ~vc.deleting /\ ~vc.sleep =>
            /\ vc.st.phase = "Ready" /\ vc.st.obs = vc.gen
            /\ vc.st.ver = (IF Namespaced(vc) THEN Host ELSE vc.ver)
            /\ work = "running"
            /\ ~Namespaced(vc) => \A c \in Components : \A o \in Ordinals(c) :
                  sts[c].pods[o] = vc.ver)

\* Once edits and faults cease, a cluster that is to sleep ends up reported
\* Sleeping at its current generation with no pod running; a namespaced one
\* with its workloads scaled down.
SleepingClusterSettles ==
    <>[](vc.exists /\ ~vc.deleting /\ vc.sleep =>
            /\ vc.st.phase = "Sleeping" /\ vc.st.obs = vc.gen
            /\ \A c \in Components : Running(c) = {}
            /\ Namespaced(vc) => work = "asleep")

\* A deletion completes: the finalizer always comes off, and everything built
\* for the cluster follows it, even what the cleanup failed to delete.
DeletionCompletes ==
    /\ <>[](vc.exists => ~vc.deleting)
    /\ <>[](~vc.exists => \A c \in Components : ~sts[c].exists)

-----------------------------------------------------------------------------
(* What the repository says and the code does not do.                      *)

\* api/v1alpha1/virtualcluster_types.go: VirtualK8sVersion "reflects the actual
\* running virtual Kubernetes API version".
RecordedVersionRuns ==
    vc.exists /\ vc.st.phase = "Ready" /\ vc.st.ver \in Versions
        => \A o \in Running("syncer") : sts["syncer"].pods[o] = vc.st.ver

\* README: the guardrails "prevent provisioning virtual clusters ... beyond
\* available host headroom".
GuardrailHolds == ~HostHasRoom => \A c \in Components : ~sts[c].exists
=============================================================================
