# vCOp, specified

vCOp runs *virtual Kubernetes clusters* on a host cluster.  A `VirtualCluster`
custom resource says what a user wants; an operator (`src/apps/vc-operator`,
Go) builds it out of StatefulSets, Services, Secrets and namespaces; a web
application (`src/apps/ui`, TypeScript) edits the resources, keeps catalogs and
registries in ConfigMaps and records what happened in PostgreSQL.  This
directory holds TLA+ modules translated from that code, TLC configurations that
check them on small instances, and theorems about them that TLAPS checks.

`PROJECT.json` is the index: components, runs, mutated definitions that each
property is known to catch, the source lines every definition stands for, the
findings, the hazards and the theorems.

    tlc -workers 2 -config LifecycleSafety.cfg MCClusterLifecycle.tla
    tlc -workers 2 -config Namespaces.cfg MCNamespaceTeardown.tla
    tlc -workers 2 -config SleepWake.cfg MCSleepWake.tla
    tlc -workers 2 -config Recovery.cfg MCEtcdRecovery.tla
    tlc -workers 2 -config Catalog.cfg MCCatalogStore.tla
    tlc -workers 2 -config Edits.cfg MCClusterEdits.tla
    tlc -workers 2 -config Registry.cfg MCRegistryStore.tla
    tlapm ClusterLifecycleProofs.tla

and so for the other modules whose names end in `Proofs`, and for `ListFacts`.

| Module | Question it answers |
|---|---|
| `ClusterLifecycle` | one cluster through its whole life, against stale copies, lost pods and restarts |
| `NamespaceTeardown` | several clusters whose names and namespaces overlap: what a teardown takes |
| `SleepWake` | the workloads of one cluster put to sleep and woken one at a time |
| `EtcdRecovery` | backups of a cluster's etcd and restores into it, killed at any command |
| `ClusterEdits` | the web application's requests on one cluster, each a merge patch computed from a copy |
| `CatalogStore`, abstractly `VersionedCatalog` | the application catalog and its history in two ConfigMaps behind two caches |
| `RegistryStore`, abstractly `ChosenDefault` | a list with a default, whose objects are shared by the cache, the shipped list and the edits |
| `Lists`, with `ListFacts` | filters of lists, lists in which an id may come twice, and what is true of every filter |

## 1. The system

| Part | State | Operations | Hard because | Correct when |
|---|---|---|---|---|
| Lifecycle controller (`controllers/virtualcluster_controller.go`) | the custom resource's finalizer, phase, conditions, observed generation, recorded versions | one long reconcile: finalizer, checks, etcd, syncer, kubeconfig, add-ons, quota, RBAC, ingress, status; `handleDeletion` | works from an informer copy; errors dropped at many steps; status written over a newer spec; restarts anywhere | status tells of the generation it names; deletion cannot bypass the cleanup; a cluster left alone settles |
| etcd and syncer reconcilers | two StatefulSets, volume claims | create, scale, roll, delete and start over, judge quorum | conflicts are silent; readiness is that of an earlier rollout | data survives all but deletion |
| Sleep and wake | replica counts kept in annotations of guest or host workloads | scale to zero, scale back | one workload at a time, guest API going away, errors ignored | the replica count restored is the one before sleep |
| Namespace teardown | all objects of a namespace | sweep by label and name prefix; delete a dedicated namespace | decided before the finalizer goes, executed after; siblings in the namespace | only the cluster's own objects go |
| Capacity (`pkg/capacity`), admission (`pkg/webhook`) | none of their own | sum of quotas against the nodes; upgrade path rules | check and use are apart; two clusters at once | the host is never promised twice |
| Disaster recovery (`dr_reconciler.go`, `dr-runner`) | CronJob, backup volume, marker files | snapshot, index, mirror, prune, restore | crash between wiping and restoring; markers outlive restores; runs overlap | etcd never comes up on half a snapshot; a restore happens once; enough backups stay |
| Quota, RBAC, kubeconfig, add-ons, Istio, Gateway API reconcilers | objects on the host or in the guest | create, update, clean up | names shared between clusters; guest unreachable | the objects match the spec they were last told |
| Image resolver (`pkg/registry`) | a cache with a time to live | rewrite image names | concurrent refresh, stale entries | an outage keeps the last good answer |
| UI Kubernetes client (`lib/k8s-client.ts`) | none | create, edit, sleep, upgrade, delete, back up, restore | HTTP errors resolve like successes | what it reports happened |
| UI catalog and history (`lib/appstore.ts`, `lib/catalog-vcs.ts`), registries (versions, tiers, baselines, identity providers, images, access policy) | a ConfigMap each, a cached copy each | read-modify-write of the whole document, defaults when it cannot be read | no resource versions; failures replaced by defaults | no update is lost, one default, revisions unique |
| UI application installs (`lib/cluster-apps.ts`) | an annotation on the cluster, manifests in the guest | install, uninstall, sync, roll back | a long deployment between read and write | the list says what is deployed |
| UI sessions and policy (`lib/auth.ts`, `lib/access-policy.ts`, `middleware.ts`) | signed cookies, policy document | resolve a role, decide | policy cached and defaulted | a role is no more than its source grants |
| UI audit log, metrics, network flows | memory buffer, PostgreSQL | append, query | two stores of one truth | no event is lost or told twice |

The parts meet in few places.  The UI and users write `spec`, the operator
writes `status` and the finalizer, both through the API server, which refuses
writes made from an old `resourceVersion` and bumps `generation` on spec edits.
The operator reads through an informer, so what it acts on may be older than
what is stored.  It writes StatefulSets; Kubernetes' own controllers turn them
into pods and report ready counts, later.

## 2. The plan

The modules, most important first.  Each operator module spells out what another
takes as one step: `NamespaceTeardown` the actions `CleanUp` and `RemoveFinalizer`
of `ClusterLifecycle`, `SleepWake` its `SleepVirtualWorkloads`,
`NamespacedWorkloads` and `ReconcileAccess`; `EtcdRecovery` what happens inside the
etcd pod the lifecycle only counts.  `ClusterEdits` produces the edits of the spec
that the operator's modules take as given.

| Module | Checked | Proved |
|---|---|---|
| `ClusterLifecycle` | safety, action properties, convergence | types, all its safety and action properties |
| `NamespaceTeardown` | safety, action properties, completion | types, the verdict on a namespace, and what is never swept |
| `SleepWake` | safety, quiet sleep and faithful wake | types, no count forgotten |
| `EtcdRecovery` | safety, action properties, restores take effect | types, whole restores, retention, writes survive restarts |
| `ClusterEdits` | settings kept twice, charts and their list, disturbance | types, earlier edits survive any request, settings and charts agree |
| `CatalogStore` implements `VersionedCatalog` | consistency under all faults, refinement without | everything it checks, the refinement included |
| `RegistryStore` implements `ChosenDefault` | the list's survival under all faults, refinement without | everything it checks, the refinement included |

Worth adding next: etcd with three members in `EtcdRecovery`; the sum of the quotas of
several clusters against the host; the access policy's cache.

## 3. ClusterLifecycle

### State

| Variable | Stands for |
|---|---|
| `vc` | the stored `VirtualCluster`: life (`uid`), finalizer, deletion mark, generation, sleep, version, status |
| `cached`, `cacheFresh` | the informer's copy, and whether it is the current one |
| `rec` | the worker between two steps of `Reconcile`: where it is, the snapshot `vc` it amends, whether that snapshot is still current, and the local variables `etcdReady`, `syncerReady` (`up`), `kubeconfigReady` (`kube`), add-ons to Gateway API (`all`) |
| `sts` | the two StatefulSets: owner, replicas, template version, pods, published ready count |
| `data` | the life whose data the volume claims of the store hold (etcd's, or the syncer's when SQLite is embedded) |
| `work` | whether tenant workloads are scaled up |
| `faults` | disturbances so far |

### Actions

| Action | Code |
|---|---|
| `Create`, `SetSleep`, `SetVersion`, `Delete` | the edits of `lib/k8s-client.ts`, as the API server stores them |
| `AddFinalizer`, `Fetch`, `Gate`, `DegradedUpdate` | the head of `Reconcile` and its early returns |
| `ReconcileEtcd`, `ReconcileSyncer` | create or update a StatefulSet, judge it by its ready count; every way the call can fail |
| `SleepVirtualWorkloads`, `NamespacedWorkloads`, `ReconcileAccess` | sleep and wake, kubeconfig |
| `ReconcileComponents`, `UpdateStatus` | add-ons to ingress in one outcome; final status under `RetryOnConflict` |
| `MarkTerminating`, `CleanUp`, `RemoveFinalizer` | `handleDeletion` |
| `CacheSync`, `Restart` | informer and operator process |
| `PodStart`, `PodStop`, `PodRoll`, `PublishReady`, `CollectGarbage`, `PodFail` | Kubernetes' controllers, external |

The worker takes one action per call that another party can observe; between
any two of them users edit, pods come and go, the informer lags or the process
restarts.

### What is abstracted

* `resourceVersion` is a flag per reader: is this copy still the current one?
  Nothing else is ever asked of a version.  A write that changes nothing does
  not outdate copies.  The informer jumps to the latest object.
* The Kubernetes, vCluster and etcd versions are edited and recorded together;
  one value stands for the three.
* A running pod is a ready pod.  Pods go with their StatefulSet.
* Add-ons, quota, RBAC, Istio and Gateway API are one outcome: all ready,
  something pending, or an ingress error that ends the reconcile Degraded.
* `CleanUp` is one step after which any part of what it should delete may
  remain, since every error of it is dropped.
* The migrations of StatefulSets made by older operators (pod management policy,
  claim template count) are left out, and so are metrics, events and the
  hardware ConfigMap.
* A StatefulSet read from an old informer copy shows up as a `Missed` update
  with any ready count the old copy may have had.

### Properties

* `TypeOK`: types; an over-scaled StatefulSet is out of type.
* `FinalizerProtects`: while a StatefulSet of the stored cluster exists, the
  cluster carries the finalizer.  The finalizer is added from one copy, the
  StatefulSet built from another, the object deleted and re-created meanwhile.
* `StatusDescribesGeneration`: the status is computed from a snapshot and written
  over whatever object the cache holds then; still, if it names the current
  generation, its phase, Sleeping condition and version are those of that spec.
* `ObservedNeverRegresses`: the early returns write the snapshot's status, the
  last step the computed one; neither moves the observed generation back.
* `TerminatingIsFinal`: after Terminating, no reconcile that was under way, and
  none that reads an old copy, restores a phase or a StatefulSet.
* `DataOutlivesEverythingButDeletion`: sleep, upgrade, a rejected update that
  deletes the StatefulSet, and the teardown of an earlier life all leave the
  data of a living cluster alone.
* `AwakeClusterSettles`, `SleepingClusterSettles`, `DeletionCompletes`: when edits
  and faults cease, the cluster gets where its spec says.

### Fairness

`CacheSync` (an informer delivers), `Worker` (a watch event or the requeue after
10 or 30 seconds brings the reconcile back, errors retry with back-off), and the
StatefulSet controller and garbage collector.  Users and faults get none.  One
worker runs: `SetupWithManager` leaves `MaxConcurrentReconciles` at one.  Leader
election is off by default, so during a rollout of the operator there may be two;
the model does not cover that and the hazards say so.

### Runs

| Run | Instance | Shows |
|---|---|---|
| `lifecycle_safety` | embedded store, one syncer pod, two lives, two generations per life and the deletion, one fault | the safety and action properties |
| `lifecycle_settles` | one etcd, one syncer pod, one life, one fault, fairness | convergence awake, asleep, and of a deletion |
| `stale_version` | no fault | finding: the recorded version does not run yet |
| `full_host` | a host without room | finding: the guardrail yields on the second reconcile |

Both passing runs take `Types` to be virtual and namespaced: the type of a cluster
is chosen in the initial state, and a namespaced one has no control plane, so that
its reconcile takes the other branch everywhere.

Bounds.  Two lives are what a stale copy of an earlier cluster needs.  Two
generations give one edit: sleep, wake or an upgrade during every step of a
reconcile; a deletion adds one more.  One fault lets each failing call, lost pod
or restart happen once at any moment; a longer outage is a worker that does not
move, which safety allows anyway.  Deadlock is not checked: with edits and faults
used up, a settled system stops.

## 4. NamespaceTeardown

### State and actions

`vcs` is the stored custom resources (new, live, deleting, gone before they had a
finalizer, released by their teardown) and `seen` the informer's copy of all of
them; `plan` says in which namespace each cluster lives (`home`) and, for a
namespaced one, which it governs (`targets`); `posted` is the creations that are
between their two requests.  `ns` is the namespaces, `things` what the operator
built (owned by the custom resource, or loose), `admin` whose administrators the
RoleBinding `vcop-oidc-admins` of a namespace binds, `op` the worker.

| Action | Code |
|---|---|
| `PostNamespaces`, `PostCluster` | `createVirtualCluster`: namespaces first, then the custom resource |
| `UserDelete`, `DeleteFallback` | `deleteVirtualCluster` and what it does on 404 |
| `AddFinalizer`, `Fetch`, `EnsureNamespaces`, `Build`, `Grant` | `Reconcile`, as far as it builds |
| `Sweep`, `Decide`, `RemoveFinalizer`, `DropNamespace` | `handleDeletion`, `handleNamespacedDeletion`, `cleanupRemainingClusterResources`, `isDedicatedNamespace` |
| `CacheSync`, `Restart` | informer and operator process |
| `EvictCluster`, `EmptyNamespace`, `FinishNamespace`, `CollectGarbage` | the namespace controller and garbage collector, external |

A virtual and a namespaced cluster are torn down by different functions with the
same shape; the plan tells them apart.  A cluster name is used once.  `Sweeps[c]`
holds the clusters whose objects pass for those of `c`, because the sweep goes by
the prefix `<c>-`; which objects of them carry such a name is not modelled, so
all may.  `Sweep` is one step: only the worker builds, so nothing is added while it
goes on, and what it fails to delete is any subset.  Status, sleep and versions
are module 1's business.

### Properties

* `VerdictSparesOthers`: from `Decide` on an old list to `DropNamespace` two writes
  later, no other cluster that was ever built lives in the namespace.  (One that
  exists but was not built yet may, and then goes with it.)
* `ThingsStay`: what was built at home for a living cluster is removed only with
  its namespace, or by the teardown of a cluster whose name it extends.
* `DeletionCompletes`, although namespaces terminate and clusters in them are
  evicted meanwhile.
* `NothingLeftBehind`: without failures, teardown leaves no object, no binding, and
  no namespace that only torn-down clusters lived in, even when two are deleted
  together and each must not leave the namespace to the other.
* `AdminsReturn`: two clusters overwrite each other's RoleBinding; where one alone
  is left to govern, its administrators are bound in the end.

Fairness is weak for the informer, the worker's next call and Kubernetes, and
strong for `Reconcile(c)`: the work queue is first in, first out and every cluster
is queued again, so none can keep the worker from another.

### Runs

`namespaces`: two clusters, one's name a prefix of the other's, two namespaces,
virtual and namespaced plans that share them or not, two failures.  Two clusters
are what every clash needs; two failures allow one in the sweep or the decision
followed by a restart or a mistaken deletion.  No namespace is protected here:
the protected ones (`default`, `kube-system` and the like) are never taken for
dedicated, so the instance keeps the harder kind.
`fallback_delete` shows the finding.  Deadlock is not checked: when all clusters
are gone, so is all work.

## 5. SleepWake

`load` holds each tenant workload's replicas and pre-sleep annotation, `intent` the
count its tenant last chose (for a workload put to sleep: before it was), `pods`
the workloads with pods on the host, `scaled` and `serving` the control plane as
asked for and as it is, `op` the worker with the workloads it listed.

`Fetch` decides between sleep and wake; `ListWorkloads`, `UpdateWorkload` and
`ScalingDone` are the four functions `sleepVirtualWorkloads`,
`wakeVirtualWorkloads`, `sleepNamespacedWorkloads` and `wakeNamespacedWorkloads`,
which differ only in the API server they ask; `CleanUpHostPods` runs before and
after `ScaleDown`; `ScaleUp` precedes a wake.  `Timeout` is the deadline the guest's
calls share.  `SetSleep` and `TenantScale` are the users; `ControlPlane`, `Outage`
and `SyncPods` are Kubernetes and the syncer.

An informer copy of the spec is not needed here: acting on an old one is acting
before the user's edit.  An old list of workloads shows as a workload that is
missed, or as an update that is refused; so do lists of kinds or namespaces that
fail.  Tenants do not edit the annotation, so its fallback to one replica is not
reached, which `TypeOK` and its theorem confirm.  `sleepNamespacedWorkloads` and its
counterpart for waking pass over workloads of the host's `kube-system` and
`vcop-system`, so those are none of the model's.  In a guest nothing is passed over:
`sleepVirtualWorkloads` scales the guest's own `kube-system` too, and its workloads are
workloads of the model like any other.

* `NothingForgotten`: the tenant's count is the annotation where there is one,
  the replicas elsewhere, whatever was interrupted and whoever scaled meanwhile.
* `SleepIsQuiet`: asleep for good means no pod on the host, even when the guest
  went away before its workloads were scaled.
* `WakeRestores`: awake for good means every workload at its tenant's count and
  no annotation left to bring an old count back.

The worker and Kubernetes are fair (the reconcile is queued again after 10 or 30
seconds, asleep or awake); users, outages and restarts are not.  Run `sleep_wake`:
two workloads (one may be done and one not), up to two replicas (zero, one and
another count), three edits (sleep, scale, wake in any order), two failures.
Deadlock is not checked: the worker never stops anyway.

## 6. EtcdRecovery

### State and actions

| Variable | Stands for |
|---|---|
| `initial`, `requests` | `spec.disasterRecovery`: the initial restore, and the names asked for one after the other |
| `tmpl`, `pod` | the environment of `etcd-restore-init` in the StatefulSet; the etcd pod: its environment, where its init container is, the file it settled on |
| `db`, `marks` | the data directory: nothing, part of a restore, or the last write it holds and the snapshot it came from; the `.restored_*` markers in it |
| `local`, `vault` | the files of the backup volume, by time of modification, and of the shared directory, each whole or cut short |
| `jobs`, `taken` | the running backups (the CronJob's, manual ones), and how many snapshots were taken |
| `writes`, `faults` | what tenants wrote, disturbances |
| `served`, `torn`, `crossed` | history variables: the requests etcd has come up for; whether a copy of a snapshot was lost or cut short; whether a run pruned between another's count and its deletions |

| Action | Code |
|---|---|
| `Request` | `restoreEtcdSnapshot`, with the restart of the pods it asks for |
| `ReconcileEtcd`, `Roll` | the operator rewrites the template, Kubernetes rolls the pod |
| `RestoreSkip`, `RestoreClear`, `RestoreData`, `Touch`, `RestoreClearKilled` | `restore.sh`: the file it settles on (`Source`), the reasons to leave (`Skip`), `rm -rf`, `etcdutl`, the marker; killed in between |
| `BackupSave`, `BackupLatest`, `BackupMirror`, `BackupPrune`, `BackupKilled` | `backup.sh`: snapshot, latest copy, shared directory and count, retention (`Excess`, `Prunes`); killed at any command, between two deletions too |
| `Write`, `PodRestart` | tenants; the pod is evicted |

The CronJob forbids overlapping runs of its own, but a manual Job may run beside
it.  etcd has one member, as in the preset `normal`; with three, a member that
restores joins members that have not, and what then happens is Raft's business.
`etcdutl` refuses a directory that is not empty, and markers begin with a dot, so
that the `rm -rf` leaves them: `RestoreData` may fail whenever there is a marker.
The index file is left out, since nothing reads it.

### Properties

* `RestoreIsWhole`: after any kill, a forced restore by name never lets etcd come up on
  part of a snapshot.  It excludes copies that were themselves cut short or lost, a name
  asked for a second time, which the marker skips, and the initial restore: that is not
  forced, finds the part an interrupted run left, takes it for data and lets etcd start
  on it.
* `WritesSurviveRestarts`: the request stays in the spec and the pod restarts; etcd,
  once up for the request, does not fall back on anything older.  It is about requests
  that name a snapshot or the latest: for a row of the table the script takes whatever
  the latest is when it runs, and runs again when the pod does (section 11).
* `BackupsKept`: of the snapshots taken, `RETENTION_COUNT` are kept, by overlapping and
  killed runs alike, unless one run prunes between another's count and its deletions
  (`crossed`).  Then the other removes as many again: with a retention of two and four
  snapshots in the volume, two runs that both count four remove two each and leave
  none.  That takes one snapshot more than run `recovery` takes, which had passed a
  version without the exception; the attempt to prove it brought it up.
* `RestoreTakesEffect`: the first restore by the name of a snapshot succeeds in the
  end, even if the snapshot is pruned and only the shared directory has it.

`torn` marks the behaviours in which a snapshot asked for exists nowhere whole any
more, for instance because a slow run's snapshot was pruned by a quick one before
it was mirrored; the script then takes the shared directory's latest.

Fairness: one of the operator, the StatefulSet controller and the init container
(which the kubelet repeats) goes on while any of them can.  Running backups get
none, nor do users, the CronJob or faults: a restore takes effect even if a backup
hangs for good.

### Runs

| Run | Instance | Shows |
|---|---|---|
| `recovery` | two runs that may overlap, three snapshots of which two are kept, two restores, one write, one fault, five of all these together | all properties |
| `table_restore` | restores of rows of the table, no fault | finding: the row's backup is not what comes back |

Three snapshots make both overlapping runs prune; two restores are what a repeated
one, or one whose marker is left by the first, needs; one write tells an older state
from a newer one; a fault is a kill at any command, a failed copy or an evicted
pod.  `MaxEvents` bounds their sum: three snapshots and two restores fit in, or
two snapshots, a restore, a write and a fault, in any order.
Deadlock is not checked: a cluster without further requests rests.

## 7. CatalogStore

### State and actions

| Variable | Stands for |
|---|---|
| `stored` | the ConfigMaps of the catalog and of its history, each a document or absent |
| `heap` | the JavaScript objects of the process; a cell is an object, so two names of one cell share every edit |
| `dflt` | the cell of `DEFAULT_CATALOG`, which is edited like any other once it was handed out |
| `catalogCache`, `vcsCache` | the two caches: which cell, and whether its five or four seconds last |
| `req` | the requests: the call one waits for and its answer, the text fixed before that call, what is left to do |
| `calm`, `faults` | whether this behaviour is free of overlaps and faults; disturbances |

| Action | Code |
|---|---|
| `Begin` | a request: save or delete an application or a group, roll back, mark as working, import, clear; up to its first call |
| `Serve`, `Fail` | the API server's answer: the effect of a check, PUT, POST or GET; a refusal or an exception with or without effect |
| `CatalogRead`, `DefaultSaved` | `getAppStoreCatalog`: what was read, or the default written over it |
| `CatalogSaved`, `CatalogFailed` | `saveEntireCatalog` returns or throws; then the history's turn |
| `HistoryRead`, `HistorySaved` | `getCatalogVCSStore`, `recordAppCommit` and `recordGroupCommit`, `saveCatalogVCSStore` |
| `Restart` | the process: memory is gone, requests end unanswered |

A request goes from one `await` to the next in one action, as JavaScript does.
Deleting makes a new cell for the whole document (`Deleting`), where the code replaces one
of its two arrays and goes on sharing the other, and the groups in it, with the old one.
The text of a save is fixed before its first `await`, so what is stored is the same; only
another request that overlaps, and holds the old document, would see the difference.
`Recorded` is a commit with the pruning of `MAX_REVISIONS_PER_ITEM` and of the list
of all commits; `TextDiff` is `computeTextDiff`, line by line.

### Properties

Stored documents are not protected by versions, so overlapping requests do lose each
other's work; that is how the code is, and the hazards say so.  What must hold even
then is that the stored documents make sense:

* `HistoryWellFormed`: revisions count up without a gap, no commit is in twice, the
  list of all commits and each item's list tell the same story.  All of this is
  computed from a copy that may be shared with a request under way.
* `ChangesAccountFor`: the lines a revision says were added and removed account for
  the difference to the one before it, though computed against whatever was cached.
  Not so for a group that names an application twice, which nothing in the code
  refuses: additions and removals are then counted by entries of the list.
* `DiffTellsBothTexts`: the difference shown between two stored revisions tells both
  manifests.
* `CalmKeepsPromise`: requests that neither overlap nor fail implement
  `VersionedCatalog` (a saved item is current, its revision follows, nothing recorded
  is rewritten but for the mark *working*), in spite of two caches that expire at any
  moment, of a default catalog edited in place, and of two documents that are
  written one after the other (`unrecorded` is the time between).

The abstract specification starts with any catalog and log, because a process may
start beside an installation in use; the refinement mapping is constant in
behaviours that are not calm, which the abstract one admits as stuttering.

### Run

`catalog`: two requests of any kind, one application with three texts of one and two
lines, one group, two revisions kept per item and three in all, one fault.  Two
requests are what an overlap needs; with one revision in stock and two recorded the
pruning happens.  The texts have a line inserted before and after a common one,
and two lines that swap, where the lookaheads of `computeTextDiff` compete; longer
competitions are not reached.
Requests are symmetric: no property tells them apart.

## 8. ClusterEdits

### State and actions

`cr` is the stored custom resource field by field, each an *entry*: the value, and
the request that last set it.  A copied entry keeps its author, so writing back an
old copy can be told from setting the same value anew.  `guest` is which revision
of each application runs at each *place* of the guest, `cat` and `latest` the catalog,
`req` the requests, whose `copy` and `list` are what they read, `todo` what is still to be
deployed, and `still` (a history variable) the fields nobody has changed since the
request began.

Single sign-on is two fields.  `oidc` is the configuration, the annotation `oidc-config`:
which settings it has, the provider, a prefix of the names, a CA file (`Optional`,
`Choices`); none when switched off.  `args` is the API server's flags, each with the
request it is from.  `Flags` is the merge of the code: a new flag takes the place of the
one of its kind, that of the CA file goes when there is none, and all go when single
sign-on is switched off; the rest stay.

A chart goes to a place: the name of its release and the namespace of the request
(`Places`, `Home` being where those go that do not ask for another).  A revision of the
catalog may lack a `releaseName` (`named`); deploying it derives one, and uninstalling it
removes nothing.  `steady` marks the behaviours in which charts have a `releaseName` and
go `Home`.

| Action | Code |
|---|---|
| `BeginEdit`, `BeginBlindEdit`, `BeginRestore`, `BeginFleetEdit` | the edits of `lib/k8s-client.ts` and of the fleet routes up to their first answer: owner, groups, endpoint, single sign-on, Istio, Gateway API; sleep, wake, upgrade, schedule; restore; join, leave, apply a profile |
| `BeginApps`, `Plan`, `Install`, `Sync`, `Uninstall` | `lib/cluster-apps.ts`: what is to be deployed, and one deployment after the other |
| `ReadAgain`, `Patch` | the object is read, and the merge patch sent: applied, applied without its too-large annotations, or refused |
| `CatalogSave`, `CatalogDelete` | the catalog moves meanwhile |
| `Restart` | the process |

`PatchOf` is what each function puts into its patch; it is the heart of the module.
Most repeat all annotations the copy had (`Annotations`), the raw configuration
(`Raw`) or all components, where a merge patch need only name what changes.
Policies, the hardware size and the recovery settings are patched blindly, like
the schedule, and left out.  Helm and kubectl succeed, or fail with or without
effect.

### Properties

* `EarlierEditsSurvive`: a request may disturb another's edit only while the two
  overlap.  What was stored when it began, and that nobody changed since, outlives a
  request about something else, for all that its patch repeats.
* `SettingsAgree`: after requests that do not overlap or fail, what an edit configured of
  single sign-on is in force as the flags of that very edit, whatever it found there;
  when single sign-on is off, no flag is left.  One thing may stay: the prefix flag of
  an earlier configuration, when the new one has none.  The code takes out only the flag
  of the CA file (`k8s-client.ts:1697`), so the API server then goes on with a prefix the
  configuration does not show.  What a cluster inherits from an identity profile when it is
  created has no flags at all, hence the premise on the author.  An endpoint's host is
  among the certificate's names.
* `ChartsMatchList`: after such requests, deployments that fail included, a chart listed
  as installed runs in the listed revision at the listed place.  If all charts are
  *steady*, none runs unlisted.  Without that premise the code does not keep it: a chart
  without a `releaseName` outlives its uninstallation (`cluster-apps.ts:234`), and one
  installed again elsewhere goes on running at its first place too, which the list and
  the uninstallation have forgotten (`cluster-apps.ts:337`).  For manifests not even the
  first half holds: the list keeps none, so a synchronisation deploys the catalog's
  current ones and leaves the recorded revision.

Left out of `lib/cluster-apps.ts`: the namespace manifests go to, and two applications
whose releases have one name.  Left out of single sign-on: the claims, whose flags are
always rewritten; the CA material and the annotation `oidc-ca-file`, which the code
deletes when no material is given (`k8s-client.ts:1793`) although the flag was set; and
the other annotations that repeat parts of `oidc-config`, since both the application and
the operator read that one first.

Run `edits`: two requests, two groups, one chart and one application of manifests, of
which one changes in the catalog meanwhile (`MaxChanging`), two revisions, two
faults.  Two requests are what an overlap needs; every field has one request that
sets it and others that only repeat it; a second group is what an edit of the
first one repeats from its list.  Charts move between two places, and come without a
`releaseName`, in behaviours without overlap, where `ChartsMatchList` is about them
(`RoughMoves` is off); single sign-on is configured with a prefix and a CA file, or with neither.  Deadlock is not checked: requests are made once.

## 9. RegistryStore

### State and actions

One module stands for three registries that share their shape: sizing tiers,
cluster baselines, and one category of the version registry, which is edited in
place (`inPlace`).  A list holds entries that say which object they are (`id`,
`maker`, and `at`, where in a list it was made); marking an object default marks it in
every list that holds it: the cached one, the one the program ships with, and those that
requests under way are about to cache.  `stored` is the ConfigMap's text, which shares
nothing.  Versions may have several defaults, and an id may come twice, since an import
takes the list of the manifest as it is and only adds a default where there is none
(`ImportVersions`); a manifest without the category keeps the current list (`"keep"`).
Edits of versions go to the first entry of an id (`IsFirst`), as `findIndex` does.

| Action | Code |
|---|---|
| `Begin` | a request, with the cached list or up to its read; `WithList` is its edit (`SaveTier`, `SaveVersion`, `ChooseTier`, `ChooseVersion`, `Remove`, `ImportVersions`, `KeepVersions`), or its refusal |
| `ServeRead`, `Read` | the ConfigMap is read; anything but a list makes the shipped list be saved |
| `ServeCheck`, `ServeWrite` | the save: is there a ConfigMap, then PUT or POST |
| `Restored`, `Saved` | the save of the shipped list, or of the edit, returned; the cache is set |
| `Restart` | the process |

### Properties

* `NeverEmptied`: whatever overlaps or fails, the last tier stays, although the check
  looks at a cached list, and no tier is stored twice.
* `InitializedOnce`: without a failed call, a request never writes the shipped list
  over one that was there when the request began.
* `CacheAgrees`: between undisturbed requests the cache says what is stored,
  although it holds objects that edits mark in place.
* `OneDefault`: with such requests the stored list has a default as long as it has an
  entry, and tiers have just one.
* `CalmKeepsPromise`: such requests implement `ChosenDefault`, which says what list each
  edit leaves: a saved default is the only one, the first takes over from a default that
  goes, an import is taken over with whatever defaults it has, and led by its first entry
  if it has none.

What is not promised, since the code does not keep it.  Requests that overlap can leave two
default tiers, even without a fault.  Choosing a tier that does not exist leaves none;
undisturbed requests are assumed to name one.  A version category has several defaults
after an import that brings them (`version-registry.ts:231`), until one is chosen or
saved as the default; and an import may repeat a version, of which saving and deleting
then reach only the first, while choosing it makes every one of its entries a default.

Run `registry`: three requests one after the other, or two that overlap with a fault;
three ids of which two are shipped, imports without a default, with one, with two, with a
version twice, with an entry that names no version, and with nothing else, which leaves the
list empty and has no default to set.
Three requests in a row are what a shared object needs to do damage: one that fills
the cache, one that edits in place, one that sees it.

## 10. What is proved

Everything is proved from the named assumptions of the modules alone, for all sets and
bounds.  The assumptions: constants that stand for *none* differ from values
(`NoneAssumption` and the like); bounds and sizes are numbers; the name clashes
`Sweeps` are reflexive; groups, applications and settings of a cluster are called
differently (`FieldAssumption`; in the code they are parts of different records), and
so are applications and groups of the catalog, of which there is at least one
(`ItemAssumption`); texts are sequences of lines and members lists of applications, and
a list of members without one of them is another, since deleting an application makes
one (`BodyAssumption`); a missing ConfigMap is no document (`NoDocAssumption`); the shipped
list is not empty and names nothing twice, as `DEFAULT_SIZING_TIERS` does, while imported
lists are any lists (`ListAssumption`).

`ListFacts`

* What a filtered list has, in which order, and how the filter of a list of objects is
  that of their ids (`FilteredIndex`, `FilteredRange`, `FilteredImages`), how it grows
  with an element in front (`FilteredPrepended`) and what is left of a list cut off
  (`FilteredHead`), and how long a list without repetition is (`ListCount`).
  `Lists!Filtered` is a recursive function, so these are inductions on the length.  `Induct` gets along without the library's rule,
  which takes a predicate as its parameter: it is about the *set* of numbers that have
  the property, and follows from every set of numbers having a `Least` one.

`ClusterLifecycleProofs`

* `TypeCorrect`: `Spec => []TypeOK`, by induction, one step per action.  The
  counts need that the pods of a StatefulSet are finitely many (`RunningCount`).
* `FinalizerAlwaysProtects`: `Spec => []FinalizerProtects`.  The property is not
  inductive: whether a StatefulSet may be written depends on what the worker's
  snapshot saw, the snapshot on what the informer held.  `FinalizerInv` adds
  `LivesInOrder` (no copy, snapshot or owner comes from a later life than the
  stored object), `DeletionWaits` (an object marked for deletion has its
  finalizer) and `FinalizerStays` (a finalizer seen in a copy of this life is
  still there; a reconcile under way has seen it).  `QuietStep` discharges every
  step that neither begins nor ends a life, takes a snapshot, nor builds for
  another cluster than the one reconciled; `WorkerIsQuiet` shows that this is
  every step of the worker but `Fetch` and `RemoveFinalizer`.

* `StatusIsHonest`: `Spec => []StatusDescribesGeneration`, `ObservedNeverGoesBack`,
  `TerminatingStaysFinal` and `DataAlwaysOutlives`, all from one invariant,
  `StatusInv`.  A status is computed from the worker's copy, judged by the
  informer's, and written on the stored object, so the invariant orders the three:
  `CopiesInOrder` (within one life they follow each other, and two copies of one
  generation say the same), `CopiesOfTheLiving` (a copy with finalizer and no
  deletion is of a cluster that still exists), `FreshIsCurrent` (what an update
  that is not refused may rely on).  `Honest` is the property for any copy;
  `HonestWorker` is what is left of it while the worker amends its copy, down to the
  pc from which a sleeping cluster cannot be reported Degraded.  `ObservedWasSeen`
  gives the monotony of the observed generation, `TerminatingIsSeen` and
  `BuiltAfterSeen` the other two theorems.  `QuietStatusStep` discharges every step
  that leaves the object and the informer alone, with `MidReconcileSteps` for what the
  worker does between the gate and its end; the writers and the users have a lemma
  each.  The proof uses `FinalizerInv`.

`NamespaceTeardownProofs`

* `TypeCorrect`, from the same invariant as the next two.
* `VerdictIsSafe`: `Spec => []VerdictSparesOthers`, and `ThingsAlwaysStay`:
  `Spec => ThingsStay`.  The verdict is read from a copy of the clusters that may
  be old, so the invariant has to say how old it can be.  `SeenIsPast`: a cluster
  with a finalizer has been seen, since the same worker gave it the finalizer
  after seeing it, and what is seen as deleted is not alive.  From this,
  `DedicatedIsUnbuilt`: a namespace that looks free of others holds none that was
  built.  `VerdictHolds` carries that from the decision to the deletion of the
  namespace: a cluster in that namespace can only become built by a step of the
  worker, which is busy.  `PostedAreNew` and `TornDownIsDying` exclude a second
  creation and the sweep of a living cluster.

`SleepWakeProofs`

* `TypeCorrect` and `NothingIsForgotten`: `Spec => []NothingForgotten`.
  `HeldFits` is the strengthening: what the worker holds of a workload is a
  positive count if it is putting it to sleep, an annotation if it is waking it;
  `UpdateKeepsLoad` shows that scaling such a workload keeps the tenant's count,
  and the API server's conflict check that the workload is still that one.

`ClusterEditsProofs`

* `EarlierEditsAlwaysSurvive`: `Spec => EarlierEditsSurvive`, for any number of
  requests, groups and applications.  The invariant is `EditsInv`
  (`CopiesStayCurrent`): what a request has read, first or again, agrees in its
  author with the stored object on every field in `still`.  It is needed because a
  patch is computed from a copy taken several steps before; it is kept because
  whoever changes a field strikes it from everybody's `still` (`Stores`), and a
  second read only makes the copy more current.  `PatchIsHarmless` then shows, one
  kind of request at a time, that a patch says of a field it is not about only what
  such a copy said: `AnnotationsCopied`, `RawCopied` and `SetOverCopies` are about
  what is repeated, `About` about what is set.
* `TypeCorrect`: `Spec => []TypeOK`; a patch has well-formed entries if the copy had
  (`PatchIsSound`).
* `SettingsAlwaysAgree` and `ListAlwaysMatches`: `SettingsAgree` and `ChartsMatchList`,
  of requests that do not overlap or fail.  The invariant is `CalmInv`.  `Settled` is
  what single sign-on and the endpoint owe: `PatchSettles` shows of every kind of request
  that its patch, laid over the object it was computed from, leaves it so, and `FlagsOf`
  what a merge makes of any flags it finds.  The only request under way works from the
  stored object itself, and while it deploys, the guest runs what the request's *list*
  says, not yet what is stored, except for what is still to be removed, which is where
  its copy says (`Busy`, `Runs`, `Removes`).  `Tidy` is the strengthening a removal needs:
  that a listed chart runs at its place says nothing of other places, so a steady chart
  must run nowhere else.  `PatchLists` shows that a patch changes the list of applications
  only by the list at hand.  What single deployments do, failing ones included, is in
  `InstallCalm`, `SyncCalm` and `UninstallCalm`.

`EtcdRecoveryProofs`

* `TypeCorrect`, `NeverInPart`, `RetentionHolds` and `WritesStay`, all from one
  invariant, `Inv`, in six parts besides the types.  `Ordered`: the pod's environment
  is that of a request no later than the template's.  `Kept`: unless a copy was lost or
  cut short (`torn`), every snapshot asked for is whole in the volume or in the shared
  directory, and it is the one the container settles on; this is what pruning, the
  latest copy and a second run's snapshot might break.  `Marked`: once the last request
  is served its marker stands, so a restart skips it: `WritesStay` needs just this.
  `Untouched`: before any request no marker is a snapshot's.  `Whole`: the markers are
  those of requests up to the pod's, and the marker of the pod's own stands only beside
  whole data, which gives `NeverInPart`, of forced restores by name alone (section 6).  `Spared`: each run that has counted still
  leaves enough, which gives `RetentionHolds`; `GoneCount` counts what a pruning takes,
  and this is the step that failed without `crossed`.

`RegistryStoreProofs`

* `TypeCorrect`, `LastTierStays`, `CacheAlwaysAgrees` and `NeverReinitialized`, from the
  invariant `Inv`.  `Listed` and `Carried`: of tiers, the stored list, the cached one, the
  shipped one and what each request carries name nothing twice and are not empty;
  so an edit of any of them, however old, cannot empty the list.  `Known`: before the
  first fault, a request that began with a ConfigMap finds it.  `Undisturbed`: a request
  by itself has seen what is stored and stores what it caches.  `WithListIs` says what
  an edit does to every list in memory that shares its objects; marks change nobody's
  ids (`MarkedIs`), which is why `Listed` survives sharing.
* `DefaultStays` and `PromiseKept`: `Spec => []OneDefault` and
  `Spec => CalmKeepsPromise`, the refinement of `ChosenDefault`.  The mapping is onto what
  is stored, so one step implements the promise, the write, while what it writes was
  computed several steps before.  `Faithful` carries it there.  `Good`: the stored list has
  the default it should have.  `Keeps`: what a request by itself is about to write is a
  list the promise allows after the stored one (`Leads`, `Promises`).  `Fresh`: an object
  the request is yet to make is in no list, and `Whole`: no object is in a list twice;
  without them an edit that turns off a default might turn off its own, or turn on
  another.  The lemmas from `SaveAllowed` to `EditAllowed` show of each edit, in place or
  not, that the promise allows it (`Allows`), with ids repeated or not; `CalmSteps` that a
  step writes just that; `PromiseSteps` turns it into a step of `ChosenDefault`.  The proof
  corrected the abstract specification: an import of nothing leaves no default, as "each
  non-empty category" (`version-registry.ts:282`) says.

`CatalogStoreProofs`

* `TypeCorrect`, `HistoryStaysWellFormed`, `ChangesAlwaysAccount` and `DiffAlwaysTells`,
  from the invariant `Inv`.  None of the properties is inductive, because a document
  is computed in memory and stored steps later, maybe from an object that another
  request is editing.  So `Inv` says of *every* document that may yet be stored what it
  must: of those stored and in transit (`Kept`, `Carries`) and of the objects that are, or
  are about to be, cached (`Held`).  Since an edit in place reaches everybody who has
  the object, `Inv` keeps the objects of catalogs and those of histories apart, whose
  edits differ.  That no commit is in a list twice needs `Silents`: the requests that have
  not recorded yet are named in no document, stored, cached or in transit.
* `Turn` is what is required of one request's step beside a heap, `Follow` that it keeps
  `Inv` of everybody: others see of the step only edited or added objects
  (`WorldEdited`, `WorldGrown`) and one silent request less (`SceneLess`).  The actions
  then have a lemma each, on top of one for each handler (`EditingIs`, `RecordIs`, ...).
* What the documents must satisfy is kept by each edit: `StrippedIs`, `ToggledIs` and,
  the longest, `RecordedIs`: a revision and a commit are put in front of two lists
  which are then cut off at different places, and still agree (`RevsGrow`,
  `CommitsGrow`, `AgreeHeads`).
* `TextsTold` and `TextCounted` are about `computeTextDiff` alone, for any two texts, by
  induction on the number of lines left: each mark consumes a line, of one text or of
  both, whatever the lookahead decides (`OneTells`, `DiffTells`).  `MembersCounted`
  is the count for lists of members that repeat none.
* `PromiseKept`: `Spec => CalmKeepsPromise`, the refinement of `VersionedCatalog`, from
  `Inv` and `Quiet`, which says of calm behaviours what an undisturbed request knows of
  two documents and two caches.  At most one request is at work; what is cached is what is
  stored, unless that request is about to store it (`CatalogTrue`, `HistoryTrue`); the
  default catalog, edited in place since it was handed out or not, is empty as long as
  no catalog is stored (`DefaultTrue`), so writing it for a missing document changes nothing;
  an answer tells what is stored (`Told`), so the method a save chooses after its check
  succeeds; and what is about to be stored is what the operation makes of the stored
  document (`Edited`, `Extended`).  `Owes` names the steps between the two saves,
  in which the item's current body is the one still to be recorded.
* Each handler has a lemma that ends in `Fits` (`EditingFits`, `RecordFits`, ...): the
  request at work is left as `Quiet` wants it.  `Shown` is the log the promise sees of a
  history; `RecordedShown` and `ToggledShown` turn the edits of a history into those of the
  log, pruning included.  `PutKeeps` shows that storing a document is a step of the
  promise, `OnKeeps` that every other step is none, and `PromiseSteps` puts that in the
  words of `VersionedCatalog`.

Every safety property, action property and refinement that the passing runs check is
thus a theorem.  Only model-checked are the liveness properties, which rest on fairness:
`AwakeClusterSettles`, `SleepingClusterSettles`, `DeletionCompletes`,
`NothingLeftBehind`, `AdminsReturn`, `SleepIsQuiet`, `WakeRestores` and
`RestoreTakesEffect`.

## 11. Findings

* `stale_version`: the status records an upgrade as running, in phase Ready,
  before any pod runs it: readiness is the `readyReplicas` of the rollout before.
* `full_host`: the capacity gate refuses in phases Pending and Provisioning only;
  its refusal sets Degraded, so the next reconcile passes it.
* `fallback_delete`: deleting a cluster by a namespace it is not in deletes that
  namespace, although the comment says only a dedicated one is cleaned up.
* `table_restore`: the table of backups names rows `<job>-<time>.db` and the files
  are `<cluster>-snapshot-<time>.db`, so a restore from the table takes the latest
  backup of the shared directory, whichever row was chosen.

## 12. Not modelled

* *Sessions and access policy*: decision tables of a request's groups; the only state
  between requests is a cache of the policy.
* *Audit log*: a bounded buffer, one append and one insert per event that nobody
  waits for.
* *Identity profiles*: stored like the lists of `RegistryStore` but without a default
  to choose; applying a profile to clusters is in `ClusterEdits`.  *Image patterns and
  registries*: rewriting of names.
* *Capacity across clusters, quota*: sums and formatting of quantities; the verdict
  for one cluster is the constant `HostHasRoom`.
* *Admission webhook*: written, but never registered by `main.go`.
* *vCluster configuration, manifests of Istio, Gateway API and add-ons*: text.
* *Metrics and network flows, the assistant, air-gap archives, SBOM documents, React
  components, Helm charts, scripts*: input and output without a protocol.

Most of the repository's lines are of the last kind (React views, forms, tables,
manifests, telemetry), which is why the share of all lines that definitions here
stand for is small: a definition for a view would model nothing that can go wrong
between two steps.  `PROJECT.json` says it component by component.
