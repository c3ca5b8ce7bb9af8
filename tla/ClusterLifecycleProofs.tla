------------------------ MODULE ClusterLifecycleProofs ------------------------
(***************************************************************************)
(* What holds of ClusterLifecycle for every size of the two StatefulSets,  *)
(* every set of versions and every bound on edits, lives and faults: its   *)
(* types, what the finalizer protects, and what the status is worth.       *)
(***************************************************************************)
EXTENDS ClusterLifecycle, FiniteSetTheorems, TLAPS

-----------------------------------------------------------------------------
(* Lemmas on the operators.                                                *)

\* What the ready count of a StatefulSet is computed from is a finite set, so
\* the count is a number.
LEMMA RunningCount ==
    ASSUME NEW c \in Components
    PROVE  Cardinality(Running(c)) \in Nat
<1>1. Size(c) - 1 \in Int
  BY SizeAssumption DEF Size
<1>2. IsFiniteSet(Ordinals(c))
  BY <1>1, FS_Interval DEF Ordinals
<1>3. IsFiniteSet(Running(c))
  BY <1>2, FS_Subset DEF Running
<1> QED
  BY <1>3, FS_CardinalityType

\* An absent cluster, an absent StatefulSet and an idle worker are well typed.
LEMMA EmptyTypes ==
    /\ FreshStatus \in Status
    /\ \A u \in Nat : Gone(u) \in VirtualCluster
    /\ \A c \in Components : NoSts(c) \in StatefulSet(c)
<1>1. FreshStatus \in Status
  BY DEF FreshStatus, Status, Phases
<1>2. \A u \in Nat : Gone(u) \in VirtualCluster
  BY <1>1 DEF Gone, VirtualCluster, ClusterTypes
<1>3. \A c \in Components : NoSts(c) \in StatefulSet(c)
  BY DEF NoSts, StatefulSet
<1> QED
  BY <1>1, <1>2, <1>3

\* What the worker hands back at the end of a reconcile is a status again.
LEMMA StatusTypes ==
    ASSUME TypeOK
    PROVE  FinalStatus \in Status
BY DEF TypeOK, Reconciliation, VirtualCluster, FinalStatus, Status, Phases

\* The StatefulSets the reconcilers write are well typed.
LEMMA WrittenTypes ==
    ASSUME TypeOK, NEW c \in Components
    PROVE  /\ Created(c) \in StatefulSet(c)
           /\ Updated(c) \in StatefulSet(c)
<1>1. rec.vc.uid \in Nat /\ rec.vc.ver \in Versions \cup {None}
  BY DEF TypeOK, Reconciliation, VirtualCluster
<1>2. NoSts(c) \in StatefulSet(c) /\ sts[c] \in StatefulSet(c)
  BY EmptyTypes DEF TypeOK
<1> QED
  BY <1>1, <1>2 DEF Created, Updated, WantedReplicas, StatefulSet

\* Type correctness after every action.
LEMMA TypeStep ==
    ASSUME TypeOK, [Next]_vars
    PROVE  TypeOK'
<1> USE DEF TypeOK
<1>s. Idle \in Reconciliation
  BY EmptyTypes DEF Idle, Reconciliation, WorkerStates
<1>a. ASSUME NEW new \in VirtualCluster, Stored(new)
      PROVE  vc' \in VirtualCluster /\ cached' \in VirtualCluster /\ cacheFresh' \in BOOLEAN
  BY <1>a DEF Stored
<1>1. ASSUME User PROVE TypeOK'
  <2>1. ASSUME NEW new \in VirtualCluster, UserWrites(new) PROVE TypeOK'
    BY <2>1, <1>a DEF UserWrites, Reconciliation
  <2>2. vc.gen + 1 \in Nat /\ vc.uid + 1 \in Nat
    BY DEF VirtualCluster
  <2>3. CASE Create
    <3>1. PICK v \in FirstVersions, asleep \in BOOLEAN, type \in Types :
             Stored([Gone(vc.uid + 1) EXCEPT !.exists = TRUE, !.gen = 1, !.type = type,
                                             !.sleep = asleep, !.ver = v])
      BY <2>3 DEF Create
    <3>2. [Gone(vc.uid + 1) EXCEPT !.exists = TRUE, !.gen = 1, !.type = type,
                                   !.sleep = asleep, !.ver = v] \in VirtualCluster
      BY <2>2, EmptyTypes, VersionAssumption, FlagAssumption DEF VirtualCluster
    <3>3. vc' \in VirtualCluster /\ cached' \in VirtualCluster /\ cacheFresh' \in BOOLEAN
      BY <3>1, <3>2, <1>a
    <3>4. work' \in {"running", "asleep"} /\ rec' \in Reconciliation
      BY <2>3 DEF Create, Reconciliation
    <3> QED BY <2>3, <3>3, <3>4 DEF Create
  <2>4. CASE SetSleep
    <3>1. [vc EXCEPT !.sleep = ~vc.sleep, !.gen = vc.gen + 1] \in VirtualCluster
      BY <2>2 DEF VirtualCluster
    <3> QED BY <2>4, <3>1, <2>1 DEF SetSleep
  <2>5. CASE SetVersion
    <3>1. \A v \in Versions : [vc EXCEPT !.ver = v, !.gen = vc.gen + 1] \in VirtualCluster
      BY <2>2 DEF VirtualCluster
    <3> QED BY <2>5, <3>1, <2>1 DEF SetVersion
  <2>6. CASE Delete
    <3>1. [vc EXCEPT !.deleting = TRUE, !.gen = vc.gen + 1] \in VirtualCluster
      BY <2>2 DEF VirtualCluster
    <3>2. Gone(vc.uid) \in VirtualCluster
      BY EmptyTypes DEF VirtualCluster
    <3> QED BY <2>6, <3>1, <3>2, <2>1 DEF Delete
  <2> QED BY <1>1, <2>3, <2>4, <2>5, <2>6 DEF User
<1>2. ASSUME CacheSync PROVE TypeOK'
  BY <1>2 DEF CacheSync
<1>f. ASSUME Fault \/ NoFault PROVE faults' \in 0..MaxFaults
  BY <1>f, BoundAssumption DEF Fault, NoFault
<1>3. ASSUME Restart PROVE TypeOK'
  BY <1>3, <1>s, <1>f DEF Restart
<1>g. ASSUME NEW pc \in WorkerStates, Goto(pc) PROVE rec' \in Reconciliation
  BY <1>g DEF Goto, Reconciliation
<1>h. ASSUME NEW pc \in WorkerStates, NEW c \in Components, NEW ready \in BOOLEAN,
             Found(c, ready, pc)
      PROVE  rec' \in Reconciliation
  <2> DEFINE p == IF ready \/ rec.vc.st.phase = "Upgrading" \/ rec.vc.sleep
                  THEN rec.vc.st.phase ELSE "Provisioning"
             up == IF ready THEN rec.up \cup {c} ELSE rec.up
  <2>1. p \in Phases /\ up \in SUBSET Components
    BY DEF Reconciliation, VirtualCluster, Status, Phases
  <2>2. rec' = [rec EXCEPT !.pc = pc, !.up = up, !.vc.st.phase = p]
    BY <1>h DEF Found
  <2> HIDE DEF p, up
  <2> QED BY <2>1, <2>2 DEF Reconciliation, VirtualCluster, Status
<1>i. ASSUME NEW c \in Components, Written(c) \/ UNCHANGED sts
      PROVE  DOMAIN sts' = Components /\ \A d \in Components : sts'[d] \in StatefulSet(d)
  BY <1>i, WrittenTypes DEF Written
<1>j. ASSUME NEW c \in Components, NEW pc \in WorkerStates, Answered(c, pc)
      PROVE  /\ DOMAIN sts' = Components /\ \A d \in Components : sts'[d] \in StatefulSet(d)
             /\ rec' \in Reconciliation
             /\ faults' \in 0..MaxFaults
  <2>1. Judged(c) \in BOOLEAN
    BY DEF Judged
  <2>2. CASE Written(c) /\ Found(c, Judged(c), pc)
    BY <2>1, <2>2, <1>h, <1>i, <1>f DEF Written
  <2>3. CASE Missed(c) /\ \E ready \in BOOLEAN : Found(c, ready, pc)
    BY <2>3, <1>h, <1>i, <1>f DEF Missed
  <2> QED BY <1>j, <2>2, <2>3 DEF Answered
<1>k. AfterEtcd \in WorkerStates /\ AfterSyncer \in WorkerStates
  BY DEF AfterEtcd, AfterSyncer, WorkerStates
<1>4. ASSUME Worker PROVE TypeOK'
  <2>1. CASE AddFinalizer
    <3>1. [vc EXCEPT !.fin = TRUE] \in VirtualCluster
      BY DEF VirtualCluster
    <3> QED BY <2>1, <3>1, <1>a DEF AddFinalizer
  <2>2. CASE Fetch
    <3>1. rec' \in Reconciliation
      BY <2>2, <1>s DEF Fetch, Reconciliation, WorkerStates
    <3> QED BY <2>2, <3>1 DEF Fetch
  <2>3. CASE Gate
    <3>1. CASE Fault /\ Goto("degrade") /\ UNCHANGED <<vc, cached, cacheFresh, sts, data, work>>
      BY <3>1, <1>f, <1>g DEF WorkerStates
    <3>2. ASSUME NEW pc \in WorkerStates, NoFault,
                 rec' = [rec EXCEPT !.vc.st.phase = PhaseAtGate(rec.vc), !.pc = pc],
                 UNCHANGED <<vc, cached, cacheFresh, sts, data, work>>
          PROVE  TypeOK'
      <4>1. PhaseAtGate(rec.vc) \in Phases
        BY DEF PhaseAtGate, Reconciliation, VirtualCluster, Status, Phases
      <4>2. rec' \in Reconciliation
        BY <3>2, <4>1 DEF Reconciliation, VirtualCluster, Status
      <4> QED BY <3>2, <4>2, <1>f
    <3> QED BY <2>3, <3>1, <3>2 DEF Gate, WorkerStates
  <2>4. CASE DegradedUpdate
    <3>1. [vc EXCEPT !.st = [rec.vc.st EXCEPT !.phase = "Degraded"]] \in VirtualCluster
      BY DEF Reconciliation, VirtualCluster, Status, Phases
    <3> QED BY <2>4, <3>1, <1>a, <1>s DEF DegradedUpdate
  <2>5. CASE ReconcileEtcd
    <3>1. "etcd" \in Components /\ "degrade" \in WorkerStates
      BY DEF Components, WorkerStates
    <3>2. rec' \in Reconciliation /\ faults' \in 0..MaxFaults
      BY <2>5, <3>1, <1>f, <1>g, <1>h, <1>j, <1>k DEF ReconcileEtcd, Refused
    <3>3. DOMAIN sts' = Components /\ \A d \in Components : sts'[d] \in StatefulSet(d)
      BY <2>5, <3>1, <1>i, <1>j, <1>k DEF ReconcileEtcd, Refused
    <3> QED BY <2>5, <3>2, <3>3 DEF ReconcileEtcd
  <2>6. CASE ReconcileSyncer
    <3>1. "syncer" \in Components /\ "degrade" \in WorkerStates
      BY DEF Components, WorkerStates
    <3>2. rec' \in Reconciliation /\ faults' \in 0..MaxFaults
      BY <2>6, <3>1, <1>f, <1>g, <1>h, <1>j, <1>k DEF ReconcileSyncer, Refused
    <3>3. DOMAIN sts' = Components /\ \A d \in Components : sts'[d] \in StatefulSet(d)
      BY <2>6, <3>1, <1>i, <1>j, <1>k, EmptyTypes DEF ReconcileSyncer, Refused
    <3> QED BY <2>6, <3>2, <3>3 DEF ReconcileSyncer
  <2>7. CASE SleepVirtualWorkloads
    BY <2>7, <1>f, <1>g DEF SleepVirtualWorkloads, Either, WorkerStates
  <2>8. CASE NamespacedWorkloads
    <3>1. rec' \in Reconciliation
      BY <2>8 DEF NamespacedWorkloads, Reconciliation, WorkerStates
    <3> QED BY <2>8, <3>1, <1>f DEF NamespacedWorkloads, Either
  <2>9. CASE ReconcileAccess
    <3>1. ASSUME NEW kube \in BOOLEAN,
                 rec' = [rec EXCEPT !.pc = "components", !.kube = kube,
                                    !.vc.st.asleep = "False"]
          PROVE  rec' \in Reconciliation
      <4> DEFINE st == [rec.vc.st EXCEPT !.asleep = "False"]
                 snap == [rec.vc EXCEPT !.st = st]
      <4>1. rec \in Reconciliation /\ rec.vc \in VirtualCluster /\ rec.vc.st \in Status
        BY DEF Reconciliation, VirtualCluster
      <4>2. st \in Status
        BY <4>1 DEF Status
      <4>3. snap \in VirtualCluster
        BY <4>1, <4>2 DEF VirtualCluster
      <4>4. rec' = [rec EXCEPT !.pc = "components", !.kube = kube, !.vc = snap]
        BY <3>1
      <4>5. "components" \in WorkerStates
        BY DEF WorkerStates
      <4> HIDE DEF st, snap
      <4> QED BY <4>1, <4>3, <4>4, <4>5 DEF Reconciliation
    <3> QED BY <2>9, <3>1, <1>f DEF ReconcileAccess, Either
  <2>10. CASE ReconcileComponents
    <3>1. rec' \in Reconciliation
      BY <2>10 DEF ReconcileComponents, Goto, Reconciliation, WorkerStates
    <3> QED BY <2>10, <3>1, <1>f DEF ReconcileComponents, Either
  <2>11. CASE UpdateStatus
    <3>1. [vc EXCEPT !.st = FinalStatus] \in VirtualCluster
      BY StatusTypes DEF VirtualCluster
    <3> QED BY <2>11, <3>1, <1>a, <1>s DEF UpdateStatus
  <2>12. CASE MarkTerminating
    <3>1. [vc EXCEPT !.st.phase = "Terminating"] \in VirtualCluster
      BY DEF VirtualCluster, Status, Phases
    <3>2. rec' \in Reconciliation
      <4> DEFINE st == [rec.vc.st EXCEPT !.phase = "Terminating"]
                 snap == [rec.vc EXCEPT !.st = st]
      <4>1. rec \in Reconciliation /\ rec.vc \in VirtualCluster /\ rec.vc.st \in Status
        BY DEF Reconciliation, VirtualCluster
      <4>2. st \in Status
        BY <4>1 DEF Status, Phases
      <4>3. snap \in VirtualCluster
        BY <4>1, <4>2 DEF VirtualCluster
      <4>4. rec' = [rec EXCEPT !.pc = "cleanup", !.vc = snap]
        BY <2>12 DEF MarkTerminating
      <4>5. "cleanup" \in WorkerStates
        BY DEF WorkerStates
      <4> HIDE DEF st, snap
      <4> QED BY <4>1, <4>3, <4>4, <4>5 DEF Reconciliation
    <3> QED BY <2>12, <3>1, <3>2, <1>a DEF MarkTerminating
  <2>13. CASE CleanUp
    <3>1. rec' \in Reconciliation
      BY <2>13, <1>g DEF CleanUp, WorkerStates
    <3>2. DOMAIN sts' = Components /\ \A d \in Components : sts'[d] \in StatefulSet(d)
      BY <2>13, EmptyTypes DEF CleanUp
    <3> QED BY <2>13, <3>1, <3>2, <1>f DEF CleanUp, Either
  <2>14. CASE RemoveFinalizer
    <3>1. Gone(vc.uid) \in VirtualCluster
      BY EmptyTypes DEF VirtualCluster
    <3> QED BY <2>14, <3>1, <1>a, <1>s DEF RemoveFinalizer
  <2> QED BY <1>4, <2>1, <2>2, <2>3, <2>4, <2>5, <2>6, <2>7, <2>8, <2>9, <2>10,
             <2>11, <2>12, <2>13, <2>14 DEF Worker
<1>5. ASSUME NEW c \in Components, Kubernetes(c) \/ PodFail(c) PROVE TypeOK'
  <2>1. ASSUME NEW o \in Ordinals(c), NEW p \in Versions \cup {None, Down}, Pods(c, o, p)
        PROVE  DOMAIN sts' = Components /\ \A d \in Components : sts'[d] \in StatefulSet(d)
    <3>1. [sts[c] EXCEPT !.pods[o] = p] \in StatefulSet(c)
      BY <2>1 DEF StatefulSet
    <3> QED BY <2>1, <3>1 DEF Pods
  <2>2. Running(c) \subseteq Ordinals(c) /\ Cardinality(Running(c)) \in Nat
    BY RunningCount DEF Running
  <2>3. sts[c].tmpl \in Versions \cup {None} /\ sts[c].owner \in Nat
    BY DEF StatefulSet
  <2>4. CASE PodStart(c)
    <3>1. data' \in Nat
      BY <2>4, <2>3 DEF PodStart
    <3> QED BY <2>4, <2>1, <2>3, <3>1 DEF PodStart
  <2>5. CASE PodStop(c)
    BY <2>5, <2>1, <2>2 DEF PodStop
  <2>6. CASE PodRoll(c)
    BY <2>6, <2>1, <2>2 DEF PodRoll
  <2>7. CASE PublishReady(c)
    <3>1. [sts[c] EXCEPT !.ready = Cardinality(Running(c))] \in StatefulSet(c)
      BY <2>2 DEF StatefulSet
    <3> QED BY <2>7, <3>1 DEF PublishReady
  <2>8. CASE CollectGarbage(c)
    BY <2>8, EmptyTypes DEF CollectGarbage
  <2>9. CASE PodFail(c)
    BY <2>9, <2>1, <2>2, <1>f DEF PodFail
  <2> QED BY <1>5, <2>4, <2>5, <2>6, <2>7, <2>8, <2>9 DEF Kubernetes
<1>6. CASE UNCHANGED vars
  BY <1>6 DEF vars
<1> QED
  BY <1>1, <1>2, <1>3, <1>4, <1>5, <1>6 DEF Next

\* The model is well typed from the start.
LEMMA TypeInit == Init => TypeOK
<1>1. ASSUME Init PROVE TypeOK
  <2>1. Gone(0) \in VirtualCluster /\ Idle \in Reconciliation
    BY EmptyTypes DEF Idle, Reconciliation, WorkerStates
  <2> QED BY <1>1, <2>1, EmptyTypes, BoundAssumption DEF Init, TypeOK
<1> QED BY <1>1

\* TypeOK for every instance: no interleaving of edits, reconciles, restarts and
\* pod events takes a variable out of its type; an update of replicas, template
\* or ready count stays within what the size of the cluster allows.
THEOREM TypeCorrect == Spec => []TypeOK
<1>1. Init => TypeOK
  BY TypeInit
<1>2. TypeOK /\ [Next]_vars => TypeOK'
  BY TypeStep
<1> QED BY <1>1, <1>2, PTL DEF Spec

-----------------------------------------------------------------------------
(* The finalizer.                                                          *)

\* No copy and no StatefulSet comes from a later life than the stored object's.
LivesInOrder ==
    /\ cached.uid <= vc.uid
    /\ rec.vc.uid <= vc.uid
    /\ \A c \in Components : sts[c].owner <= vc.uid

\* An object marked for deletion is only there because of its finalizer.
DeletionWaits ==
    /\ vc.exists /\ vc.deleting => vc.fin
    /\ cached.exists /\ cached.deleting => cached.fin

\* A finalizer seen in a copy of the present life is still there, and a
\* reconcile under way has seen it.
FinalizerStays ==
    /\ vc.exists /\ cached.exists /\ cached.uid = vc.uid /\ cached.fin => vc.fin
    /\ vc.exists /\ rec.pc # "idle" /\ rec.vc.uid = vc.uid => vc.fin

FinalizerInv == LivesInOrder /\ DeletionWaits /\ FinalizerStays /\ FinalizerProtects

\* Steps that neither create nor remove the object, take no new snapshot and
\* build StatefulSets only for the cluster being reconciled.
SameLife ==
    /\ vc'.uid = vc.uid /\ vc'.exists = vc.exists /\ vc'.deleting = vc.deleting
    /\ vc.fin => vc'.fin
    /\ cached' = cached
SameSnapshot ==
    rec' = Idle \/ (rec'.vc.uid = rec.vc.uid /\ (rec'.pc # "idle" => rec.pc # "idle"))
OwnSets ==
    \A c \in Components :
       \/ ~sts'[c].exists /\ sts'[c].owner = 0
       \/ sts'[c].exists = sts[c].exists /\ sts'[c].owner = sts[c].owner
       \/ rec.pc # "idle" /\ sts'[c].owner = rec.vc.uid

LEMMA QuietStep ==
    ASSUME TypeOK, FinalizerInv, SameLife, SameSnapshot, OwnSets
    PROVE  FinalizerInv'
<1> USE DEF SameLife
<1>1. vc.uid \in Nat /\ Idle.vc.uid = 0 /\ Idle.pc = "idle"
  BY DEF TypeOK, VirtualCluster, Idle, Gone
<1>2. LivesInOrder'
  BY <1>1 DEF FinalizerInv, LivesInOrder, SameSnapshot, OwnSets
<1>3. DeletionWaits'
  BY DEF FinalizerInv, DeletionWaits
<1>4. FinalizerStays'
  BY <1>1 DEF FinalizerInv, FinalizerStays, SameSnapshot
<1>5. FinalizerProtects'
  BY DEF FinalizerInv, FinalizerStays, FinalizerProtects, OwnSets
<1> QED BY <1>2, <1>3, <1>4, <1>5 DEF FinalizerInv

\* Every step of the worker but the two at either end of a life is quiet.
LEMMA WorkerIsQuiet ==
    ASSUME TypeOK, FinalizerInv, Worker, ~Fetch, ~RemoveFinalizer
    PROVE  SameLife /\ SameSnapshot /\ OwnSets
<1> USE DEF TypeOK
<1>v. \A s : /\ [vc EXCEPT !.st = s].uid = vc.uid
             /\ [vc EXCEPT !.st = s].exists = vc.exists
             /\ [vc EXCEPT !.st = s].deleting = vc.deleting
             /\ [vc EXCEPT !.st = s].fin = vc.fin
  BY DEF VirtualCluster
<1>a. ASSUME UNCHANGED <<vc, cached>> PROVE SameLife
  BY <1>a DEF SameLife
<1>b. ASSUME NEW s, Stored([vc EXCEPT !.st = s]) PROVE SameLife
  BY <1>b, <1>v DEF SameLife, Stored
<1>c. ASSUME UNCHANGED sts PROVE OwnSets
  BY <1>c DEF OwnSets
<1>d. ASSUME NEW pc, Goto(pc), rec.pc # "idle" PROVE SameSnapshot
  BY <1>d DEF Goto, SameSnapshot, Reconciliation
<1>e. ASSUME NEW c \in Components, NEW ready, NEW pc, Found(c, ready, pc), rec.pc # "idle"
      PROVE  SameSnapshot
  BY <1>e DEF Found, SameSnapshot, Reconciliation, VirtualCluster
<1>f. ASSUME NEW c \in Components, Written(c), rec.pc # "idle" PROVE OwnSets
  <2>1. /\ Created(c).owner = rec.vc.uid
        /\ Updated(c).owner = sts[c].owner /\ Updated(c).exists = sts[c].exists
    BY DEF Created, NoSts, Updated, StatefulSet
  <2> QED BY <1>f, <2>1 DEF Written, OwnSets
<1>g. ASSUME NEW c \in Components, NEW pc, Answered(c, pc), rec.pc # "idle"
      PROVE  SameSnapshot /\ OwnSets
  BY <1>g, <1>c, <1>e, <1>f DEF Answered, Missed
<1>n. \A c \in Components : ~NoSts(c).exists /\ NoSts(c).owner = 0
  BY DEF NoSts
<1>1. CASE AddFinalizer
  BY <1>1, <1>c DEF AddFinalizer, Stored, SameLife, SameSnapshot, VirtualCluster
<1>2. CASE Gate
  <2>1. rec.pc = "gate" /\ UNCHANGED <<vc, cached, sts>>
    BY <1>2 DEF Gate
  <2>2. ASSUME NEW pc \in WorkerStates,
               rec' = [rec EXCEPT !.vc.st.phase = PhaseAtGate(rec.vc), !.pc = pc]
        PROVE  SameSnapshot
    BY <2>1, <2>2 DEF SameSnapshot, Reconciliation, VirtualCluster
  <2>3. CASE Goto("degrade")
    BY <2>1, <2>3, <1>a, <1>c, <1>d
  <2>4. CASE ~Goto("degrade")
    BY <1>2, <2>1, <2>2, <2>4, <1>a, <1>c DEF Gate, WorkerStates
  <2> QED BY <2>3, <2>4
<1>3. CASE DegradedUpdate
  BY <1>3, <1>a, <1>b, <1>c DEF DegradedUpdate, SameSnapshot
<1>4. CASE ReconcileEtcd
  <2>1. SameSnapshot /\ OwnSets
    BY <1>4, <1>c, <1>d, <1>e, <1>g DEF ReconcileEtcd, Refused, Components
  <2> QED BY <1>4, <2>1, <1>a DEF ReconcileEtcd
<1>5. CASE ReconcileSyncer
  <2>1. ASSUME sts' = [sts EXCEPT !["syncer"] = NoSts("syncer")] PROVE OwnSets
    BY <2>1, <1>n DEF OwnSets, Components
  <2>2. SameSnapshot /\ OwnSets
    BY <1>5, <2>1, <1>c, <1>d, <1>e, <1>g DEF ReconcileSyncer, Refused, Components
  <2> QED BY <1>5, <2>2, <1>a DEF ReconcileSyncer
<1>6. CASE SleepVirtualWorkloads
  BY <1>6, <1>a, <1>c, <1>d DEF SleepVirtualWorkloads
<1>7. CASE NamespacedWorkloads
  BY <1>7, <1>a, <1>c DEF NamespacedWorkloads, SameSnapshot, Reconciliation
<1>8. CASE ReconcileAccess
  <2>1. SameSnapshot
    BY <1>8 DEF ReconcileAccess, SameSnapshot, Reconciliation, VirtualCluster
  <2> QED BY <1>8, <2>1, <1>a, <1>c DEF ReconcileAccess
<1>9. CASE ReconcileComponents
  <2>1. SameSnapshot
    BY <1>9, <1>d DEF ReconcileComponents, SameSnapshot, Reconciliation
  <2> QED BY <1>9, <2>1, <1>a, <1>c DEF ReconcileComponents
<1>10. CASE UpdateStatus
  BY <1>10, <1>a, <1>b, <1>c DEF UpdateStatus, SameSnapshot
<1>11. CASE MarkTerminating
  <2>1. SameSnapshot
    BY <1>11 DEF MarkTerminating, SameSnapshot, Reconciliation, VirtualCluster
  <2>2. SameLife
    BY <1>11, <1>a DEF MarkTerminating, Stored, SameLife, VirtualCluster
  <2> QED BY <1>11, <2>1, <2>2, <1>c DEF MarkTerminating
<1>12. CASE CleanUp
  <2>1. OwnSets
    BY <1>12, <1>n DEF CleanUp, OwnSets
  <2> QED BY <1>12, <2>1, <1>a, <1>d DEF CleanUp
<1> QED
  BY <1>1, <1>2, <1>3, <1>4, <1>5, <1>6, <1>7, <1>8, <1>9, <1>10, <1>11, <1>12 DEF Worker

\* FinalizerInv is inductive.
LEMMA FinalizerStep ==
    ASSUME TypeOK, FinalizerInv, [Next]_vars
    PROVE  FinalizerInv'
<1> USE DEF TypeOK
<1>q. ASSUME SameLife, SameSnapshot, UNCHANGED sts PROVE FinalizerInv'
  BY <1>q, QuietStep DEF OwnSets
<1>1. ASSUME NEW new, UserWrites(new)
      PROVE  /\ vc' = new /\ UNCHANGED <<cached, sts>>
             /\ rec'.pc = rec.pc /\ rec'.vc = rec.vc
  BY <1>1 DEF UserWrites, Stored, Reconciliation
<1>2. CASE Create
  <2>1. /\ vc.uid \in Nat /\ cached.uid \in Nat /\ rec.vc.uid \in Nat
        /\ \A c \in Components : sts[c].owner \in Nat
    BY DEF VirtualCluster, Reconciliation, StatefulSet
  <2>2. vc'.uid = vc.uid + 1 /\ ~vc'.deleting
    <3>1. PICK v \in FirstVersions, asleep \in BOOLEAN, type \in Types :
             vc' = [Gone(vc.uid + 1) EXCEPT !.exists = TRUE, !.gen = 1, !.type = type,
                                            !.sleep = asleep, !.ver = v]
      BY <1>2 DEF Create, Stored
    <3> QED BY <3>1 DEF Gone
  <2>3. /\ ~vc.exists /\ UNCHANGED <<cached, sts>>
        /\ rec'.pc = rec.pc /\ rec'.vc = rec.vc
    BY <1>2 DEF Create, Stored, Reconciliation
  <2>4. LivesInOrder'
    BY <2>1, <2>2, <2>3 DEF FinalizerInv, LivesInOrder
  <2>5. DeletionWaits'
    BY <2>2, <2>3 DEF FinalizerInv, DeletionWaits
  <2>6. FinalizerStays' /\ FinalizerProtects'
    BY <2>1, <2>2, <2>3 DEF FinalizerInv, LivesInOrder, FinalizerStays,
       FinalizerProtects
  <2> QED BY <2>4, <2>5, <2>6 DEF FinalizerInv
<1>3. CASE SetSleep
  <2>1. SameLife /\ SameSnapshot /\ UNCHANGED sts
    <3>1. vc' = [vc EXCEPT !.sleep = ~vc.sleep, !.gen = vc.gen + 1]
      BY <1>1, <1>3 DEF SetSleep
    <3>2. UNCHANGED <<cached, sts>> /\ rec'.pc = rec.pc /\ rec'.vc = rec.vc
      BY <1>1, <1>3 DEF SetSleep
    <3> QED BY <3>1, <3>2 DEF SameLife, SameSnapshot, VirtualCluster
  <2> QED BY <2>1, <1>q
<1>4. CASE SetVersion
  <2>1. SameLife /\ SameSnapshot /\ UNCHANGED sts
    <3>1. PICK v \in Versions : UserWrites([vc EXCEPT !.ver = v, !.gen = vc.gen + 1])
      BY <1>4 DEF SetVersion
    <3>2. vc' = [vc EXCEPT !.ver = v, !.gen = vc.gen + 1]
      BY <1>1, <3>1
    <3>3. UNCHANGED <<cached, sts>> /\ rec'.pc = rec.pc /\ rec'.vc = rec.vc
      BY <1>1, <3>1
    <3> QED BY <3>2, <3>3 DEF SameLife, SameSnapshot, VirtualCluster
  <2> QED BY <2>1, <1>q
<1>5. CASE Delete
  <2>1. /\ vc'.uid = vc.uid /\ (vc'.exists => vc'.fin)
        /\ UNCHANGED <<cached, sts>> /\ rec'.pc = rec.pc /\ rec'.vc = rec.vc
    <3>1. vc' = IF vc.fin THEN [vc EXCEPT !.deleting = TRUE, !.gen = vc.gen + 1]
                ELSE Gone(vc.uid)
      BY <1>1, <1>5 DEF Delete
    <3>2. UNCHANGED <<cached, sts>> /\ rec'.pc = rec.pc /\ rec'.vc = rec.vc
      BY <1>1, <1>5 DEF Delete
    <3> QED BY <3>1, <3>2 DEF Gone, VirtualCluster
  <2> QED BY <2>1 DEF FinalizerInv, LivesInOrder, DeletionWaits, FinalizerStays, FinalizerProtects
<1>6. CASE CacheSync
  <2>1. vc.uid \in Nat
    BY DEF VirtualCluster
  <2> QED BY <1>6, <2>1 DEF CacheSync, FinalizerInv, LivesInOrder, DeletionWaits,
             FinalizerStays, FinalizerProtects
<1>7. CASE Restart
  <2>1. vc.uid \in Nat /\ Idle.vc.uid = 0 /\ Idle.pc = "idle"
    BY DEF VirtualCluster, Idle, Gone
  <2> QED BY <1>7, <2>1 DEF Restart, FinalizerInv, LivesInOrder, DeletionWaits,
             FinalizerStays, FinalizerProtects
<1>8. CASE Fetch
  <2>1. rec'.vc = cached /\ UNCHANGED <<vc, cached, sts>> /\ cached.exists
        /\ (cached.deleting \/ cached.fin)
    BY <1>8 DEF Fetch, Idle
  <2> QED BY <2>1 DEF FinalizerInv, LivesInOrder, DeletionWaits, FinalizerStays, FinalizerProtects
<1>9. CASE RemoveFinalizer
  <2>1. Idle.vc.uid = 0 /\ Idle.pc = "idle" /\ vc.uid \in Nat
    BY DEF Idle, Gone, VirtualCluster
  <2>2. /\ vc'.uid = vc.uid /\ (vc'.exists => vc' = vc)
        /\ UNCHANGED <<cached, sts>> /\ rec' = Idle
    BY <1>9 DEF RemoveFinalizer, Stored, Gone
  <2> QED BY <2>1, <2>2 DEF FinalizerInv, LivesInOrder, DeletionWaits, FinalizerStays,
             FinalizerProtects
<1>10. CASE Worker /\ ~Fetch /\ ~RemoveFinalizer
  BY <1>10, WorkerIsQuiet, QuietStep
<1>11. ASSUME NEW c \in Components, Kubernetes(c) \/ PodFail(c) PROVE FinalizerInv'
  <2>1. SameLife /\ SameSnapshot
    BY <1>11 DEF Kubernetes, PodStart, PodStop, PodRoll, PublishReady, CollectGarbage, PodFail,
       SameLife, SameSnapshot
  <2>2. ASSUME NEW o, NEW p, Pods(c, o, p) PROVE OwnSets
    BY <2>2 DEF Pods, OwnSets, StatefulSet
  <2>3. CASE PodStart(c)
    BY <2>3, <2>2, <2>1, QuietStep DEF PodStart
  <2>4. CASE PodStop(c)
    BY <2>4, <2>2, <2>1, QuietStep DEF PodStop
  <2>5. CASE PodRoll(c)
    BY <2>5, <2>2, <2>1, QuietStep DEF PodRoll
  <2>6. CASE PodFail(c)
    BY <2>6, <2>2, <2>1, QuietStep DEF PodFail
  <2>7. CASE PublishReady(c)
    <3>1. ASSUME NEW n, sts' = [sts EXCEPT ![c].ready = n] PROVE OwnSets
      BY <3>1 DEF OwnSets, StatefulSet
    <3> QED BY <2>7, <3>1, <2>1, QuietStep DEF PublishReady
  <2>8. CASE CollectGarbage(c)
    <3>1. ~NoSts(c).exists /\ NoSts(c).owner = 0
      BY DEF NoSts
    <3>2. OwnSets
      BY <2>8, <3>1 DEF CollectGarbage, OwnSets
    <3> QED BY <3>2, <2>1, QuietStep
  <2> QED BY <1>11, <2>3, <2>4, <2>5, <2>6, <2>7, <2>8 DEF Kubernetes
<1>12. CASE UNCHANGED vars
  BY <1>12, <1>q DEF vars, SameLife, SameSnapshot
<1> QED
  BY <1>2, <1>3, <1>4, <1>5, <1>6, <1>7, <1>8, <1>9, <1>10, <1>11, <1>12 DEF Next, User

LEMMA FinalizerInit == Init => FinalizerInv
BY DEF Init, FinalizerInv, LivesInOrder, DeletionWaits, FinalizerStays, FinalizerProtects,
       Gone, Idle, NoSts

\* Whatever the worker built for the stored cluster, from however old a copy,
\* the finalizer of that cluster is still in place, so handleDeletion cannot be
\* bypassed: true of every interleaving of edits, deletions, re-creations under
\* the same name, late informers and restarts.
THEOREM FinalizerAlwaysProtects == Spec => []FinalizerProtects
<1>1. Init => TypeOK /\ FinalizerInv
  BY TypeInit, FinalizerInit
<1>2. (TypeOK /\ FinalizerInv) /\ [Next]_vars => (TypeOK /\ FinalizerInv)'
  BY TypeStep, FinalizerStep
<1>3. FinalizerInv => FinalizerProtects
  BY DEF FinalizerInv
<1> QED BY <1>1, <1>2, <1>3, PTL DEF Spec

-----------------------------------------------------------------------------
(* The status.  The worker works from a copy that may be old, and writes   *)
(* its status over whatever object is there when it ends: the invariant.   *)

TearingDown == {"terminate", "cleanup", "release"}
Reconciling == WorkerStates \ ({"idle"} \cup TearingDown)

\* Copy d of a cluster is no older than copy c.
Follows(c, d) ==
    c.exists /\ d.exists /\ c.uid = d.uid =>
        /\ c.type = d.type
        /\ c.gen <= d.gen
        /\ c.deleting => d.deleting
        /\ c.gen = d.gen => /\ c.ver = d.ver
                            /\ c.sleep <=> d.sleep
                            /\ c.deleting <=> d.deleting

\* The stored object is ahead of the informer's copy, and that of the worker's.
CopiesInOrder ==
    /\ Follows(cached, vc)
    /\ rec.pc # "idle" =>
          /\ rec.vc.exists
          /\ rec.vc.uid <= cached.uid
          /\ Follows(rec.vc, vc)
          /\ Follows(rec.vc, cached)

\* A cluster that is not being deleted as far as a copy says, and has its finalizer
\* there, still exists; so the worker reconciles living clusters only.
CopiesOfTheLiving ==
    /\ cached.exists /\ cached.fin /\ ~cached.deleting => vc.exists /\ vc.uid = cached.uid
    /\ rec.pc \in Reconciling => vc.exists /\ vc.uid = rec.vc.uid /\ ~rec.vc.deleting
    /\ rec.pc \in TearingDown => rec.vc.deleting

\* What a copy that is still the current one says.
FreshIsCurrent ==
    /\ cacheFresh => cached = vc
    /\ rec.pc # "idle" /\ rec.fresh =>
          /\ vc.exists /\ vc.uid = rec.vc.uid /\ vc.gen = rec.vc.gen
          /\ vc.st.obs = rec.vc.st.obs

AsleepSays(c) == c.st.asleep = (IF c.sleep THEN "True" ELSE "False")

\* The status of a copy describes the generation it names, with a version once the
\* cluster was Ready, and Terminating is only said of a cluster being deleted.
Honest(c) ==
    c.exists =>
        /\ c.ver \in Versions
        /\ c.st.phase = "Terminating" => c.deleting
        /\ c.st.phase = "Ready" /\ ~Namespaced(c) => c.st.ver # None
        /\ c.st.obs <= c.gen
        /\ c.st.obs = c.gen =>
              /\ ~c.deleting
              /\ AsleepSays(c)
              /\ c.st.phase = "Ready" => ~c.sleep
              /\ c.st.phase = "Ready" /\ ~Namespaced(c) => c.st.ver = c.ver
              /\ c.sleep /\ ~Namespaced(c) => c.st.phase = "Sleeping"

\* What the worker's own copy keeps of this while it is changed on the way.
HonestWorker ==
    rec.pc \in Reconciling =>
        /\ rec.vc.ver \in Versions
        /\ rec.vc.st.phase # "Terminating"
        /\ rec.vc.st.obs <= rec.vc.gen
        /\ rec.vc.st.obs = rec.vc.gen => AsleepSays(rec.vc)
        /\ rec.pc = "gate" => Honest(rec.vc)
        /\ rec.pc # "gate" /\ rec.vc.st.phase = "Ready" /\ ~Namespaced(rec.vc)
              => rec.vc.st.ver = rec.vc.ver
        /\ rec.pc \in {"access", "components"} => ~rec.vc.sleep
        /\ rec.pc = "degrade" /\ rec.vc.sleep /\ ~Namespaced(rec.vc)
              => rec.vc.st.obs # rec.vc.gen

\* No copy in use is of an older generation than the one already observed.
ObservedWasSeen ==
    vc.exists =>
        /\ cached.exists /\ cached.uid = vc.uid => vc.st.obs <= cached.gen
        /\ rec.pc \in Reconciling => vc.st.obs <= rec.vc.gen

\* Nobody who might reconcile a cluster marked Terminating takes it for living.
TerminatingIsSeen ==
    vc.exists /\ vc.st.phase = "Terminating" =>
        /\ rec.pc \notin Reconciling
        /\ cached.exists /\ cached.uid = vc.uid => cached.deleting

\* While a copy of an earlier life is about, nothing of this life has been built.
BuiltAfterSeen ==
    /\ data <= vc.uid
    /\ cached.uid # vc.uid \/ (rec.pc # "idle" /\ rec.vc.uid # vc.uid) =>
          /\ data # vc.uid
          /\ \A c \in Components : sts[c].exists => sts[c].owner # vc.uid

StatusInv ==
    /\ CopiesInOrder /\ CopiesOfTheLiving /\ FreshIsCurrent
    /\ Honest(vc) /\ Honest(cached) /\ HonestWorker
    /\ ObservedWasSeen /\ TerminatingIsSeen /\ BuiltAfterSeen
-----------------------------------------------------------------------------
(* Steps that leave the object and the informer's copy alone.              *)

\* The worker's copy stays that of the same object and the reconcile does not start
\* here: it goes on, ends, or does nothing.
SameSpec(c, d) ==
    /\ c.uid = d.uid /\ c.gen = d.gen
    /\ c.exists <=> d.exists
    /\ c.deleting <=> d.deleting
    /\ c.sleep <=> d.sleep
    /\ c.ver = d.ver /\ c.type = d.type
    /\ c.st.obs = d.st.obs
GoesOn ==
    \/ rec' = Idle
    \/ /\ SameSpec(rec.vc, rec'.vc)
       /\ rec'.fresh => rec.fresh
       /\ rec'.pc \in WorkerStates
       /\ rec'.pc \in Reconciling => rec.pc \in Reconciling
       /\ rec'.pc \in TearingDown => rec.pc \in TearingDown

\* What is built is built for the cluster being reconciled.
BuildsForOwn ==
    /\ \A c \in Components : sts'[c].exists =>
          \/ sts[c].exists /\ sts'[c].owner = sts[c].owner
          \/ rec.pc \in Reconciling /\ sts'[c].owner = rec.vc.uid
    /\ \/ data' \in {data, 0}
       \/ \E c \in Components : sts[c].exists /\ data' = sts[c].owner

LEMMA WorkerPhases ==
    /\ Reconciling = {"gate", "etcd", "syncer", "quiesce", "workloads", "access",
                      "components", "finish", "degrade"}
    /\ WorkerStates = {"idle"} \cup Reconciling \cup TearingDown
    /\ Idle.pc = "idle"
BY DEF Reconciling, TearingDown, WorkerStates, Idle

LEMMA QuietStatusStep ==
    ASSUME TypeOK, FinalizerInv, StatusInv, UNCHANGED <<vc, cached, cacheFresh>>, GoesOn,
           BuildsForOwn
    PROVE  /\ CopiesInOrder' /\ CopiesOfTheLiving' /\ FreshIsCurrent'
           /\ Honest(vc)' /\ Honest(cached)'
           /\ ObservedWasSeen' /\ TerminatingIsSeen' /\ BuiltAfterSeen'
<1>1. /\ vc.uid \in Nat /\ cached.uid \in Nat /\ rec.vc.uid \in Nat
      /\ cached.uid <= vc.uid /\ rec.vc.uid <= vc.uid
      /\ \A c \in Components : sts[c].owner \in Nat /\ sts[c].owner <= vc.uid
  BY DEF TypeOK, VirtualCluster, Reconciliation, StatefulSet, FinalizerInv, LivesInOrder
<1>2. \/ rec'.pc = "idle" /\ rec'.pc \notin Reconciling /\ rec'.pc \notin TearingDown
      \/ /\ SameSpec(rec.vc, rec'.vc)
         /\ rec'.fresh => rec.fresh
         /\ rec'.pc # "idle" => rec.pc # "idle"
         /\ rec'.pc \in Reconciling => rec.pc \in Reconciling
         /\ rec'.pc \in TearingDown => rec.pc \in TearingDown
  BY WorkerPhases DEF GoesOn, TearingDown
<1>3. CopiesInOrder'
  BY <1>2 DEF StatusInv, CopiesInOrder, Follows, SameSpec
<1>4. CopiesOfTheLiving' /\ FreshIsCurrent'
  BY <1>2 DEF StatusInv, CopiesOfTheLiving, FreshIsCurrent, SameSpec
<1>5. Honest(vc)' /\ Honest(cached)'
  BY DEF StatusInv, Honest, Namespaced, AsleepSays
<1>6. ObservedWasSeen' /\ TerminatingIsSeen'
  BY <1>2 DEF StatusInv, ObservedWasSeen, TerminatingIsSeen, SameSpec
<1>7. BuiltAfterSeen'
  <2>1. data' <= vc'.uid
    BY <1>1 DEF StatusInv, BuiltAfterSeen, BuildsForOwn, TypeOK
  <2>2. ASSUME \/ cached'.uid # vc'.uid
               \/ rec'.pc # "idle" /\ rec'.vc.uid # vc'.uid
        PROVE  /\ data' # vc'.uid
               /\ \A c \in Components : sts'[c].exists => sts'[c].owner # vc'.uid
    <3>1. cached.uid # vc.uid \/ (rec.pc # "idle" /\ rec.vc.uid # vc.uid)
      BY <1>2, <2>2 DEF SameSpec
    <3>2. rec.pc \notin Reconciling /\ vc.uid # 0
      BY <3>1, <1>1, WorkerPhases DEF StatusInv, CopiesInOrder, CopiesOfTheLiving
    <3> QED BY <3>1, <3>2 DEF StatusInv, BuiltAfterSeen, BuildsForOwn
  <2> QED BY <2>1, <2>2 DEF BuiltAfterSeen
<1> QED BY <1>3, <1>4, <1>5, <1>6, <1>7

-----------------------------------------------------------------------------
(* A reconcile on its way.                                                 *)

\* From the gate on the worker changes the phase and the Sleeping condition of its
\* copy and nothing else.
Amended(phase, asleep) ==
    /\ SameSpec(rec.vc, rec'.vc)
    /\ rec'.fresh <=> rec.fresh
    /\ rec'.vc.st.ver = rec.vc.st.ver
    /\ rec'.vc.st.phase = phase
    /\ rec'.vc.st.asleep = asleep

LEMMA AmendedCopies ==
    ASSUME TypeOK
    PROVE  /\ \A pc : Goto(pc) => /\ rec'.pc = pc
                                  /\ Amended(rec.vc.st.phase, rec.vc.st.asleep)
           /\ \A c, ready, pc : Found(c, ready, pc) =>
                 /\ rec'.pc = pc
                 /\ \/ Amended(rec.vc.st.phase, rec.vc.st.asleep)
                    \/ Amended("Provisioning", rec.vc.st.asleep)
           /\ Gate => \/ rec'.pc = "degrade" /\ Namespaced(rec.vc)
                         /\ Amended(rec.vc.st.phase, rec.vc.st.asleep)
                      \/ Amended(PhaseAtGate(rec.vc), rec.vc.st.asleep)
           /\ NamespacedWorkloads => Amended(rec.vc.st.phase, rec.vc.st.asleep)
           /\ ReconcileComponents => Amended(rec.vc.st.phase, rec.vc.st.asleep)
           /\ ReconcileAccess => Amended(rec.vc.st.phase, "False")
<1> USE DEF TypeOK, Reconciliation, VirtualCluster, Status, Amended, SameSpec
<1>1. \A pc : Goto(pc) => rec'.pc = pc /\ Amended(rec.vc.st.phase, rec.vc.st.asleep)
  BY DEF Goto
<1>2. ASSUME NEW c, NEW ready, NEW pc, Found(c, ready, pc)
      PROVE  /\ rec'.pc = pc
             /\ \/ Amended(rec.vc.st.phase, rec.vc.st.asleep)
                \/ Amended("Provisioning", rec.vc.st.asleep)
  BY <1>2 DEF Found
<1>3. Gate => \/ rec'.pc = "degrade" /\ Namespaced(rec.vc)
                 /\ Amended(rec.vc.st.phase, rec.vc.st.asleep)
              \/ Amended(PhaseAtGate(rec.vc), rec.vc.st.asleep)
  <2>1. ASSUME NEW pc,
               rec' = [rec EXCEPT !.vc.st.phase = PhaseAtGate(rec.vc), !.pc = pc]
        PROVE  Amended(PhaseAtGate(rec.vc), rec.vc.st.asleep)
    BY <2>1
  <2> QED BY <1>1, <2>1 DEF Gate
<1>4. NamespacedWorkloads => Amended(rec.vc.st.phase, rec.vc.st.asleep)
  BY DEF NamespacedWorkloads
<1>5. ReconcileComponents => Amended(rec.vc.st.phase, rec.vc.st.asleep)
  BY <1>1 DEF ReconcileComponents
<1>6. ReconcileAccess => Amended(rec.vc.st.phase, "False")
  BY DEF ReconcileAccess
<1> QED BY <1>1, <1>2, <1>3, <1>4, <1>5, <1>6

MidReconcile ==
    \/ Gate \/ ReconcileEtcd \/ ReconcileSyncer \/ SleepVirtualWorkloads
    \/ NamespacedWorkloads \/ ReconcileAccess \/ ReconcileComponents

LEMMA MidReconcileSteps ==
    ASSUME TypeOK, StatusInv, MidReconcile
    PROVE  /\ UNCHANGED <<vc, cached, cacheFresh>>
           /\ GoesOn /\ BuildsForOwn
           /\ HonestWorker'
<1> USE WorkerPhases
<1>k. rec.pc \in Reconciling
  BY DEF MidReconcile, Gate, ReconcileEtcd, ReconcileSyncer, SleepVirtualWorkloads,
         NamespacedWorkloads, ReconcileAccess, ReconcileComponents
<1>1. UNCHANGED <<vc, cached, cacheFresh>>
  BY DEF MidReconcile, Gate, ReconcileEtcd, ReconcileSyncer, SleepVirtualWorkloads,
         NamespacedWorkloads, ReconcileAccess, ReconcileComponents
<1>a. ASSUME NEW p, NEW a, Amended(p, a), rec'.pc \in Reconciling PROVE GoesOn
  BY <1>a, <1>k DEF Amended, GoesOn, TearingDown
<1>h. ASSUME rec.pc # "gate", rec'.pc \in Reconciling \ {"gate"},
             \/ Amended(rec.vc.st.phase, rec.vc.st.asleep)
             \/ Amended("Provisioning", rec.vc.st.asleep),
             rec'.pc \in {"access", "components"} => ~rec.vc.sleep,
             rec'.pc = "degrade" => ~rec.vc.sleep \/ Namespaced(rec.vc)
      PROVE  HonestWorker'
  BY <1>h, <1>k DEF StatusInv, HonestWorker, Amended, SameSpec, AsleepSays, Namespaced
<1>b. ASSUME UNCHANGED sts, UNCHANGED data PROVE BuildsForOwn
  BY <1>b DEF BuildsForOwn
<1>c. ASSUME NEW c \in Components, Written(c), UNCHANGED data PROVE BuildsForOwn
  <2>1. /\ Created(c).owner = rec.vc.uid
        /\ Updated(c).owner = sts[c].owner /\ Updated(c).exists = sts[c].exists
    BY DEF Created, NoSts, Updated, StatefulSet, TypeOK
  <2> QED BY <1>c, <1>k, <2>1 DEF Written, BuildsForOwn, TypeOK
<1>d. ASSUME NEW c \in Components, NEW pc, Answered(c, pc), UNCHANGED data
      PROVE  /\ BuildsForOwn
             /\ rec'.pc = pc
             /\ \/ Amended(rec.vc.st.phase, rec.vc.st.asleep)
                \/ Amended("Provisioning", rec.vc.st.asleep)
  BY <1>d, <1>b, <1>c, AmendedCopies DEF Answered, Missed
<1>2. CASE Gate
  <2>1. UNCHANGED <<sts, data>> /\ rec.pc = "gate" /\ Honest(rec.vc)
    BY <1>2, <1>k DEF Gate, StatusInv, HonestWorker
  <2>2. /\ rec.vc.exists /\ rec.vc.st.phase # "Terminating"
        /\ rec.vc.ver \in Versions /\ rec.vc.st.obs <= rec.vc.gen
        /\ rec.vc.st.obs = rec.vc.gen => AsleepSays(rec.vc)
    BY <2>1, <1>k DEF StatusInv, CopiesInOrder, HonestWorker, TearingDown
  <2>3. CASE /\ rec'.pc = "degrade" /\ Namespaced(rec.vc)
             /\ Amended(rec.vc.st.phase, rec.vc.st.asleep)
    <3>1. HonestWorker'
      BY <2>2, <2>3 DEF HonestWorker, Amended, SameSpec, AsleepSays, Namespaced
    <3> QED BY <2>1, <2>3, <3>1, <1>1, <1>a, <1>b
  <2>4. ASSUME NEW refused \in BOOLEAN,
               refused => PhaseAtGate(rec.vc) \in {"Pending", "Provisioning"},
               rec' = [rec EXCEPT
                          !.vc.st.phase = PhaseAtGate(rec.vc),
                          !.pc = IF refused THEN "degrade"
                                 ELSE IF Namespaced(rec.vc) THEN "workloads"
                                 ELSE IF rec.vc.sleep THEN "quiesce" ELSE "etcd"],
               Amended(PhaseAtGate(rec.vc), rec.vc.st.asleep)
        PROVE  GoesOn /\ HonestWorker'
    <3>1. /\ rec'.pc \in {"degrade", "workloads", "quiesce", "etcd"}
          /\ rec'.pc = "degrade" => PhaseAtGate(rec.vc) \in {"Pending", "Provisioning"}
      BY <2>4 DEF TypeOK, Reconciliation
    <3>2. /\ PhaseAtGate(rec.vc) # "Terminating"
          /\ PhaseAtGate(rec.vc) = "Ready" /\ ~Namespaced(rec.vc)
                => rec.vc.st.ver = rec.vc.ver
          /\ PhaseAtGate(rec.vc) \in {"Pending", "Provisioning"}
             /\ rec.vc.sleep /\ ~Namespaced(rec.vc)
                => rec.vc.st.obs # rec.vc.gen
      BY <2>1, <2>2 DEF PhaseAtGate, NeedsUpgrade, Honest
    <3>3. HonestWorker'
      <4>1. Amended(PhaseAtGate(rec.vc), rec.vc.st.asleep)
        BY <2>4
      <4>2. AsleepSays(rec.vc) => AsleepSays(rec'.vc)
        BY <4>1 DEF Amended, SameSpec, AsleepSays
      <4> QED BY <2>2, <3>1, <3>2, <4>1, <4>2 DEF HonestWorker, Amended, SameSpec, Namespaced
    <3> QED BY <2>4, <3>1, <3>3, <1>a
  <2> QED BY <1>2, <2>1, <2>3, <2>4, <1>1, <1>b, AmendedCopies DEF Gate
<1>3. CASE ReconcileEtcd
  <2>1. UNCHANGED data /\ rec.pc = "etcd" /\ "etcd" \in Components
    BY <1>3 DEF ReconcileEtcd, Components
  <2>2. /\ BuildsForOwn
        /\ \/ rec'.pc = AfterEtcd
           \/ rec'.pc = "degrade" /\ ~rec.vc.sleep
        /\ \/ Amended(rec.vc.st.phase, rec.vc.st.asleep)
           \/ Amended("Provisioning", rec.vc.st.asleep)
    BY <1>3, <2>1, <1>b, <1>d, AmendedCopies DEF ReconcileEtcd, Refused
  <2> QED BY <2>1, <2>2, <1>1, <1>a, <1>h DEF AfterEtcd
<1>4. CASE ReconcileSyncer
  <2>1. UNCHANGED data /\ rec.pc = "syncer" /\ "syncer" \in Components
    BY <1>4 DEF ReconcileSyncer, Components
  <2>2. ASSUME sts' = [sts EXCEPT !["syncer"] = NoSts("syncer")] PROVE BuildsForOwn
    BY <2>2, <2>1 DEF NoSts, BuildsForOwn, Components, TypeOK
  <2>3. /\ BuildsForOwn
        /\ \/ rec'.pc = AfterSyncer
           \/ rec'.pc = "degrade" /\ ~rec.vc.sleep
        /\ \/ Amended(rec.vc.st.phase, rec.vc.st.asleep)
           \/ Amended("Provisioning", rec.vc.st.asleep)
    BY <1>4, <2>2, <2>1, <1>b, <1>d, AmendedCopies DEF ReconcileSyncer, Refused
  <2> QED BY <2>1, <2>3, <1>1, <1>a, <1>h DEF AfterSyncer
<1>5. CASE SleepVirtualWorkloads
  <2>1. rec.pc = "quiesce" /\ UNCHANGED <<sts, data>> /\ Goto("syncer")
    BY <1>5 DEF SleepVirtualWorkloads
  <2> QED BY <2>1, <1>1, <1>a, <1>b, <1>h, AmendedCopies
<1>6. CASE NamespacedWorkloads
  <2>1. /\ rec.pc = "workloads" /\ UNCHANGED <<sts, data>>
        /\ rec'.pc = IF rec.vc.sleep THEN "finish" ELSE "access"
    BY <1>6 DEF NamespacedWorkloads, TypeOK, Reconciliation
  <2> QED BY <1>6, <2>1, <1>1, <1>a, <1>b, <1>h, AmendedCopies
<1>7. CASE ReconcileAccess
  <2>1. rec.pc = "access" /\ UNCHANGED <<sts, data>> /\ rec'.pc = "components"
    BY <1>7 DEF ReconcileAccess, TypeOK, Reconciliation
  <2>2. Amended(rec.vc.st.phase, "False") /\ ~rec.vc.sleep
    BY <1>7, <2>1, <1>k, AmendedCopies DEF StatusInv, HonestWorker
  <2>3. HonestWorker'
    BY <2>1, <2>2, <1>k DEF StatusInv, HonestWorker, Amended, SameSpec, AsleepSays, Namespaced
  <2> QED BY <2>1, <2>2, <2>3, <1>1, <1>a, <1>b
<1>8. CASE ReconcileComponents
  <2>1. rec.pc = "components" /\ UNCHANGED <<sts, data>> /\ rec'.pc \in {"finish", "degrade"}
    BY <1>8 DEF ReconcileComponents, Goto, TypeOK, Reconciliation
  <2>2. ~rec.vc.sleep
    BY <2>1, <1>k DEF StatusInv, HonestWorker
  <2> QED BY <1>8, <2>1, <2>2, <1>1, <1>a, <1>b, <1>h, AmendedCopies
<1> QED BY <1>2, <1>3, <1>4, <1>5, <1>6, <1>7, <1>8 DEF MidReconcile

-----------------------------------------------------------------------------
(* The end of a reconcile.                                                 *)

\* Nothing is written.
LEMMA EndsSilently ==
    ASSUME TypeOK, FinalizerInv, StatusInv,
           UNCHANGED <<vc, cached, cacheFresh, sts, data>>, rec' = Idle
    PROVE  StatusInv'
<1>1. GoesOn /\ BuildsForOwn
  BY DEF GoesOn, BuildsForOwn
<1>2. HonestWorker'
  BY WorkerPhases DEF HonestWorker
<1> QED BY <1>1, <1>2, QuietStatusStep DEF StatusInv

\* A status is written that is honest of the object it is written on.
LEMMA EndsWithStatus ==
    ASSUME TypeOK, FinalizerInv, StatusInv,
           NEW s, Stored([vc EXCEPT !.st = s]), UNCHANGED <<sts, data>>, rec' = Idle,
           Honest([vc EXCEPT !.st = s]),
           vc.exists /\ cached.exists /\ cached.uid = vc.uid => s.obs <= cached.gen,
           s.phase # "Terminating"
    PROVE  StatusInv'
<1> DEFINE new == [vc EXCEPT !.st = s]
<1>1. /\ new.uid = vc.uid /\ new.gen = vc.gen /\ new.ver = vc.ver /\ new.type = vc.type
      /\ new.exists <=> vc.exists
      /\ new.deleting <=> vc.deleting
      /\ new.sleep <=> vc.sleep
      /\ new.st = s
  BY DEF TypeOK, VirtualCluster
<1>2. /\ vc' = new /\ cached' = cached
      /\ cacheFresh' => cacheFresh /\ new = vc
  BY DEF Stored
<1>3. Honest(new)
  OBVIOUS
<1>4. rec'.pc = "idle" /\ rec'.pc \notin Reconciling /\ rec'.pc \notin TearingDown
  BY WorkerPhases DEF TearingDown
<1> HIDE DEF new
<1>5. CopiesInOrder' /\ CopiesOfTheLiving'
  BY <1>1, <1>2, <1>4 DEF StatusInv, CopiesInOrder, CopiesOfTheLiving, Follows
<1>6. FreshIsCurrent' /\ HonestWorker'
  BY <1>1, <1>2, <1>4 DEF StatusInv, FreshIsCurrent, HonestWorker
<1>7. Honest(vc)' /\ Honest(cached)'
  BY <1>2, <1>3 DEF StatusInv, Honest, Namespaced, AsleepSays
<1>8. ObservedWasSeen' /\ TerminatingIsSeen'
  BY <1>1, <1>2, <1>4 DEF ObservedWasSeen, TerminatingIsSeen
<1>9. BuiltAfterSeen'
  BY <1>1, <1>2, <1>4 DEF StatusInv, BuiltAfterSeen
<1> QED BY <1>5, <1>6, <1>7, <1>8, <1>9 DEF StatusInv

LEMMA DegradedUpdateStep ==
    ASSUME TypeOK, FinalizerInv, StatusInv, DegradedUpdate
    PROVE  StatusInv'
<1>1. rec.pc = "degrade" /\ rec.pc \in Reconciling /\ rec.pc # "idle"
  BY WorkerPhases DEF DegradedUpdate
<1>2. CASE ~rec.fresh
  BY <1>2, EndsSilently DEF DegradedUpdate
<1>3. CASE rec.fresh
  <2> DEFINE s == [rec.vc.st EXCEPT !.phase = "Degraded"]
             new == [vc EXCEPT !.st = s]
  <2>1. /\ s.phase = "Degraded" /\ s.obs = rec.vc.st.obs /\ s.asleep = rec.vc.st.asleep
        /\ new.gen = vc.gen /\ new.ver = vc.ver /\ new.type = vc.type /\ new.st = s
        /\ new.exists <=> vc.exists
        /\ new.deleting <=> vc.deleting
        /\ new.sleep <=> vc.sleep
    BY DEF TypeOK, VirtualCluster, Reconciliation, Status
  <2>2. Stored(new)
    BY <1>3 DEF DegradedUpdate
  <2> HIDE DEF s, new
  <2>3. /\ vc.exists /\ rec.vc.exists /\ vc.uid = rec.vc.uid /\ vc.gen = rec.vc.gen
        /\ vc.st.obs = rec.vc.st.obs
        /\ vc.type = rec.vc.type /\ vc.ver = rec.vc.ver
        /\ vc.sleep <=> rec.vc.sleep
        /\ vc.deleting <=> rec.vc.deleting
    BY <1>1, <1>3 DEF StatusInv, FreshIsCurrent, CopiesInOrder, Follows
  <2>4. Honest(new)
    BY <1>1, <2>1, <2>3 DEF StatusInv, HonestWorker, CopiesOfTheLiving, Honest, AsleepSays,
       Namespaced
  <2>5. cached.exists /\ cached.uid = vc.uid => s.obs <= cached.gen
    BY <2>1, <2>3 DEF StatusInv, ObservedWasSeen
  <2> QED BY <2>1, <2>2, <2>4, <2>5, EndsWithStatus DEF DegradedUpdate, new
<1> QED BY <1>2, <1>3

LEMMA UpdateStatusStep ==
    ASSUME TypeOK, FinalizerInv, StatusInv, UpdateStatus
    PROVE  StatusInv'
<1>1. rec.pc = "finish" /\ rec.pc \in Reconciling /\ rec.pc # "idle"
  BY WorkerPhases DEF UpdateStatus
<1>2. CASE ~(cached.exists /\ cacheFresh)
  BY <1>2, EndsSilently DEF UpdateStatus
<1>3. CASE cached.exists /\ cacheFresh
  <2> DEFINE new == [vc EXCEPT !.st = FinalStatus]
  <2>1. /\ new.gen = vc.gen /\ new.ver = vc.ver /\ new.type = vc.type
        /\ new.st = FinalStatus
        /\ new.exists <=> vc.exists
        /\ new.deleting <=> vc.deleting
        /\ new.sleep <=> vc.sleep
    BY DEF TypeOK, VirtualCluster
  <2>2. Stored(new)
    BY <1>3 DEF UpdateStatus
  <2> HIDE DEF new
  <2>3. /\ vc.exists /\ rec.vc.exists /\ vc.uid = rec.vc.uid /\ cached = vc
        /\ rec.vc.gen <= vc.gen /\ vc.type = rec.vc.type
        /\ ~rec.vc.deleting
        /\ vc.gen = rec.vc.gen => /\ vc.ver = rec.vc.ver
                                  /\ vc.sleep <=> rec.vc.sleep
                                  /\ ~vc.deleting
    BY <1>1, <1>3 DEF StatusInv, FreshIsCurrent, CopiesInOrder, CopiesOfTheLiving, Follows
  <2>4. /\ rec.vc.ver \in Versions
        /\ rec.vc.st.phase # "Terminating"
        /\ rec.vc.st.phase = "Ready" /\ ~Namespaced(rec.vc) => rec.vc.st.ver = rec.vc.ver
    BY <1>1 DEF StatusInv, HonestWorker
  <2>5. /\ FinalStatus.obs = rec.vc.gen
        /\ FinalStatus.asleep = IF rec.vc.sleep THEN "True" ELSE "False"
        /\ FinalStatus.phase # "Terminating"
        /\ FinalStatus.phase = "Ready" => ~rec.vc.sleep
        /\ rec.vc.sleep => FinalStatus.phase = "Sleeping"
        /\ FinalStatus.phase = "Ready" /\ ~Namespaced(rec.vc)
              => FinalStatus.ver = rec.vc.ver
    BY <2>4 DEF FinalStatus
  <2>6. vc.ver \in Versions
    BY <2>3 DEF StatusInv, Honest
  <2>7. Honest(new)
    BY <2>1, <2>3, <2>4, <2>5, <2>6, VersionAssumption DEF Honest, AsleepSays, Namespaced
  <2>8. cached.exists /\ cached.uid = vc.uid => FinalStatus.obs <= cached.gen
    BY <2>3, <2>5
  <2> QED BY <2>2, <2>5, <2>7, <2>8, EndsWithStatus DEF UpdateStatus, new
<1> QED BY <1>2, <1>3

-----------------------------------------------------------------------------
(* handleDeletion.                                                         *)

LEMMA MarkTerminatingStep ==
    ASSUME TypeOK, FinalizerInv, StatusInv, MarkTerminating
    PROVE  StatusInv'
<1>1. /\ rec.pc = "terminate" /\ rec.pc \in TearingDown /\ rec.pc # "idle"
      /\ rec'.pc = "cleanup" /\ rec'.pc \in TearingDown /\ rec'.pc # "idle"
      /\ rec'.pc \notin Reconciling
      /\ SameSpec(rec.vc, rec'.vc)
      /\ rec'.fresh <=> rec.fresh
      /\ UNCHANGED <<sts, data>>
  BY WorkerPhases DEF MarkTerminating, TearingDown, SameSpec, TypeOK, Reconciliation,
     VirtualCluster, Status
<1>2. CASE ~rec.fresh
  <2>1. GoesOn /\ BuildsForOwn /\ HonestWorker' /\ UNCHANGED <<vc, cached, cacheFresh>>
    BY <1>1, <1>2, WorkerPhases DEF GoesOn, BuildsForOwn, HonestWorker, MarkTerminating
  <2> QED BY <2>1, QuietStatusStep DEF StatusInv
<1>3. CASE rec.fresh
  <2>1. /\ vc' = [vc EXCEPT !.st.phase = "Terminating"] /\ cached' = cached
        /\ cacheFresh' => cacheFresh /\ vc' = vc
    BY <1>3 DEF MarkTerminating, Stored
  <2>2. /\ SameSpec(vc, vc') /\ vc'.st.phase = "Terminating" /\ vc'.fin = vc.fin
    BY <2>1 DEF SameSpec, TypeOK, VirtualCluster, Status
  <2>3. vc.exists /\ vc.uid = rec.vc.uid /\ rec.vc.exists /\ rec.vc.deleting /\ vc.deleting
    BY <1>1, <1>3 DEF StatusInv, FreshIsCurrent, CopiesInOrder, CopiesOfTheLiving, Follows
  <2>4. cached.exists /\ cached.uid = vc.uid => cached.deleting
    BY <1>1, <2>3 DEF StatusInv, CopiesInOrder, Follows
  <2>5. CopiesInOrder' /\ CopiesOfTheLiving'
    BY <1>1, <2>1, <2>2 DEF StatusInv, CopiesInOrder, CopiesOfTheLiving, Follows, SameSpec
  <2>6. FreshIsCurrent' /\ HonestWorker'
    BY <1>1, <2>1, <2>2 DEF StatusInv, FreshIsCurrent, HonestWorker, SameSpec
  <2>7. Honest(vc)' /\ Honest(cached)'
    BY <2>1, <2>2, <2>3 DEF StatusInv, Honest, Namespaced, AsleepSays, SameSpec
  <2>8. ObservedWasSeen' /\ TerminatingIsSeen'
    BY <1>1, <2>1, <2>2, <2>4 DEF StatusInv, ObservedWasSeen, TerminatingIsSeen, SameSpec
  <2>9. BuiltAfterSeen'
    BY <1>1, <2>1, <2>2 DEF StatusInv, BuiltAfterSeen, SameSpec
  <2> QED BY <2>5, <2>6, <2>7, <2>8, <2>9 DEF StatusInv
<1> QED BY <1>2, <1>3

LEMMA CleanUpSteps ==
    ASSUME TypeOK, StatusInv, CleanUp
    PROVE  /\ UNCHANGED <<vc, cached, cacheFresh>>
           /\ GoesOn /\ BuildsForOwn
           /\ HonestWorker'
<1>1. GoesOn
  BY AmendedCopies, WorkerPhases DEF CleanUp, GoesOn, Amended, TearingDown
<1>2. \A c \in Components : ~NoSts(c).exists
  BY DEF NoSts
<1>3. BuildsForOwn
  BY <1>2 DEF CleanUp, BuildsForOwn
<1>4. HonestWorker'
  BY AmendedCopies, WorkerPhases DEF CleanUp, HonestWorker, TearingDown
<1> QED BY <1>1, <1>3, <1>4 DEF CleanUp

LEMMA RemoveFinalizerStep ==
    ASSUME TypeOK, FinalizerInv, StatusInv, RemoveFinalizer
    PROVE  StatusInv'
<1>1. CASE ~rec.fresh
  BY <1>1, EndsSilently DEF RemoveFinalizer
<1>2. CASE rec.fresh
  <2>1. /\ rec.pc = "release" /\ rec.pc \in TearingDown /\ rec.pc # "idle"
        /\ vc' = Gone(vc.uid) /\ vc'.uid = vc.uid /\ ~vc'.exists
        /\ cached' = cached
        /\ cacheFresh' => cacheFresh /\ vc' = vc
        /\ rec'.pc = "idle" /\ rec'.pc \notin Reconciling /\ rec'.pc \notin TearingDown
        /\ UNCHANGED <<sts, data>>
    <3>1. /\ vc' = Gone(vc.uid) /\ cached' = cached
          /\ cacheFresh' => cacheFresh /\ vc' = vc
          /\ rec' = Idle /\ rec.pc = "release"
          /\ UNCHANGED <<sts, data>>
      BY <1>2 DEF RemoveFinalizer, Stored
    <3>2. Gone(vc.uid).uid = vc.uid /\ ~Gone(vc.uid).exists
      BY DEF Gone
    <3> QED BY <3>1, <3>2, WorkerPhases DEF TearingDown
  <2>2. ~(cached.exists /\ cached.fin /\ ~cached.deleting)
    BY <1>2, <2>1 DEF StatusInv, FreshIsCurrent, CopiesInOrder, CopiesOfTheLiving, Follows
  <2>3. CopiesInOrder' /\ CopiesOfTheLiving'
    BY <2>1, <2>2 DEF CopiesInOrder, CopiesOfTheLiving, Follows
  <2>4. FreshIsCurrent' /\ HonestWorker' /\ ObservedWasSeen' /\ TerminatingIsSeen'
    BY <2>1 DEF StatusInv, FreshIsCurrent, HonestWorker, ObservedWasSeen, TerminatingIsSeen
  <2>5. Honest(vc)' /\ Honest(cached)'
    BY <2>1 DEF StatusInv, Honest, Namespaced, AsleepSays
  <2>6. BuiltAfterSeen'
    BY <2>1 DEF StatusInv, BuiltAfterSeen
  <2> QED BY <2>3, <2>4, <2>5, <2>6 DEF StatusInv
<1> QED BY <1>1, <1>2

-----------------------------------------------------------------------------
(* The start of a reconcile, and copies.                                   *)

LEMMA AddFinalizerStep ==
    ASSUME TypeOK, FinalizerInv, StatusInv, AddFinalizer
    PROVE  StatusInv'
<1>1. /\ rec.pc = "idle" /\ rec' = rec
      /\ SameSpec(vc, vc') /\ vc'.st = vc.st
      /\ cached' = cached
      /\ cacheFresh' => cacheFresh /\ vc' = vc
      /\ UNCHANGED <<sts, data>>
  BY DEF AddFinalizer, Stored, SameSpec, TypeOK, VirtualCluster
<1>2. CopiesInOrder' /\ CopiesOfTheLiving'
  BY <1>1 DEF StatusInv, CopiesInOrder, CopiesOfTheLiving, Follows, SameSpec
<1>3. FreshIsCurrent' /\ HonestWorker' /\ ObservedWasSeen' /\ TerminatingIsSeen'
  BY <1>1 DEF StatusInv, FreshIsCurrent, HonestWorker, ObservedWasSeen, TerminatingIsSeen,
     SameSpec, Reconciling
<1>4. Honest(vc)' /\ Honest(cached)'
  BY <1>1 DEF StatusInv, Honest, Namespaced, AsleepSays, SameSpec
<1>5. BuiltAfterSeen'
  BY <1>1 DEF StatusInv, BuiltAfterSeen, SameSpec
<1> QED BY <1>2, <1>3, <1>4, <1>5 DEF StatusInv

LEMMA FetchStep ==
    ASSUME TypeOK, FinalizerInv, StatusInv, Fetch
    PROVE  StatusInv'
<1>1. /\ rec.pc = "idle"
      /\ cached.exists /\ (cached.deleting \/ cached.fin)
      /\ rec'.pc = IF cached.deleting THEN "terminate" ELSE "gate"
      /\ rec'.vc = cached
      /\ rec'.fresh <=> cacheFresh
      /\ UNCHANGED <<vc, cached, cacheFresh, sts, data>>
  BY DEF Fetch, Idle
<1>2. /\ rec'.pc \in Reconciling => rec'.pc = "gate" /\ ~cached.deleting /\ cached.fin
      /\ rec'.pc \in TearingDown => cached.deleting
      /\ cached.gen \in Nat /\ cached.uid \in Nat
  BY <1>1, WorkerPhases DEF TearingDown, TypeOK, VirtualCluster
<1>3. CopiesInOrder' /\ CopiesOfTheLiving'
  BY <1>1, <1>2 DEF StatusInv, CopiesInOrder, CopiesOfTheLiving, Follows
<1>4. FreshIsCurrent'
  BY <1>1 DEF StatusInv, FreshIsCurrent
<1>5. Honest(vc)' /\ Honest(cached)' /\ HonestWorker'
  BY <1>1, <1>2 DEF StatusInv, Honest, HonestWorker, Namespaced, AsleepSays
<1>6. ObservedWasSeen' /\ TerminatingIsSeen'
  BY <1>1, <1>2 DEF StatusInv, CopiesOfTheLiving, ObservedWasSeen, TerminatingIsSeen
<1>7. BuiltAfterSeen'
  BY <1>1 DEF StatusInv, BuiltAfterSeen
<1> QED BY <1>3, <1>4, <1>5, <1>6, <1>7 DEF StatusInv

LEMMA NewCopyStep ==
    ASSUME TypeOK, FinalizerInv, StatusInv, CacheSync \/ Restart
    PROVE  StatusInv'
<1>1. /\ UNCHANGED <<vc, sts, data>> /\ cached' = vc /\ cacheFresh'
      /\ rec' = rec \/ rec'.pc = "idle"
      /\ vc.gen \in Nat /\ vc.uid \in Nat /\ rec.vc.uid \in Nat /\ rec.vc.uid <= vc.uid
  BY WorkerPhases DEF CacheSync, Restart, TypeOK, VirtualCluster, Reconciliation, FinalizerInv,
     LivesInOrder
<1>2. "idle" \notin Reconciling /\ "idle" \notin TearingDown
  BY WorkerPhases DEF TearingDown
<1>3. CopiesInOrder' /\ CopiesOfTheLiving'
  BY <1>1, <1>2 DEF StatusInv, CopiesInOrder, CopiesOfTheLiving, Follows
<1>4. FreshIsCurrent' /\ HonestWorker'
  BY <1>1, <1>2 DEF StatusInv, FreshIsCurrent, HonestWorker
<1>5. Honest(vc)' /\ Honest(cached)'
  BY <1>1 DEF StatusInv, Honest, Namespaced, AsleepSays
<1>6. ObservedWasSeen' /\ TerminatingIsSeen'
  BY <1>1, <1>2 DEF StatusInv, Honest, ObservedWasSeen, TerminatingIsSeen
<1>7. BuiltAfterSeen'
  BY <1>1 DEF StatusInv, BuiltAfterSeen
<1> QED BY <1>3, <1>4, <1>5, <1>6, <1>7 DEF StatusInv

-----------------------------------------------------------------------------
(* Users and Kubernetes.                                                   *)

\* An edit makes a new generation, of which no status tells yet.
LEMMA EditStep ==
    ASSUME TypeOK, FinalizerInv, StatusInv, UserWrites(vc'),
           SetSleep \/ SetVersion \/ (Delete /\ vc.fin)
    PROVE  StatusInv'
<1>1. /\ vc.exists
      /\ vc'.uid = vc.uid /\ vc'.gen = vc.gen + 1 /\ vc'.st = vc.st /\ vc'.type = vc.type
      /\ vc'.exists /\ vc'.ver \in Versions
      /\ vc.deleting => vc'.deleting
      /\ vc.gen \in Nat /\ vc.st.obs <= vc.gen /\ vc.st.obs \in Nat
  <2>1. vc \in VirtualCluster /\ vc.exists /\ vc.ver \in Versions /\ vc.st.obs <= vc.gen
    BY DEF TypeOK, StatusInv, Honest, SetSleep, SetVersion, Delete
  <2>2. \/ vc' = [vc EXCEPT !.sleep = ~vc.sleep, !.gen = vc.gen + 1]
        \/ \E v \in Versions : vc' = [vc EXCEPT !.ver = v, !.gen = vc.gen + 1]
        \/ vc' = [vc EXCEPT !.deleting = TRUE, !.gen = vc.gen + 1]
    BY DEF SetSleep, SetVersion, Delete, UserWrites, Stored
  <2> QED BY <2>1, <2>2 DEF VirtualCluster, Status
<1>2. /\ cached' = cached
      /\ cacheFresh' => cacheFresh /\ vc' = vc
      /\ rec'.pc = rec.pc /\ rec'.vc = rec.vc /\ ~rec'.fresh
      /\ UNCHANGED <<sts, data>>
  BY DEF UserWrites, Stored, TypeOK, Reconciliation
<1>3. rec.vc.gen \in Nat /\ cached.gen \in Nat
  BY DEF TypeOK, Reconciliation, VirtualCluster
<1>4. CopiesInOrder' /\ CopiesOfTheLiving'
  BY <1>1, <1>2, <1>3 DEF StatusInv, CopiesInOrder, CopiesOfTheLiving, Follows
<1>5. FreshIsCurrent' /\ HonestWorker'
  BY <1>1, <1>2 DEF StatusInv, FreshIsCurrent, HonestWorker, Honest, Namespaced, AsleepSays
<1>6. Honest(vc)' /\ Honest(cached)'
  BY <1>1, <1>2 DEF StatusInv, Honest, Namespaced, AsleepSays
<1>7. ObservedWasSeen' /\ TerminatingIsSeen'
  BY <1>1, <1>2 DEF StatusInv, ObservedWasSeen, TerminatingIsSeen
<1>8. BuiltAfterSeen'
  BY <1>1, <1>2 DEF StatusInv, BuiltAfterSeen
<1> QED BY <1>4, <1>5, <1>6, <1>7, <1>8 DEF StatusInv

\* A cluster without finalizer goes at once: the worker has not begun with it.
LEMMA DeleteUnseenStep ==
    ASSUME TypeOK, FinalizerInv, StatusInv, Delete, ~vc.fin
    PROVE  StatusInv'
<1>1. /\ vc.exists /\ vc'.uid = vc.uid /\ ~vc'.exists
      /\ cached' = cached
      /\ cacheFresh' => cacheFresh /\ vc' = vc
      /\ rec'.pc = rec.pc /\ rec'.vc = rec.vc /\ ~rec'.fresh
      /\ UNCHANGED <<sts, data>>
  BY DEF Delete, UserWrites, Stored, Gone, TypeOK, Reconciliation
<1>2. rec.pc \notin Reconciling
  BY WorkerPhases DEF FinalizerInv, FinalizerStays, StatusInv, CopiesOfTheLiving
<1>3. CopiesInOrder' /\ CopiesOfTheLiving'
  BY <1>1, <1>2 DEF StatusInv, FinalizerInv, FinalizerStays, CopiesInOrder, CopiesOfTheLiving,
     Follows
<1>4. FreshIsCurrent' /\ HonestWorker' /\ ObservedWasSeen' /\ TerminatingIsSeen'
  BY <1>1, <1>2 DEF StatusInv, FreshIsCurrent, HonestWorker, ObservedWasSeen, TerminatingIsSeen
<1>5. Honest(vc)' /\ Honest(cached)'
  BY <1>1 DEF StatusInv, Honest, Namespaced, AsleepSays
<1>6. BuiltAfterSeen'
  BY <1>1 DEF StatusInv, BuiltAfterSeen
<1> QED BY <1>3, <1>4, <1>5, <1>6 DEF StatusInv

\* A new life begins: every copy is of an earlier one, and so is all that is left.
LEMMA CreateStep ==
    ASSUME TypeOK, FinalizerInv, StatusInv, Create
    PROVE  StatusInv'
<1>1. /\ ~vc.exists /\ vc'.exists /\ ~vc'.deleting
      /\ vc'.uid = vc.uid + 1 /\ vc'.gen = 1
      /\ vc'.st.obs = 0 /\ vc'.st.phase \notin {"Ready", "Terminating"}
      /\ vc'.ver \in Versions
      /\ cached' = cached
      /\ ~cacheFresh'
      /\ rec'.pc = rec.pc /\ rec'.vc = rec.vc /\ ~rec'.fresh
      /\ UNCHANGED <<sts, data>>
  <2>1. PICK v \in FirstVersions, asleep \in BOOLEAN, type \in Types :
           Stored([Gone(vc.uid + 1) EXCEPT !.exists = TRUE, !.gen = 1, !.type = type,
                                           !.sleep = asleep, !.ver = v])
    BY DEF Create
  <2>2. /\ vc'.exists /\ ~vc'.deleting /\ vc'.uid = vc.uid + 1 /\ vc'.gen = 1
        /\ vc'.st.obs = 0 /\ vc'.st.phase \notin {"Ready", "Terminating"} /\ vc'.ver = v
    BY <2>1 DEF Stored, Gone, FreshStatus
  <2>3. cached' = cached /\ (cacheFresh' => vc' = vc)
    BY <2>1 DEF Stored
  <2>4. ~vc.exists
    BY DEF Create
  <2> QED BY <2>2, <2>3, <2>4, VersionAssumption DEF Create, TypeOK, Reconciliation
<1>2. [Next]_vars
  BY DEF Next, User
<1>3. /\ vc.uid \in Nat /\ cached.uid \in Nat /\ rec.vc.uid \in Nat /\ data \in Nat
      /\ vc'.uid \in Nat /\ vc'.gen \in Nat /\ vc'.st.obs \in Nat
      /\ cached.uid <= vc.uid /\ rec.vc.uid <= vc.uid /\ data <= vc.uid
      /\ \A c \in Components : sts[c].owner \in Nat /\ sts[c].owner <= vc.uid
  BY <1>2, TypeStep DEF TypeOK, VirtualCluster, Status, Reconciliation, StatefulSet,
     FinalizerInv, LivesInOrder, StatusInv, BuiltAfterSeen
<1>4. CopiesInOrder' /\ CopiesOfTheLiving'
  BY <1>1, <1>3 DEF StatusInv, CopiesInOrder, CopiesOfTheLiving, Follows
<1>5. FreshIsCurrent' /\ HonestWorker'
  BY <1>1, <1>3 DEF StatusInv, FreshIsCurrent, HonestWorker, CopiesOfTheLiving
<1>6. Honest(vc)' /\ Honest(cached)'
  BY <1>1, <1>3 DEF StatusInv, Honest, Namespaced, AsleepSays
<1>7. ObservedWasSeen' /\ TerminatingIsSeen'
  BY <1>1, <1>3 DEF StatusInv, CopiesOfTheLiving, ObservedWasSeen, TerminatingIsSeen
<1>8. BuiltAfterSeen'
  BY <1>1, <1>3 DEF BuiltAfterSeen
<1> QED BY <1>4, <1>5, <1>6, <1>7, <1>8 DEF StatusInv

LEMMA KubernetesSteps ==
    ASSUME TypeOK, StatusInv, NEW c \in Components, Kubernetes(c) \/ PodFail(c)
    PROVE  /\ UNCHANGED <<vc, cached, cacheFresh>>
           /\ GoesOn /\ BuildsForOwn
           /\ HonestWorker'
<1>1. UNCHANGED <<vc, cached, cacheFresh, rec>>
  BY DEF Kubernetes, PodStart, PodStop, PodRoll, PublishReady, CollectGarbage, PodFail
<1>2. GoesOn /\ HonestWorker'
  BY <1>1 DEF GoesOn, SameSpec, TypeOK, Reconciliation, StatusInv, HonestWorker, Honest,
     Namespaced, AsleepSays
<1>3. ASSUME NEW o, NEW p, Pods(c, o, p)
      PROVE  \A d \in Components : sts'[d].exists => sts[d].exists /\ sts'[d].owner = sts[d].owner
  BY <1>3 DEF Pods, TypeOK, StatefulSet
<1>4. ASSUME PodStart(c) PROVE BuildsForOwn
  BY <1>3, <1>4 DEF PodStart, BuildsForOwn
<1>5. ASSUME PodStop(c) PROVE BuildsForOwn
  BY <1>3, <1>5 DEF PodStop, BuildsForOwn
<1>6. ASSUME PodRoll(c) PROVE BuildsForOwn
  BY <1>3, <1>6 DEF PodRoll, BuildsForOwn
<1>7. ASSUME PodFail(c) PROVE BuildsForOwn
  BY <1>3, <1>7 DEF PodFail, BuildsForOwn
<1>8. ASSUME PublishReady(c) PROVE BuildsForOwn
  <2>1. ASSUME NEW n, sts' = [sts EXCEPT ![c].ready = n]
        PROVE  \A d \in Components :
                  sts'[d].exists => sts[d].exists /\ sts'[d].owner = sts[d].owner
    BY <2>1 DEF TypeOK, StatefulSet
  <2> QED BY <1>8, <2>1 DEF PublishReady, BuildsForOwn
<1>9. ASSUME CollectGarbage(c) PROVE BuildsForOwn
  BY <1>9 DEF CollectGarbage, NoSts, BuildsForOwn, TypeOK
<1> QED
  BY <1>1, <1>2, <1>4, <1>5, <1>6, <1>7, <1>8, <1>9 DEF Kubernetes

-----------------------------------------------------------------------------
(* The invariant holds, and what follows from it.                          *)

LEMMA StatusInit == Init => StatusInv
<1>1. ASSUME Init PROVE StatusInv
  <2>1. /\ ~vc.exists /\ cached = vc /\ vc.uid = 0 /\ data = 0
        /\ rec.pc = "idle" /\ rec.pc \notin Reconciling /\ rec.pc \notin TearingDown
        /\ \A c \in Components : ~sts[c].exists
    BY <1>1, WorkerPhases DEF Init, Gone, Idle, NoSts, TearingDown
  <2> QED BY <2>1 DEF StatusInv, CopiesInOrder, CopiesOfTheLiving, FreshIsCurrent, Follows,
             Honest, HonestWorker, ObservedWasSeen, TerminatingIsSeen, BuiltAfterSeen
<1> QED BY <1>1

\* StatusInv is inductive.
LEMMA StatusStep ==
    ASSUME TypeOK, FinalizerInv, StatusInv, [Next]_vars
    PROVE  StatusInv'
<1>1. ASSUME UNCHANGED <<vc, cached, cacheFresh>>, GoesOn, BuildsForOwn, HonestWorker'
      PROVE  StatusInv'
  BY <1>1, QuietStatusStep DEF StatusInv
<1>2. CASE User
  <2>1. SetSleep \/ SetVersion \/ (Delete /\ vc.fin) => UserWrites(vc')
    BY DEF SetSleep, SetVersion, Delete, UserWrites, Stored
  <2> QED BY <1>2, <2>1, EditStep, DeleteUnseenStep, CreateStep DEF User
<1>3. CASE CacheSync \/ Restart
  BY <1>3, NewCopyStep
<1>4. CASE Worker
  BY <1>1, <1>4, AddFinalizerStep, FetchStep, DegradedUpdateStep, MidReconcileSteps,
     UpdateStatusStep, MarkTerminatingStep, CleanUpSteps, RemoveFinalizerStep
     DEF Worker, MidReconcile
<1>5. ASSUME NEW c \in Components, Kubernetes(c) \/ PodFail(c) PROVE StatusInv'
  BY <1>1, <1>5, KubernetesSteps
<1>6. CASE UNCHANGED vars
  <2>1. GoesOn /\ BuildsForOwn /\ HonestWorker'
    BY <1>6 DEF vars, GoesOn, SameSpec, BuildsForOwn, TypeOK, Reconciliation, StatusInv,
       HonestWorker, Honest, Namespaced, AsleepSays
  <2> QED BY <1>1, <1>6, <2>1 DEF vars
<1> QED
  BY <1>2, <1>3, <1>4, <1>5, <1>6 DEF Next

LEMMA StatusAlways == Spec => [](TypeOK /\ FinalizerInv /\ StatusInv)
<1>1. Init => TypeOK /\ FinalizerInv /\ StatusInv
  BY TypeInit, FinalizerInit, StatusInit
<1>2. (TypeOK /\ FinalizerInv /\ StatusInv) /\ [Next]_vars
         => (TypeOK /\ FinalizerInv /\ StatusInv)'
  BY TypeStep, FinalizerStep, StatusStep
<1> QED BY <1>1, <1>2, PTL DEF Spec

\* The status is honest although it is computed from a copy of the informer and
\* written over whatever object is there by then: it never runs ahead, reports no
\* deletion as observed, and at the current generation tells of that specification.
\* For every size, set of versions and interleaving of edits, failures and restarts.
THEOREM StatusIsHonest == Spec => []StatusDescribesGeneration
<1>1. StatusInv => StatusDescribesGeneration
  BY DEF StatusInv, Honest, AsleepSays, StatusDescribesGeneration
<1> QED BY <1>1, StatusAlways, PTL

\* Only two steps write more of the status than the phase Terminating.
LEMMA StatusWrites ==
    ASSUME TypeOK, FinalizerInv, StatusInv, [Next]_vars, vc.exists, vc'.exists
    PROVE  \/ vc'.st = vc.st
           \/ vc'.st.obs = vc.st.obs /\ vc'.st.phase = "Terminating"
           \/ /\ rec.pc \in Reconciling
              /\ vc'.st.obs = vc.st.obs \/ vc'.st.obs = rec.vc.gen
<1>1. CASE User
  <2>1. \/ \E x : vc' = [vc EXCEPT !.sleep = x, !.gen = vc.gen + 1]
        \/ \E v : vc' = [vc EXCEPT !.ver = v, !.gen = vc.gen + 1]
        \/ vc' = [vc EXCEPT !.deleting = TRUE, !.gen = vc.gen + 1]
    <3>1. ~Create
      BY DEF Create
    <3>2. CASE SetSleep
      BY <3>2 DEF SetSleep, UserWrites, Stored
    <3>3. CASE SetVersion
      BY <3>3 DEF SetVersion, UserWrites, Stored
    <3>4. CASE Delete
      BY <3>4 DEF Delete, UserWrites, Stored, Gone
    <3> QED BY <1>1, <3>1, <3>2, <3>3, <3>4 DEF User
  <2> QED BY <2>1 DEF TypeOK, VirtualCluster
<1>2. CASE DegradedUpdate
  <2>1. CASE rec.fresh
    <3>1. vc' = [vc EXCEPT !.st = [rec.vc.st EXCEPT !.phase = "Degraded"]]
      BY <1>2, <2>1 DEF DegradedUpdate, Stored
    <3>2. vc'.st.obs = rec.vc.st.obs
      BY <3>1 DEF TypeOK, VirtualCluster, Reconciliation, Status
    <3>3. rec.pc \in Reconciling /\ rec.pc # "idle"
      BY <1>2, WorkerPhases DEF DegradedUpdate
    <3> QED BY <2>1, <3>2, <3>3 DEF StatusInv, FreshIsCurrent
  <2> QED BY <1>2, <2>1 DEF DegradedUpdate
<1>3. CASE UpdateStatus
  <2>1. rec.pc \in Reconciling
    BY <1>3, WorkerPhases DEF UpdateStatus
  <2>2. vc' = [vc EXCEPT !.st = FinalStatus] \/ vc' = vc
    BY <1>3 DEF UpdateStatus, Stored
  <2> QED BY <2>1, <2>2 DEF FinalStatus, TypeOK, VirtualCluster
<1>4. CASE MarkTerminating
  <2>1. vc' = [vc EXCEPT !.st.phase = "Terminating"] \/ vc' = vc
    BY <1>4 DEF MarkTerminating, Stored
  <2> QED BY <2>1 DEF TypeOK, VirtualCluster, Status
<1>5. CASE AddFinalizer
  BY <1>5 DEF AddFinalizer, Stored, TypeOK, VirtualCluster
<1>6. CASE RemoveFinalizer
  BY <1>6 DEF RemoveFinalizer, Stored, Gone
<1>7. CASE MidReconcile \/ CleanUp \/ Fetch \/ CacheSync \/ Restart \/ UNCHANGED vars
  BY <1>7, MidReconcileSteps DEF CleanUp, Fetch, CacheSync, Restart, vars
<1>8. ASSUME NEW c \in Components, Kubernetes(c) \/ PodFail(c) PROVE UNCHANGED vc
  BY <1>8, KubernetesSteps
<1> QED
  BY <1>1, <1>2, <1>3, <1>4, <1>5, <1>6, <1>7, <1>8 DEF Next, Worker, MidReconcile

\* A client waiting for its generation to be observed never sees an older reconcile
\* overwrite a newer one, though every reconcile works from a copy of its own.
THEOREM ObservedNeverGoesBack == Spec => ObservedNeverRegresses
<1>1. ASSUME TypeOK, FinalizerInv, StatusInv, [Next]_vars,
             vc.exists, vc'.exists
      PROVE  vc'.st.obs >= vc.st.obs
  <2>1. vc.st.obs \in Nat
    BY <1>1 DEF TypeOK, VirtualCluster, Status
  <2>2. rec.pc \in Reconciling => vc.st.obs <= rec.vc.gen /\ rec.vc.gen \in Nat
    BY <1>1 DEF StatusInv, ObservedWasSeen, TypeOK, Reconciliation, VirtualCluster
  <2>3. vc'.st.obs = vc.st.obs \/ (rec.pc \in Reconciling /\ vc'.st.obs = rec.vc.gen)
    BY <1>1, StatusWrites
  <2> QED BY <2>1, <2>2, <2>3
<1>2. (TypeOK /\ FinalizerInv /\ StatusInv) /\ [Next]_vars
         => (vc.exists /\ vc'.uid = vc.uid /\ vc'.exists => vc'.st.obs >= vc.st.obs)
  BY <1>1
<1> QED BY <1>2, StatusAlways, PTL DEF Spec, ObservedNeverRegresses

\* Whoever builds a StatefulSet is a reconcile of a cluster that, as far as it can
\* tell, lives.
LEMMA OnlyReconcilesBuild ==
    ASSUME TypeOK, StatusInv, [Next]_vars, rec.pc \notin Reconciling, NEW c \in Components,
           sts'[c].exists
    PROVE  sts[c].exists
<1>1. ASSUME NEW d \in Components, Kubernetes(d) \/ PodFail(d) PROVE sts[c].exists
  BY <1>1, KubernetesSteps DEF BuildsForOwn
<1>2. CASE CleanUp
  BY <1>2, CleanUpSteps DEF BuildsForOwn
<1>3. ~MidReconcile
  BY WorkerPhases DEF MidReconcile, Gate, ReconcileEtcd, ReconcileSyncer,
     SleepVirtualWorkloads, NamespacedWorkloads, ReconcileAccess, ReconcileComponents
<1>4. CASE \/ User \/ CacheSync \/ Restart \/ AddFinalizer \/ Fetch \/ DegradedUpdate
           \/ UpdateStatus \/ MarkTerminating \/ RemoveFinalizer \/ UNCHANGED vars
  BY <1>4 DEF User, Create, SetSleep, SetVersion, Delete, UserWrites, CacheSync, Restart,
     AddFinalizer, Fetch, DegradedUpdate, UpdateStatus, MarkTerminating, RemoveFinalizer, vars
<1> QED
  BY <1>1, <1>2, <1>3, <1>4 DEF Next, Worker, MidReconcile

\* Nothing brings back a cluster that reports Terminating: no reconcile begun earlier
\* and none from an old copy changes its phase or builds anything for it.
THEOREM TerminatingStaysFinal == Spec => TerminatingIsFinal
<1>1. ASSUME TypeOK, FinalizerInv, StatusInv, [Next]_vars,
             vc.exists, vc.st.phase = "Terminating"
      PROVE  /\ vc'.exists => vc'.st.phase = "Terminating"
             /\ \A c \in Components : sts'[c].exists => sts[c].exists
  <2>1. rec.pc \notin Reconciling
    BY <1>1 DEF StatusInv, TerminatingIsSeen
  <2> QED BY <1>1, <2>1, StatusWrites, OnlyReconcilesBuild
<1>2. (TypeOK /\ FinalizerInv /\ StatusInv) /\ [Next]_vars
         => (vc.exists /\ vc.st.phase = "Terminating" =>
                /\ vc'.exists => vc'.st.phase = "Terminating"
                /\ \A c \in Components : sts'[c].exists => sts[c].exists)
  BY <1>1
<1> QED BY <1>2, StatusAlways, PTL DEF Spec, TerminatingIsFinal

\* The volume claims of a living cluster that nobody deletes stay: not even the
\* teardown of an earlier cluster of its name, still on its way, takes them.
THEOREM DataAlwaysOutlives == Spec => DataOutlivesEverythingButDeletion
<1>1. ASSUME TypeOK, FinalizerInv, StatusInv, [Next]_vars,
             data # 0, data' # data, vc.exists, ~vc.deleting
      PROVE  data # vc.uid
  <2>1. ~User /\ ~CacheSync /\ ~Restart /\ ~UNCHANGED vars
    BY <1>1 DEF User, Create, SetSleep, SetVersion, Delete, UserWrites, CacheSync, Restart, vars
  <2>2. \A c \in Components : ~Kubernetes(c) /\ ~PodFail(c)
    BY <1>1 DEF Kubernetes, PodStart, PodStop, PodRoll, PublishReady, CollectGarbage, PodFail
  <2>3. ~MidReconcile
    BY <1>1 DEF MidReconcile, Gate, ReconcileEtcd, ReconcileSyncer, SleepVirtualWorkloads,
       NamespacedWorkloads, ReconcileAccess, ReconcileComponents
  <2>4. CleanUp
    BY <1>1, <2>1, <2>2, <2>3 DEF Next, Worker, MidReconcile, AddFinalizer, Fetch,
       DegradedUpdate, UpdateStatus, MarkTerminating, RemoveFinalizer
  <2>5. rec.vc.exists /\ rec.vc.deleting /\ rec.pc # "idle"
    BY <1>1, <2>4 DEF CleanUp, StatusInv, CopiesInOrder, CopiesOfTheLiving, TearingDown
  <2>6. rec.vc.uid # vc.uid
    BY <1>1, <2>5 DEF StatusInv, CopiesInOrder, Follows
  <2> QED BY <1>1, <2>5, <2>6 DEF StatusInv, BuiltAfterSeen
<1>2. (TypeOK /\ FinalizerInv /\ StatusInv) /\ [Next]_vars
         => (data # 0 /\ data' # data => \/ ~vc.exists \/ vc.deleting
                                         \/ data # vc.uid)
  BY <1>1
<1> QED BY <1>2, StatusAlways, PTL DEF Spec, DataOutlivesEverythingButDeletion
=============================================================================
