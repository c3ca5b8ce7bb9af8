-------------------------------- MODULE SleepWake --------------------------------
(***************************************************************************)
(* Putting a cluster to sleep and waking it, one workload at a time.  The  *)
(* operator scales every tenant Deployment and StatefulSet to zero and     *)
(* keeps the replica count in an annotation of the workload; waking puts   *)
(* it back.  Meanwhile tenants scale workloads, users change their minds,  *)
(* and every call may fail, its error ignored.                             *)
(*                                                                         *)
(* In a virtual cluster the workloads live in a guest API server that is   *)
(* itself scaled away, and their pods on the host; a namespaced cluster    *)
(* has its workloads on the host.                                          *)
(***************************************************************************)
EXTENDS Integers, FiniteSets

CONSTANTS
    Workloads,
    MaxReplicas,
    None,         \* no annotation
    MaxEdits,     \* bound: changes of mind and scalings by tenants
    MaxFaults     \* bound: failed calls, timeouts, restarts

ASSUME ReplicaAssumption == MaxReplicas \in Nat \ {0} /\ None \notin Nat
ASSUME BoundAssumption == MaxEdits \in Nat /\ MaxFaults \in Nat

VARIABLES
    namespaced,   \* spec.clusterType
    sleep,        \* spec.paused or spec.lifecycle.sleep
    load,         \* the workloads: replicas and the pre-sleep annotation
    intent,       \* the count a tenant last chose, not counting what was
                  \* chosen for a workload that is put to sleep
    pods,         \* workloads with pods on the host
    scaled,       \* are the control plane's StatefulSets scaled up?
    serving,      \* does the guest API server answer?
    op,           \* the worker
    edits, faults

vars == <<namespaced, sleep, load, intent, pods, scaled, serving, op, edits, faults>>
cluster == <<namespaced, sleep, scaled, serving>>

Replicas == 0..MaxReplicas
Load == [rep : Replicas, ann : (1..MaxReplicas) \cup {None}]

Steps == {"idle", "list", "scale", "pods", "down", "last", "up"}
NoneHeld == [w \in {} |-> {}]
Idle == [pc |-> "idle", sleep |-> FALSE, held |-> NoneHeld]

Init ==
    /\ namespaced \in BOOLEAN
    /\ sleep = FALSE
    /\ load \in [Workloads -> [rep : Replicas, ann : {None}]]
    /\ intent = [w \in Workloads |-> load[w].rep]
    /\ pods = {w \in Workloads : load[w].rep > 0}
    /\ scaled = TRUE
    /\ serving = TRUE
    /\ op = Idle
    /\ edits = 0 /\ faults = 0

Fault == faults < MaxFaults /\ faults' = faults + 1
NoFault == UNCHANGED faults
Either(fault) == IF fault THEN Fault ELSE NoFault
Edit == edits < MaxEdits /\ edits' = edits + 1

\* The API server that holds the workloads answers.
Reachable == namespaced \/ serving

-----------------------------------------------------------------------------
(* Users and tenants.                                                      *)

SetSleep ==
    /\ Edit
    /\ sleep' = ~sleep
    /\ UNCHANGED <<namespaced, load, intent, pods, scaled, serving, op, faults>>

TenantScale(w) ==
    /\ Edit
    /\ Reachable
    /\ \E k \in Replicas \ {load[w].rep} :
          /\ load' = [load EXCEPT ![w].rep = k]
          /\ intent' = IF load[w].ann = None THEN [intent EXCEPT ![w] = k] ELSE intent
    /\ UNCHANGED <<cluster, pods, op, faults>>

-----------------------------------------------------------------------------
(* The operator.                                                           *)

Goto(pc) == op' = [op EXCEPT !.pc = pc, !.held = NoneHeld]

Fetch ==
    /\ op.pc = "idle"
    /\ op' = [Idle EXCEPT !.pc = IF namespaced \/ sleep THEN "list" ELSE "up",
                          !.sleep = sleep]
    /\ UNCHANGED <<cluster, load, intent, pods, edits, faults>>

\* What is left to do once the workloads are dealt with.
AfterScaling == IF op.sleep /\ ~namespaced THEN "pods" ELSE "idle"

\* Mutation: a workload at zero is put to sleep as well.
SelectedAll == {w \in Workloads : op.sleep \/ load[w].ann # None}
\* Mutation: only what is at zero is woken.
SelectedAtZero == {w \in Workloads : IF op.sleep THEN load[w].rep > 0
                                     ELSE load[w].ann # None /\ load[w].rep = 0}
Selected == {w \in Workloads : IF op.sleep THEN load[w].rep > 0
                               ELSE load[w].ann # None}

\* Mutation: a guest that does not answer ends the reconcile.
ListOrGiveUp ==
    /\ op.pc = "list"
    /\ \/ /\ Reachable
          /\ \E listed \in SUBSET Selected :
                /\ Either(listed # Selected)
                /\ op' = [op EXCEPT !.pc = "scale", !.held = [w \in listed |-> load[w]]]
       \/ /\ Either(Reachable)
          /\ Goto("idle")
    /\ UNCHANGED <<cluster, load, intent, pods, edits>>

\* Deployments and StatefulSets are listed one kind and namespace at a time, and
\* a list that fails is skipped.
ListWorkloads ==
    /\ op.pc = "list"
    /\ \/ /\ Reachable
          /\ \E listed \in SUBSET Selected :
                /\ Either(listed # Selected)
                /\ op' = [op EXCEPT !.pc = "scale", !.held = [w \in listed |-> load[w]]]
       \/ /\ Either(Reachable)
          /\ Goto(AfterScaling)
    /\ UNCHANGED <<cluster, load, intent, pods, edits>>

\* An annotation that is there already is kept: the workload was scaled up again
\* while asleep.
Slept(l) == [rep |-> 0, ann |-> IF l.ann = None THEN l.rep ELSE l.ann]
Woken(l) == [rep |-> l.ann, ann |-> None]
Scaled(l) == IF op.sleep THEN Slept(l) ELSE Woken(l)

\* Mutation: the update is a patch, which no version protects.
CurrentOrNot(w) == Reachable
\* The API server refuses an update of a workload that changed since it was read.
Current(w) == Reachable /\ load[w] = op.held[w]

UpdateWorkload(w) ==
    /\ op.pc = "scale"
    /\ w \in DOMAIN op.held
    /\ \/ /\ Current(w)
          /\ NoFault
          /\ load' = [load EXCEPT ![w] = Scaled(op.held[w])]
       \/ /\ Either(Current(w))
          /\ load' = load
    /\ op' = [op EXCEPT !.held = [v \in DOMAIN op.held \ {w} |-> op.held[v]]]
    /\ UNCHANGED <<cluster, intent, pods, edits>>

ScalingDone ==
    /\ op.pc = "scale"
    /\ DOMAIN op.held = {}
    /\ Goto(AfterScaling)
    /\ UNCHANGED <<cluster, load, intent, pods, edits, faults>>

\* Once before the control plane goes, once after.
CleanUpHostPods ==
    /\ op.pc \in {"pods", "last"}
    /\ \E kept \in SUBSET pods : Either(kept # {}) /\ pods' = kept
    /\ Goto(IF op.pc = "pods" THEN "down" ELSE "idle")
    /\ UNCHANGED <<cluster, load, intent, edits>>

\* Syncer, then etcd; errors are ignored.
ScaleDown ==
    /\ op.pc = "down"
    /\ \/ NoFault /\ scaled' = FALSE
       \/ Fault /\ scaled' = scaled
    /\ Goto("last")
    /\ UNCHANGED <<namespaced, sleep, serving, load, intent, pods, edits>>

\* Workloads are woken once the control plane is judged ready, by ready counts
\* that may be those of before the sleep.
ScaleUp ==
    /\ op.pc = "up"
    /\ \E written, ready \in BOOLEAN :
          /\ Either(~written \/ (serving /\ ~ready))
          /\ scaled' = (scaled \/ written)
          /\ Goto(IF ready THEN "list" ELSE "idle")
    /\ UNCHANGED <<namespaced, sleep, serving, load, intent, pods, edits>>

\* The calls to the guest share a deadline of three or four seconds.
Timeout ==
    /\ op.pc = "scale" /\ ~namespaced
    /\ Fault
    /\ Goto(AfterScaling)
    /\ UNCHANGED <<cluster, load, intent, pods, edits>>

Restart ==
    /\ op.pc # "idle"
    /\ Fault
    /\ op' = Idle
    /\ UNCHANGED <<cluster, load, intent, pods, edits>>

-----------------------------------------------------------------------------
(* Kubernetes, on the host and in the guest.                               *)

ControlPlane ==
    /\ serving # scaled
    /\ serving' = scaled
    /\ UNCHANGED <<namespaced, sleep, scaled, load, intent, pods, op, edits, faults>>

Outage ==
    /\ serving
    /\ Fault
    /\ serving' = FALSE
    /\ UNCHANGED <<namespaced, sleep, scaled, load, intent, pods, op, edits>>

SyncPods(w) ==
    /\ Reachable
    /\ (w \in pods) # (load[w].rep > 0)
    /\ pods' = IF load[w].rep > 0 THEN pods \cup {w} ELSE pods \ {w}
    /\ UNCHANGED <<cluster, load, intent, op, edits, faults>>

-----------------------------------------------------------------------------
Worker ==
    \/ Fetch \/ ListWorkloads \/ ScalingDone
    \/ CleanUpHostPods \/ ScaleDown \/ ScaleUp
    \/ \E w \in Workloads : UpdateWorkload(w)

Next ==
    \/ SetSleep \/ \E w \in Workloads : TenantScale(w)
    \/ Worker \/ Timeout \/ Restart
    \/ ControlPlane \/ Outage
    \/ \E w \in Workloads : SyncPods(w)

Spec == Init /\ [][Next]_vars

\* The reconcile is queued again after 10 or 30 seconds, asleep or awake.
FairSpec ==
    /\ Spec
    /\ WF_vars(Worker) /\ WF_vars(ControlPlane)
    /\ \A w \in Workloads : WF_vars(SyncPods(w))
-----------------------------------------------------------------------------
(* Properties.                                                             *)

\* Every variable stays in its type; in particular the annotation never says zero,
\* which waking would turn into one.
TypeOK ==
    /\ namespaced \in BOOLEAN /\ sleep \in BOOLEAN
    /\ load \in [Workloads -> Load]
    /\ intent \in [Workloads -> Replicas]
    /\ pods \subseteq Workloads
    /\ scaled \in BOOLEAN /\ serving \in BOOLEAN
    /\ op.pc \in Steps /\ op.sleep \in BOOLEAN
    /\ DOMAIN op.held \subseteq Workloads
    /\ \A w \in DOMAIN op.held : op.held[w] \in Load
    /\ edits \in 0..MaxEdits /\ faults \in 0..MaxFaults

\* However sleep and wake are interrupted, repeated and mixed with the tenants'
\* own scaling, the count a tenant chose is never lost: it is the annotation of a
\* workload that has one, and the replicas of one that has none.
NothingForgotten ==
    \A w \in Workloads :
        intent[w] = IF load[w].ann = None THEN load[w].rep ELSE load[w].ann

\* A cluster that is to sleep ends up with no pod of a tenant on the host, though
\* its guest API server went away before all workloads were scaled down.
SleepIsQuiet == <>[](sleep => pods = {})

\* A cluster that is to be awake ends up with every workload at the count its
\* tenant chose, and no annotation left to put an older count back later.
WakeRestores ==
    <>[](~sleep => \A w \in Workloads :
            /\ load[w] = [rep |-> intent[w], ann |-> None]
            /\ (w \in pods) = (intent[w] > 0))
=============================================================================
