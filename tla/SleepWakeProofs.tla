----------------------------- MODULE SleepWakeProofs -----------------------------
(***************************************************************************)
(* No replica count is forgotten, for any workloads, counts and number of  *)
(* edits and failures: every update of a workload starts from its current  *)
(* state, and a workload is only put to sleep when it runs, and only woken *)
(* when it says what it was.                                               *)
(***************************************************************************)
EXTENDS SleepWake, TLAPS

\* What the worker holds of the workloads it listed: each is one it may scale.
OpShape ==
    /\ op = [pc |-> op.pc, sleep |-> op.sleep, held |-> op.held]
    /\ op.held = [w \in DOMAIN op.held |-> op.held[w]]
HeldFits ==
    \A w \in DOMAIN op.held :
        IF op.sleep THEN op.held[w].rep > 0 ELSE op.held[w].ann # None

SleepInv == TypeOK /\ NothingForgotten /\ OpShape /\ HeldFits

\* The part of the invariant about the worker, and the part about the workloads.
OpInv ==
    /\ op.pc \in Steps /\ op.sleep \in BOOLEAN
    /\ DOMAIN op.held \subseteq Workloads
    /\ \A w \in DOMAIN op.held : op.held[w] \in Load
    /\ OpShape /\ HeldFits
LoadInv ==
    /\ load \in [Workloads -> Load]
    /\ intent \in [Workloads -> Replicas]
    /\ NothingForgotten
RestInv ==
    /\ namespaced \in BOOLEAN /\ sleep \in BOOLEAN
    /\ pods \subseteq Workloads
    /\ scaled \in BOOLEAN /\ serving \in BOOLEAN
    /\ edits \in 0..MaxEdits /\ faults \in 0..MaxFaults

LEMMA Parts == SleepInv <=> OpInv /\ LoadInv /\ RestInv
BY Zenon DEF SleepInv, OpInv, LoadInv, RestInv, TypeOK

LEMMA LoadFields ==
    /\ \A l \in Load : l.rep \in 0..MaxReplicas /\ (l.ann \in 1..MaxReplicas \/ l.ann = None)
    /\ \A r \in 0..MaxReplicas, a \in (1..MaxReplicas) \cup {None} : [rep |-> r, ann |-> a] \in Load
BY DEF Load, Replicas

\* Goto moves the worker and lets go of what it held.
LEMMA GotoKeeps ==
    ASSUME OpInv, NEW pc \in Steps, Goto(pc)
    PROVE  OpInv'
<1>1. op' = [pc |-> pc, sleep |-> op.sleep, held |-> NoneHeld]
  BY DEF Goto, OpInv, OpShape
<1>2. op'.pc = pc /\ op'.sleep = op.sleep /\ op'.held = NoneHeld /\ DOMAIN op'.held = {}
  BY <1>1 DEF NoneHeld
<1>3. OpShape'
  BY <1>1, <1>2 DEF OpShape, NoneHeld
<1> QED
  BY <1>2, <1>3 DEF OpInv, HeldFits

LEMMA IdleFits ==
    ASSUME op' = Idle
    PROVE  OpInv'
<1>1. op'.pc = "idle" /\ op'.sleep = FALSE /\ op'.held = NoneHeld /\ DOMAIN op'.held = {}
  BY DEF Idle, NoneHeld
<1>2. OpShape'
  BY <1>1 DEF OpShape, Idle, NoneHeld
<1> QED
  BY <1>1, <1>2 DEF OpInv, HeldFits, Steps

LEMMA InvInit == Init => SleepInv
<1> SUFFICES ASSUME Init PROVE OpInv /\ LoadInv /\ RestInv
  BY Parts
<1>1. OpInv
  <2>1. op.pc = "idle" /\ op.sleep = FALSE /\ op.held = NoneHeld /\ DOMAIN op.held = {}
    BY DEF Init, Idle, NoneHeld
  <2>2. OpShape
    BY <2>1 DEF OpShape, Init, Idle, NoneHeld
  <2> QED
    BY <2>1, <2>2 DEF OpInv, HeldFits, Steps
<1>2. LoadInv
  <2>1. load \in [Workloads -> [rep : Replicas, ann : {None}]]
    BY DEF Init
  <2>2. load \in [Workloads -> Load]
    BY <2>1 DEF Load
  <2>3. intent \in [Workloads -> Replicas]
    BY <2>1 DEF Init
  <2> QED
    BY <2>1, <2>2, <2>3 DEF LoadInv, NothingForgotten, Init
<1>3. RestInv
  <2>1. edits \in 0..MaxEdits /\ faults \in 0..MaxFaults
    BY BoundAssumption DEF Init
  <2>2. pods \subseteq Workloads
    BY DEF Init
  <2> QED
    BY <2>1, <2>2 DEF Init, RestInv
<1> QED
  BY <1>1, <1>2, <1>3

-----------------------------------------------------------------------------
(* The worker's steps.                                                     *)

LEMMA FetchStep ==
    ASSUME SleepInv, Fetch
    PROVE  OpInv'
<1>1. PICK p \in {"list", "up"} : op' = [pc |-> p, sleep |-> sleep, held |-> NoneHeld]
  BY DEF Fetch, Idle
<1>2. op'.pc = p /\ op'.sleep = sleep /\ op'.held = NoneHeld /\ DOMAIN op'.held = {}
  BY <1>1 DEF NoneHeld
<1>3. OpShape'
  BY <1>1, <1>2 DEF OpShape, NoneHeld
<1> QED
  BY <1>2, <1>3 DEF OpInv, HeldFits, Steps, SleepInv, TypeOK

LEMMA AfterScalingStep == AfterScaling \in Steps
BY DEF AfterScaling, Steps

LEMMA ListStep ==
    ASSUME SleepInv, ListWorkloads
    PROVE  OpInv'
<1>1. OpInv
  BY Parts
<1>2. CASE Goto(AfterScaling)
  BY <1>1, <1>2, AfterScalingStep, GotoKeeps
<1>3. ASSUME NEW listed \in SUBSET Selected,
             op' = [op EXCEPT !.pc = "scale", !.held = [w \in listed |-> load[w]]]
      PROVE  OpInv'
  <2>1. op' = [pc |-> "scale", sleep |-> op.sleep, held |-> [w \in listed |-> load[w]]]
    BY <1>1, <1>3 DEF OpInv, OpShape
  <2>2. op'.pc = "scale" /\ op'.sleep = op.sleep /\ DOMAIN op'.held = listed
    BY <2>1
  <2>3. \A w \in listed : op'.held[w] = load[w]
    BY <2>1
  <2>4. OpShape'
    BY <2>1, <2>2, <2>3 DEF OpShape
  <2>5. listed \subseteq Workloads
    BY <1>3 DEF Selected
  <2>6. HeldFits'
    BY <1>3, <2>2, <2>3 DEF HeldFits, Selected
  <2> QED
    BY <1>1, <2>2, <2>3, <2>4, <2>5, <2>6 DEF OpInv, Steps, SleepInv, TypeOK
<1> QED
  BY <1>2, <1>3 DEF ListWorkloads

\* The heart of the matter: an update of a workload that has not changed since it
\* was listed keeps what its tenant chose.
LEMMA UpdateKeepsLoad ==
    ASSUME SleepInv, NEW w \in Workloads, w \in DOMAIN op.held,
           load[w] = op.held[w], load' = [load EXCEPT ![w] = Scaled(op.held[w])],
           intent' = intent
    PROVE  LoadInv'
<1> DEFINE l == load[w]
<1>1. l \in Load /\ (IF op.sleep THEN l.rep > 0 ELSE l.ann # None)
  BY DEF SleepInv, TypeOK, HeldFits
<1>2. /\ Scaled(l) \in Load
      /\ (IF Scaled(l).ann = None THEN Scaled(l).rep ELSE Scaled(l).ann)
           = (IF l.ann = None THEN l.rep ELSE l.ann)
  <2>1. CASE op.sleep
    <3>1. Scaled(l) = [rep |-> 0, ann |-> IF l.ann = None THEN l.rep ELSE l.ann]
      BY <2>1 DEF Scaled, Slept
    <3>2. l.rep \in 1..MaxReplicas /\ l.rep # None
      BY <1>1, <2>1, LoadFields, ReplicaAssumption
    <3>3. Scaled(l) \in Load
      BY <1>1, <3>1, <3>2, LoadFields, ReplicaAssumption
    <3> QED
      BY <3>1, <3>2, <3>3
  <2>2. CASE ~op.sleep
    <3>1. Scaled(l) = [rep |-> l.ann, ann |-> None]
      BY <2>2 DEF Scaled, Woken
    <3>2. l.ann \in 0..MaxReplicas
      BY <1>1, <2>2, LoadFields
    <3>3. Scaled(l) \in Load
      BY <3>1, <3>2, LoadFields
    <3> QED
      BY <1>1, <2>2, <3>1, <3>3
  <2> QED
    BY <2>1, <2>2
<1>3. load' \in [Workloads -> Load] /\ load'[w] = Scaled(l)
  BY <1>2 DEF SleepInv, TypeOK
<1>4. \A v \in Workloads \ {w} : load'[v] = load[v]
  BY DEF SleepInv, TypeOK
<1>5. NothingForgotten'
  BY <1>2, <1>3, <1>4 DEF SleepInv, NothingForgotten
<1> QED
  BY <1>3, <1>5 DEF LoadInv, SleepInv, TypeOK

LEMMA UpdateStep ==
    ASSUME SleepInv, NEW w \in Workloads, UpdateWorkload(w)
    PROVE  OpInv' /\ LoadInv'
<1>1. OpInv /\ LoadInv
  BY Parts
<1>2. OpInv'
  <2> DEFINE D == DOMAIN op.held \ {w}
  <2>1. op' = [pc |-> op.pc, sleep |-> op.sleep, held |-> [v \in D |-> op.held[v]]]
    BY <1>1 DEF UpdateWorkload, OpInv, OpShape
  <2>2. op'.pc = op.pc /\ op'.sleep = op.sleep /\ DOMAIN op'.held = D
    BY <2>1
  <2>3. \A v \in D : op'.held[v] = op.held[v]
    BY <2>1
  <2>4. OpShape'
    BY <2>1, <2>2, <2>3 DEF OpShape
  <2> QED
    BY <1>1, <2>2, <2>3, <2>4 DEF OpInv, HeldFits
<1>3. LoadInv'
  <2>1. CASE load' = load
    BY <1>1, <2>1 DEF UpdateWorkload, LoadInv, NothingForgotten
  <2>2. CASE Current(w) /\ load' = [load EXCEPT ![w] = Scaled(op.held[w])]
    BY <2>2, UpdateKeepsLoad DEF UpdateWorkload, Current
  <2> QED
    BY <2>1, <2>2 DEF UpdateWorkload
<1> QED
  BY <1>2, <1>3

LEMMA WorkerStep ==
    ASSUME SleepInv, Worker \/ Timeout \/ Restart
    PROVE  OpInv' /\ LoadInv'
<1>1. OpInv /\ LoadInv
  BY Parts
<1>2. ASSUME UNCHANGED <<load, intent>> PROVE LoadInv'
  BY <1>1, <1>2 DEF LoadInv, NothingForgotten
<1>3. CASE Fetch
  BY <1>2, <1>3, FetchStep DEF Fetch
<1>4. CASE ListWorkloads
  BY <1>2, <1>4, ListStep DEF ListWorkloads
<1>5. CASE ScalingDone \/ Timeout
  BY <1>1, <1>2, <1>5, AfterScalingStep, GotoKeeps DEF ScalingDone, Timeout
<1>6. CASE CleanUpHostPods
  <2>1. (IF op.pc = "pods" THEN "down" ELSE "idle") \in Steps
    BY DEF Steps
  <2> QED
    BY <1>1, <1>2, <1>6, <2>1, GotoKeeps DEF CleanUpHostPods
<1>7. CASE ScaleDown
  <2>1. "last" \in Steps
    BY DEF Steps
  <2> QED
    BY <1>1, <1>2, <1>7, <2>1, GotoKeeps DEF ScaleDown
<1>8. CASE ScaleUp
  <2>1. PICK ready \in BOOLEAN : Goto(IF ready THEN "list" ELSE "idle")
    BY <1>8 DEF ScaleUp
  <2>2. (IF ready THEN "list" ELSE "idle") \in Steps
    BY DEF Steps
  <2> QED
    BY <1>1, <1>2, <1>8, <2>1, <2>2, GotoKeeps DEF ScaleUp
<1>9. CASE Restart
  BY <1>2, <1>9, IdleFits DEF Restart
<1>10. CASE \E w \in Workloads : UpdateWorkload(w)
  BY <1>10, UpdateStep
<1> QED
  BY <1>3, <1>4, <1>5, <1>6, <1>7, <1>8, <1>9, <1>10 DEF Worker

-----------------------------------------------------------------------------
(* Everybody else's, and the variables that only count or switch.          *)

LEMMA TenantStep ==
    ASSUME SleepInv, NEW w \in Workloads, TenantScale(w)
    PROVE  LoadInv'
<1>1. PICK k \in Replicas :
        /\ load' = [load EXCEPT ![w].rep = k]
        /\ intent' = IF load[w].ann = None THEN [intent EXCEPT ![w] = k] ELSE intent
  BY DEF TenantScale
<1>2. load \in [Workloads -> Load] /\ intent \in [Workloads -> Replicas]
  BY DEF SleepInv, TypeOK
<1>3. k \in 0..MaxReplicas /\ [rep |-> k, ann |-> load[w].ann] \in Load
  BY <1>1, <1>2 DEF Load, Replicas
<1>4. load'[w] = [rep |-> k, ann |-> load[w].ann]
  <2>1. load[w] = [rep |-> load[w].rep, ann |-> load[w].ann]
    BY <1>2 DEF Load
  <2>2. load'[w] = [load[w] EXCEPT !.rep = k]
    BY <1>1, <1>2
  <2> QED
    BY <2>1, <2>2
<1>5. \A v \in Workloads \ {w} : load'[v] = load[v] /\ intent'[v] = intent[v]
  BY <1>1, <1>2
<1>6. intent' \in [Workloads -> Replicas]
  BY <1>1, <1>2
<1>7. load' \in [Workloads -> Load]
  <2>1. load' = [v \in Workloads |-> load'[v]]
    BY <1>1, <1>2
  <2> QED
    BY <1>2, <1>3, <1>4, <1>5, <2>1
<1>8. NothingForgotten'
  <2>1. intent'[w] = IF load[w].ann = None THEN k ELSE intent[w]
    BY <1>1, <1>2
  <2> QED
    BY <1>4, <1>5, <2>1 DEF SleepInv, NothingForgotten
<1> QED
  BY <1>6, <1>7, <1>8 DEF LoadInv

LEMMA RestStep ==
    ASSUME SleepInv, [Next]_vars
    PROVE  RestInv'
<1>1. RestInv
  BY Parts
<1>2. edits' \in 0..MaxEdits
  <2>1. Edit \/ UNCHANGED edits
    BY DEF Next, Worker, vars, SetSleep, TenantScale, Fetch, ListWorkloads,
       ScalingDone, CleanUpHostPods, ScaleDown, ScaleUp, UpdateWorkload, Timeout, Restart,
       ControlPlane, Outage, SyncPods
  <2> QED
    BY <1>1, <2>1, BoundAssumption DEF RestInv, Edit
<1>3. faults' \in 0..MaxFaults
  <2>1. Fault \/ UNCHANGED faults
    BY DEF Next, Worker, vars, SetSleep, TenantScale, Fetch, ListWorkloads,
       ScalingDone, CleanUpHostPods, ScaleDown, ScaleUp, UpdateWorkload, Timeout, Restart,
       ControlPlane, Outage, SyncPods,
       Either, NoFault
  <2> QED
    BY <1>1, <2>1, BoundAssumption DEF RestInv, Fault
<1>4. pods' \subseteq Workloads
  BY <1>1 DEF RestInv, Next, Worker, vars, SetSleep, TenantScale, Fetch, ListWorkloads,
     ScalingDone, CleanUpHostPods, ScaleDown, ScaleUp, UpdateWorkload, Timeout, Restart,
     ControlPlane, Outage, SyncPods
<1>5. namespaced' \in BOOLEAN /\ sleep' \in BOOLEAN
  BY <1>1 DEF RestInv, Next, Worker, vars, cluster, SetSleep, TenantScale, Fetch, ListWorkloads,
     ScalingDone, CleanUpHostPods, ScaleDown, ScaleUp, UpdateWorkload, Timeout, Restart,
     ControlPlane, Outage, SyncPods
<1>6. scaled' \in BOOLEAN
  <2>1. CASE ScaleUp
    BY <1>1, <2>1 DEF RestInv, ScaleUp
  <2>2. CASE ~ScaleUp
    BY <1>1, <2>2 DEF RestInv, Next, Worker, vars, cluster, SetSleep, TenantScale, Fetch,
       ListWorkloads, ScalingDone, CleanUpHostPods, ScaleDown, UpdateWorkload, Timeout,
       Restart, ControlPlane, Outage, SyncPods
  <2> QED
    BY <2>1, <2>2
<1>7. serving' \in BOOLEAN
  BY <1>1 DEF RestInv, Next, Worker, vars, cluster, SetSleep, TenantScale, Fetch, ListWorkloads,
     ScalingDone, CleanUpHostPods, ScaleDown, ScaleUp, UpdateWorkload, Timeout, Restart,
     ControlPlane, Outage, SyncPods
<1> QED
  BY <1>2, <1>3, <1>4, <1>5, <1>6, <1>7 DEF RestInv

LEMMA InvStep == SleepInv /\ [Next]_vars => SleepInv'
<1> SUFFICES ASSUME SleepInv, [Next]_vars PROVE OpInv' /\ LoadInv'
  <2>1. SleepInv' <=> OpInv' /\ LoadInv' /\ RestInv'
    BY Zenon DEF SleepInv, OpInv, LoadInv, RestInv, TypeOK
  <2> QED
    BY <2>1, RestStep
<1>1. OpInv /\ LoadInv
  BY Parts
<1>2. ASSUME UNCHANGED <<load, intent>> PROVE LoadInv'
  BY <1>1, <1>2 DEF LoadInv, NothingForgotten
<1>3. ASSUME UNCHANGED op PROVE OpInv'
  BY <1>1, <1>3 DEF OpInv, OpShape, HeldFits
<1>4. CASE Worker \/ Timeout \/ Restart
  BY <1>4, WorkerStep
<1>5. CASE \E w \in Workloads : TenantScale(w)
  BY <1>3, <1>5, TenantStep DEF TenantScale
<1>6. CASE SetSleep \/ ControlPlane \/ Outage \/ UNCHANGED vars
  BY <1>2, <1>3, <1>6 DEF SetSleep, ControlPlane, Outage, vars
<1>7. CASE \E w \in Workloads : SyncPods(w)
  BY <1>2, <1>3, <1>7 DEF SyncPods
<1> QED
  BY <1>4, <1>5, <1>6, <1>7 DEF Next

LEMMA InvAlways == Spec => []SleepInv
BY InvInit, InvStep, PTL DEF Spec

\* Types, for any workloads and bounds: in particular an annotation is a positive
\* count, which the code's fallback to one replica relies on never needing.
THEOREM TypeCorrect == Spec => []TypeOK
<1>1. SleepInv => TypeOK
  BY DEF SleepInv
<1> QED
  BY <1>1, InvAlways, PTL

\* Whatever fails, and whenever, the count a tenant chose is in the annotation or
\* in the replicas of the workload.
THEOREM NothingIsForgotten == Spec => []NothingForgotten
<1>1. SleepInv => NothingForgotten
  BY DEF SleepInv
<1> QED
  BY <1>1, InvAlways, PTL
=============================================================================
