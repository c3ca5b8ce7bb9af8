------------------------ MODULE NamespaceTeardownProofs ------------------------
(***************************************************************************)
(* A teardown spares its neighbours, for any clusters, namespaces, plans,  *)
(* name clashes and number of failures: the verdict "dedicated" is safe    *)
(* although it is read from the informer's copy and used later.            *)
(***************************************************************************)
EXTENDS NamespaceTeardown, TLAPS

\* The informer is behind, never ahead: what carries a finalizer it has shown,
\* because the worker added it, and what it shows as deleted is not alive.
SeenIsPast ==
    /\ \A c \in Clusters : vcs[c].st = "new" => ~vcs[c].fin
    /\ \A c \in Clusters : vcs[c].fin => seen[c].st # "new"
    /\ \A c \in Clusters : seen[c].st \notin {"new", "live"} =>
                              vcs[c].st \notin {"new", "live"}

\* Only a cluster that is not there yet is about to be created.
PostedAreNew == \A c \in posted : vcs[c].st = "new"

\* Only what is being deleted is torn down.
TornDownIsDying ==
    op.pc \in {"sweep", "decide", "release", "drop"} => vcs[op.c].st \notin {"new", "live"}

\* The verdict, from the decision to its use.
VerdictHolds ==
    op.dedicated => \A d \in Clusters \ {op.c} : plan[d].home = plan[op.c].home => ~Built(d)

TeardownInv == TypeOK /\ SeenIsPast /\ PostedAreNew /\ TornDownIsDying /\ VerdictHolds

\* What the informer shows as free of other clusters holds none that was built.
LEMMA DedicatedIsUnbuilt ==
    ASSUME TypeOK, SeenIsPast, NEW c \in Clusters, Dedicated(c),
           NEW d \in Clusters \ {c}, plan[d].home = plan[c].home
    PROVE  ~Built(d)
<1>1. d \in Clusters /\ ~Shared(c, d)
  BY DEF Dedicated
<1>2. seen[d].st # "live"
  BY <1>1 DEF Shared
<1> QED
  BY <1>2 DEF SeenIsPast, Built, Live

LEMMA TypeInit == Init => TypeOK
<1> SUFFICES ASSUME Init PROVE TypeOK
  OBVIOUS
<1>1. vcs \in [Clusters -> VirtualCluster] /\ seen \in [Clusters -> VirtualCluster]
  BY DEF Init, VirtualCluster, States
<1>2. ns \in [Namespaces -> {"absent", "active", "terminating"}]
  BY DEF Init
<1>3. things \subseteq Thing /\ admin \in [Namespaces -> Clusters \cup {None}] /\ posted \subseteq Clusters
  BY DEF Init
<1>4. op \in Worker /\ op.pc = "idle" /\ ~op.dedicated
  BY DEF Init, Idle, Worker, Steps
<1>5. faults \in 0..MaxFaults
  BY BoundAssumption DEF Init
<1> QED
  BY <1>1, <1>2, <1>3, <1>4, <1>5 DEF Init, TypeOK

LEMMA InvInit == Init => TeardownInv
<1> SUFFICES ASSUME Init PROVE TeardownInv
  OBVIOUS
<1>1. TypeOK
  BY TypeInit
<1>2. \A c \in Clusters : vcs[c].st = "new" /\ ~vcs[c].fin /\ seen[c].st = "new"
  BY DEF Init
<1>3. op.pc = "idle" /\ ~op.dedicated /\ posted = {}
  BY DEF Init, Idle
<1> QED
  BY <1>1, <1>2, <1>3 DEF TeardownInv, SeenIsPast, PostedAreNew, TornDownIsDying, VerdictHolds

-----------------------------------------------------------------------------
LEMMA MovesOn ==
    ASSUME TypeOK, op.pc # "idle", NEW pc \in Steps \ {"idle"}, Goto(pc),
           op.dedicated => pc \in {"release", "drop"}
    PROVE  /\ op' \in Worker
           /\ op'.pc = pc /\ op'.c = op.c /\ op'.dedicated = op.dedicated
           /\ op'.c \in Clusters
           /\ op'.dedicated => op'.pc \in {"release", "drop"}
BY DEF TypeOK, Goto, Worker

LEMMA Rests ==
    ASSUME op' = Idle
    PROVE  op' \in Worker /\ op'.pc = "idle" /\ ~op'.dedicated
BY DEF Idle, Worker, Steps

LEMMA MarkedType ==
    ASSUME TypeOK, NEW c \in Clusters, Live(c), vcs' = [vcs EXCEPT ![c] = Marked(c)]
    PROVE  /\ vcs' \in [Clusters -> VirtualCluster]
           /\ vcs'[c].fin = vcs[c].fin
           /\ vcs'[c].st \in {"deleting", "gone"}
<1>1. vcs[c] \in VirtualCluster
  BY DEF TypeOK
<1>2. Marked(c) \in VirtualCluster /\ Marked(c).fin = vcs[c].fin /\ Marked(c).st \in {"deleting", "gone"}
  BY <1>1 DEF Marked, VirtualCluster, States
<1> QED
  BY <1>2 DEF TypeOK

LEMMA TypeStep == TypeOK /\ [Next]_vars => TypeOK'
<1> SUFFICES ASSUME TypeOK, [Next]_vars PROVE TypeOK'
  OBVIOUS
<1> USE BoundAssumption
<1>f. Fault => faults' \in 0..MaxFaults
  BY DEF TypeOK, Fault
<1>n. NoFault => faults' \in 0..MaxFaults
  BY DEF TypeOK, NoFault
<1>e. \A b \in BOOLEAN : Either(b) => faults' \in 0..MaxFaults
  BY <1>f, <1>n DEF Either
<1>1. ASSUME NEW c \in Clusters, PostNamespaces(c) PROVE TypeOK'
  BY <1>1 DEF TypeOK, PostNamespaces
<1>2. ASSUME NEW c \in Clusters, PostCluster(c) PROVE TypeOK'
  <2>1. vcs' \in [Clusters -> VirtualCluster]
    BY <1>2 DEF TypeOK, PostCluster, VirtualCluster, States
  <2> QED
    BY <1>2, <2>1 DEF TypeOK, PostCluster
<1>3. ASSUME NEW c \in Clusters, UserDelete(c) PROVE TypeOK'
  <2>1. vcs' \in [Clusters -> VirtualCluster]
    BY <1>3, MarkedType DEF UserDelete
  <2> QED
    BY <1>3, <2>1 DEF TypeOK, UserDelete
<1>4. ASSUME NEW c \in Clusters, EvictCluster(c) PROVE TypeOK'
  <2>1. vcs' \in [Clusters -> VirtualCluster]
    BY <1>4, MarkedType DEF EvictCluster
  <2> QED
    BY <1>4, <2>1 DEF TypeOK, EvictCluster
<1>5. ASSUME NEW c \in Clusters, AddFinalizer(c) PROVE TypeOK'
  <2>1. vcs' \in [Clusters -> VirtualCluster]
    BY <1>5 DEF TypeOK, AddFinalizer, VirtualCluster
  <2> QED
    BY <1>5, <2>1 DEF TypeOK, AddFinalizer
<1>6. ASSUME NEW c \in Clusters, Fetch(c) PROVE TypeOK'
  <2>1. op' \in Worker /\ op'.c \in Clusters /\ ~op'.dedicated
    BY <1>6 DEF Fetch, Worker, Steps
  <2> QED
    BY <1>6, <2>1 DEF TypeOK, Fetch
<1>7. ASSUME NEW c \in Clusters, NEW n \in Namespaces, DeleteFallback(c, n) PROVE TypeOK'
  BY <1>7, <1>f DEF TypeOK, DeleteFallback
<1>8. CASE CacheSync
  BY <1>8 DEF TypeOK, CacheSync
<1>9. CASE Restart
  BY <1>9, <1>f, Rests DEF TypeOK, Restart
<1>10. CASE EnsureNamespaces
  <2>1. op.pc # "idle" /\ ~op.dedicated
    BY <1>10 DEF TypeOK, EnsureNamespaces
  <2>2. op' \in Worker /\ (op'.pc # "idle" => op'.c \in Clusters) /\ ~op'.dedicated
    <3>1. Goto("build") \/ Done
      BY <1>10 DEF EnsureNamespaces
    <3>2. "build" \in Steps \ {"idle"}
      BY DEF Steps
    <3> QED
      BY <2>1, <3>1, <3>2, MovesOn, Rests DEF Done
  <2>3. ns' \in [Namespaces -> {"absent", "active", "terminating"}] /\ faults' \in 0..MaxFaults
    BY <1>10, <1>f, <1>n DEF TypeOK, EnsureNamespaces
  <2> QED
    BY <1>10, <2>2, <2>3 DEF TypeOK, EnsureNamespaces
<1>11. CASE Build
  <2>1. op.pc = "build" /\ op.c \in Clusters /\ ~op.dedicated
    BY <1>11 DEF TypeOK, Build
  <2>2. Wanted(op.c) \subseteq Thing
    BY <2>1 DEF TypeOK, Wanted, Thing, Plan
  <2>3. things' \subseteq Thing /\ faults' \in 0..MaxFaults
    BY <1>11, <1>e, <2>2 DEF TypeOK, Build
  <2>4. op' \in Worker /\ (op'.pc # "idle" => op'.c \in Clusters) /\ ~op'.dedicated
    <3>1. Goto("grant") \/ Done
      BY <1>11 DEF Build
    <3>2. "grant" \in Steps \ {"idle"}
      BY DEF Steps
    <3> QED
      BY <2>1, <3>1, <3>2, MovesOn, Rests DEF Done
  <2> QED
    BY <1>11, <2>3, <2>4 DEF TypeOK, Build
<1>12. CASE Grant
  <2>1. op.c \in Clusters
    BY <1>12 DEF TypeOK, Grant
  <2>2. admin' \in [Namespaces -> Clusters \cup {None}] /\ faults' \in 0..MaxFaults
    BY <1>12, <1>e, <2>1 DEF TypeOK, Grant
  <2>3. op' \in Worker /\ op'.pc = "idle" /\ ~op'.dedicated
    BY <1>12, Rests DEF Grant, Done
  <2> QED
    BY <1>12, <2>2, <2>3 DEF TypeOK, Grant
<1>13. CASE Sweep
  <2>1. op.pc = "sweep" /\ ~op.dedicated /\ Goto("decide") /\ "decide" \in Steps \ {"idle"}
    BY <1>13 DEF TypeOK, Sweep, Steps
  <2>2. op' \in Worker /\ op'.c \in Clusters /\ ~op'.dedicated
    BY <2>1, MovesOn
  <2>3. /\ things' \subseteq Thing
        /\ admin' \in [Namespaces -> Clusters \cup {None}]
        /\ faults' \in 0..MaxFaults
    BY <1>13, <1>e DEF TypeOK, Sweep
  <2> QED
    BY <1>13, <2>2, <2>3 DEF TypeOK, Sweep
<1>14. CASE Decide
  <2>1. faults' \in 0..MaxFaults
    BY <1>14, <1>e DEF Decide
  <2>2. op' \in Worker /\ op'.pc = "release" /\ op'.c \in Clusters
    <3>1. op \in Worker /\ op.c \in Clusters
      BY <1>14 DEF TypeOK, Decide
    <3>2. PICK listed \in BOOLEAN :
            op' = [op EXCEPT !.pc = "release", !.dedicated = listed /\ Dedicated(op.c)]
      BY <1>14 DEF Decide
    <3>3. (listed /\ Dedicated(op.c)) \in BOOLEAN
      BY Zenon
    <3> QED
      BY <3>1, <3>2, <3>3 DEF Worker, Steps
  <2> QED
    BY <1>14, <2>1, <2>2 DEF TypeOK, Decide
<1>15. CASE RemoveFinalizer
  <2>1. op.pc = "release" /\ op.c \in Clusters /\ "drop" \in Steps \ {"idle"}
    BY <1>15 DEF TypeOK, RemoveFinalizer, Steps
  <2>2. vcs' \in [Clusters -> VirtualCluster]
    BY <1>15, <2>1 DEF TypeOK, RemoveFinalizer, VirtualCluster, States
  <2>3. faults' \in 0..MaxFaults
    BY <1>15, <1>e, <1>n DEF RemoveFinalizer
  <2>4. /\ op' \in Worker
        /\ op'.pc # "idle" => op'.c \in Clusters
        /\ op'.dedicated => op'.pc \in {"release", "drop"}
    <3>1. Goto("drop") \/ Done
      BY <1>15 DEF RemoveFinalizer
    <3> QED
      BY <2>1, <3>1, MovesOn, Rests DEF Done
  <2> QED
    BY <1>15, <2>2, <2>3, <2>4 DEF TypeOK, RemoveFinalizer
<1>16. CASE DropNamespace
  <2>1. ns' \in [Namespaces -> {"absent", "active", "terminating"}] /\ faults' \in 0..MaxFaults
    BY <1>16, <1>e DEF TypeOK, DropNamespace
  <2>2. op' \in Worker /\ op'.pc = "idle" /\ ~op'.dedicated
    BY <1>16, Rests DEF DropNamespace, Done
  <2> QED
    BY <1>16, <2>1, <2>2 DEF TypeOK, DropNamespace
<1>17. ASSUME NEW n \in Namespaces, NamespaceController(n) PROVE TypeOK'
  BY <1>17 DEF TypeOK, NamespaceController, EmptyNamespace, FinishNamespace
<1>18. CASE CollectGarbage
  BY <1>18 DEF TypeOK, CollectGarbage
<1>19. CASE UNCHANGED vars
  BY <1>19 DEF TypeOK, vars
<1> QED
  BY <1>1, <1>2, <1>3, <1>4, <1>5, <1>6, <1>7, <1>8, <1>9, <1>10, <1>11, <1>12, <1>13,
     <1>14, <1>15, <1>16, <1>17, <1>18, <1>19 DEF Next, Reconcile, Proceed

-----------------------------------------------------------------------------
\* A step that leaves the custom resources and the informer alone, and either
\* ends the reconcile or goes on with it and its verdict.
LEMMA QuietStep ==
    ASSUME TeardownInv, TypeOK',
           UNCHANGED <<vcs, seen, plan>>, \A c \in posted' \ posted : vcs[c].st = "new",
           \/ op' = Idle
           \/ /\ op'.c = op.c /\ op'.dedicated = op.dedicated
              /\ \/ op'.pc \notin {"sweep", "decide", "release", "drop"}
                 \/ op.pc \in {"sweep", "decide", "release", "drop"}
    PROVE  TeardownInv'
<1>1. SeenIsPast'
  BY DEF TeardownInv, SeenIsPast
<1>2. PostedAreNew'
  BY DEF TeardownInv, PostedAreNew
<1>3. TornDownIsDying'
  BY DEF TeardownInv, TornDownIsDying, Idle
<1>4. VerdictHolds'
  <2>1. CASE op' = Idle
    BY <2>1 DEF VerdictHolds, Idle
  <2>2. CASE op'.c = op.c /\ op'.dedicated = op.dedicated
    <3>1. op.dedicated =>
            \A d \in Clusters \ {op.c} : plan[d].home = plan[op.c].home => ~Built(d)
      BY DEF TeardownInv, VerdictHolds
    <3>2. \A d \in Clusters : Built(d)' = Built(d)
      BY DEF Built, Live
    <3> QED
      BY <2>2, <3>1, <3>2 DEF VerdictHolds
  <2> QED
    BY <2>1, <2>2
<1> QED
  BY <1>1, <1>2, <1>3, <1>4 DEF TeardownInv

\* A living cluster is marked for deletion, or gone.
LEMMA MarkStep ==
    ASSUME TeardownInv, TypeOK', NEW c \in Clusters, Live(c),
           vcs' = [vcs EXCEPT ![c] = Marked(c)],
           UNCHANGED <<seen, plan, posted, op>>
    PROVE  TeardownInv'
<1>1. vcs'[c].fin = vcs[c].fin /\ vcs'[c].st \in {"deleting", "gone"}
  BY MarkedType DEF TeardownInv
<1>2. \A d \in Clusters \ {c} : vcs'[d] = vcs[d]
  BY DEF TeardownInv, TypeOK
<1>3. SeenIsPast'
  BY <1>1, <1>2 DEF TeardownInv, SeenIsPast
<1>4. PostedAreNew'
  BY <1>2 DEF TeardownInv, PostedAreNew, Live, TypeOK
<1>5. TornDownIsDying'
  BY <1>1, <1>2 DEF TeardownInv, TornDownIsDying, TypeOK
<1>6. VerdictHolds'
  BY <1>1, <1>2 DEF TeardownInv, VerdictHolds, Built, Live
<1> QED
  BY <1>3, <1>4, <1>5, <1>6 DEF TeardownInv

LEMMA InvStep == TeardownInv /\ [Next]_vars => TeardownInv'
<1> SUFFICES ASSUME TeardownInv, [Next]_vars PROVE TeardownInv'
  OBVIOUS
<1>t. TypeOK'
  BY TypeStep DEF TeardownInv
<1>1. ASSUME NEW c \in Clusters, PostNamespaces(c) PROVE TeardownInv'
  <2>1. UNCHANGED <<vcs, seen, plan, op>> /\ posted' = posted \cup {c} /\ vcs[c].st = "new"
    BY <1>1 DEF PostNamespaces
  <2> QED
    BY <1>t, <2>1, QuietStep
<1>2. ASSUME NEW c \in Clusters, PostCluster(c) PROVE TeardownInv'
  <2>1. /\ vcs[c].st = "new" /\ ~vcs[c].fin
        /\ vcs'[c].st \in {"live", "gone"} /\ vcs'[c].fin = vcs[c].fin
        /\ \A d \in Clusters \ {c} : vcs'[d] = vcs[d]
        /\ UNCHANGED <<seen, plan, op>> /\ posted' = posted \ {c}
    BY <1>2 DEF PostCluster, TeardownInv, PostedAreNew, SeenIsPast, TypeOK, VirtualCluster
  <2>2. SeenIsPast'
    BY <2>1 DEF TeardownInv, SeenIsPast
  <2>3. PostedAreNew'
    BY <2>1 DEF TeardownInv, PostedAreNew, TypeOK
  <2>4. TornDownIsDying'
    BY <2>1 DEF TeardownInv, TornDownIsDying, TypeOK
  <2>5. VerdictHolds'
    BY <2>1 DEF TeardownInv, VerdictHolds, Built, Live
  <2> QED
    BY <1>t, <2>2, <2>3, <2>4, <2>5 DEF TeardownInv
<1>3. ASSUME NEW c \in Clusters, UserDelete(c) PROVE TeardownInv'
  BY <1>3, <1>t, MarkStep DEF UserDelete
<1>4. ASSUME NEW c \in Clusters, EvictCluster(c) PROVE TeardownInv'
  BY <1>4, <1>t, MarkStep DEF EvictCluster
<1>5. ASSUME NEW c \in Clusters, AddFinalizer(c) PROVE TeardownInv'
  <2>1. /\ op.pc = "idle" /\ ~op.dedicated
        /\ vcs[c].st = "live" /\ seen[c].st = "live" /\ vcs'[c].st = "live"
        /\ \A d \in Clusters \ {c} : vcs'[d] = vcs[d]
        /\ UNCHANGED <<seen, plan, posted, op>>
    BY <1>5 DEF AddFinalizer, TeardownInv, TypeOK, VirtualCluster
  <2>2. SeenIsPast'
    BY <2>1 DEF TeardownInv, SeenIsPast
  <2>3. PostedAreNew'
    BY <2>1 DEF TeardownInv, PostedAreNew, TypeOK
  <2> QED
    BY <1>t, <2>1, <2>2, <2>3 DEF TeardownInv, TornDownIsDying, VerdictHolds
<1>6. ASSUME NEW c \in Clusters, Fetch(c) PROVE TeardownInv'
  <2>1. /\ UNCHANGED <<vcs, seen, plan, posted>> /\ ~op'.dedicated /\ op'.c = c
        /\ op'.pc \in {"sweep", "build", "ensure"}
        /\ op'.pc = "sweep" => seen[c].st = "deleting"
    BY <1>6 DEF Fetch
  <2>2. TornDownIsDying'
    BY <2>1 DEF TeardownInv, SeenIsPast, TornDownIsDying
  <2> QED
    BY <1>t, <2>1, <2>2 DEF TeardownInv, SeenIsPast, PostedAreNew, VerdictHolds
<1>7. ASSUME NEW c \in Clusters, NEW n \in Namespaces, DeleteFallback(c, n) PROVE TeardownInv'
  BY <1>7, <1>t, QuietStep DEF DeleteFallback
<1>8. ASSUME seen' = vcs, UNCHANGED <<vcs, plan, posted>>, op' \in {op, Idle} PROVE TeardownInv'
  <2>1. SeenIsPast'
    BY <1>8 DEF TeardownInv, SeenIsPast
  <2> QED
    BY <1>8, <1>t, <2>1
       DEF TeardownInv, PostedAreNew, TornDownIsDying, VerdictHolds, Built, Live, Idle
<1>9. CASE EnsureNamespaces
  BY <1>9, <1>t, QuietStep DEF EnsureNamespaces, Goto, Done, TeardownInv, TypeOK, Worker
<1>10. CASE Build
  BY <1>10, <1>t, QuietStep DEF Build, Goto, Done, TeardownInv, TypeOK, Worker
<1>11. CASE Grant
  BY <1>11, <1>t, QuietStep DEF Grant, Done
<1>12. CASE Sweep
  BY <1>12, <1>t, QuietStep DEF Sweep, Goto, TeardownInv, TypeOK, Worker
<1>13. CASE Decide
  <2>1. /\ op.pc = "decide" /\ op.c \in Clusters /\ op'.c = op.c
        /\ op'.dedicated => Dedicated(op.c)
        /\ UNCHANGED <<vcs, seen, plan, posted>>
    BY <1>13 DEF Decide, TeardownInv, TypeOK, Worker
  <2>2. VerdictHolds'
    <3> SUFFICES ASSUME op'.dedicated, NEW d \in Clusters \ {op.c}, plan[d].home = plan[op.c].home
                 PROVE  ~Built(d)
      BY <2>1 DEF VerdictHolds, Built, Live
    <3> QED
      BY <2>1, DedicatedIsUnbuilt DEF TeardownInv
  <2>3. TornDownIsDying'
    BY <2>1 DEF TeardownInv, TornDownIsDying
  <2> QED
    BY <1>t, <2>1, <2>2, <2>3 DEF TeardownInv, SeenIsPast, PostedAreNew
<1>14. CASE RemoveFinalizer
  <2>1. CASE vcs' = vcs
    BY <1>14, <1>t, <2>1, QuietStep DEF RemoveFinalizer, Goto, Done, TeardownInv, TypeOK, Worker
  <2>2. CASE vcs' # vcs
    <3>1. /\ op.pc = "release" /\ op.c \in Clusters
          /\ vcs[op.c].st = "deleting" /\ vcs'[op.c].st = "released"
          /\ vcs'[op.c].fin = vcs[op.c].fin
          /\ \A d \in Clusters \ {op.c} : vcs'[d] = vcs[d]
          /\ UNCHANGED <<seen, plan, posted>>
          /\ op' = Idle \/ (op'.c = op.c /\ op'.dedicated = op.dedicated)
      BY <1>14, <2>2 DEF RemoveFinalizer, Goto, Done, TeardownInv, TypeOK, Worker, VirtualCluster
    <3>2. SeenIsPast'
      BY <3>1 DEF TeardownInv, SeenIsPast
    <3>3. PostedAreNew'
      BY <3>1 DEF TeardownInv, PostedAreNew, TypeOK
    <3>4. TornDownIsDying'
      BY <3>1 DEF TornDownIsDying, Idle
    <3>5. VerdictHolds'
      <4>1. CASE op' = Idle
        BY <4>1 DEF VerdictHolds, Idle
      <4>2. CASE op'.c = op.c /\ op'.dedicated = op.dedicated
        <5>1. op.dedicated =>
                \A d \in Clusters \ {op.c} : plan[d].home = plan[op.c].home => ~Built(d)
          BY DEF TeardownInv, VerdictHolds
        <5>2. \A d \in Clusters \ {op.c} : Built(d)' = Built(d) /\ plan'[d] = plan[d]
          BY <3>1 DEF Built, Live
        <5> QED
          BY <3>1, <4>2, <5>1, <5>2 DEF VerdictHolds
      <4> QED
        BY <3>1, <4>1, <4>2
    <3> QED
      BY <1>t, <3>2, <3>3, <3>4, <3>5 DEF TeardownInv
  <2> QED
    BY <2>1, <2>2
<1>15. CASE DropNamespace
  BY <1>15, <1>t, QuietStep DEF DropNamespace, Done
<1>16. ASSUME NEW n \in Namespaces, NamespaceController(n) PROVE TeardownInv'
  BY <1>16, <1>t, QuietStep DEF NamespaceController, EmptyNamespace, FinishNamespace
<1>17. CASE CollectGarbage
  BY <1>17, <1>t, QuietStep DEF CollectGarbage
<1>18. CASE UNCHANGED vars
  BY <1>18, <1>t, QuietStep DEF vars
<1>19. CASE CacheSync
  BY <1>8, <1>19 DEF CacheSync
<1>20. CASE Restart
  BY <1>8, <1>20 DEF Restart
<1> QED
  BY <1>1, <1>2, <1>3, <1>4, <1>5, <1>6, <1>7, <1>9, <1>10, <1>11, <1>12, <1>13, <1>14,
     <1>15, <1>16, <1>17, <1>18, <1>19, <1>20 DEF Next, Reconcile, Proceed

LEMMA InvAlways == Spec => []TeardownInv
BY InvInit, InvStep, PTL DEF Spec

\* Whatever is created, built, deleted, listed late or swept by a prefix, the
\* clusters, their namespaces and the operation under way keep their types.
THEOREM TypeCorrect == Spec => []TypeOK
<1>1. TeardownInv => TypeOK
  BY DEF TeardownInv
<1> QED
  BY <1>1, InvAlways, PTL

\* isDedicatedNamespace is asked of the informer and its answer used two writes
\* later; still a namespace that is deleted, or swept whole, holds no other
\* cluster the operator ever built.
THEOREM VerdictIsSafe == Spec => []VerdictSparesOthers
<1>1. TeardownInv => VerdictSparesOthers
  <2> SUFFICES ASSUME TeardownInv,
                      \/ op.pc \in {"release", "drop"} /\ op.dedicated
                      \/ op.pc = "sweep" /\ Dedicated(op.c),
                      NEW d \in Clusters \ {op.c}, plan[d].home = plan[op.c].home
               PROVE  ~Built(d)
    BY DEF VerdictSparesOthers
  <2>1. CASE op.dedicated
    BY <2>1 DEF TeardownInv, VerdictHolds
  <2>2. CASE op.pc = "sweep" /\ Dedicated(op.c)
    <3>1. op.c \in Clusters
      BY <2>2 DEF TeardownInv, TypeOK
    <3> QED
      BY <2>2, <3>1, DedicatedIsUnbuilt DEF TeardownInv
  <2> QED
    BY <2>1, <2>2
<1> QED
  BY <1>1, InvAlways, PTL

LEMMA ThingsStayStep ==
    ASSUME TeardownInv, [Next]_vars, NEW t \in things,
           Built(t.of), t.in = plan[t.of].home, t \notin things'
    PROVE  \/ ns[t.in] = "terminating"
           \/ op.pc = "sweep" /\ t.of # op.c /\ t.of \in Sweeps[op.c]
<1>1. t \in Thing /\ t.of \in Clusters
  BY DEF TeardownInv, TypeOK, Thing
<1>2. CASE Sweep
  <2>1. op.pc = "sweep" /\ op.c \in Clusters /\ Swept(t)
    BY <1>2 DEF Sweep, TeardownInv, TypeOK
  <2>2. t.of # op.c
    BY <2>1 DEF TeardownInv, TornDownIsDying, Built, Live
  <2>3. t.in = plan[op.c].home /\ (Dedicated(op.c) \/ t.of \in Sweeps[op.c])
    BY <2>1, <2>2 DEF Swept
  <2>4. ~Dedicated(op.c)
    BY <1>1, <2>1, <2>2, <2>3, DedicatedIsUnbuilt DEF TeardownInv
  <2> QED
    BY <2>1, <2>2, <2>3, <2>4
<1>3. ASSUME NEW n \in Namespaces, NamespaceController(n) PROVE ns[t.in] = "terminating"
  BY <1>3 DEF NamespaceController, EmptyNamespace, FinishNamespace
<1>4. ~CollectGarbage
  BY DEF CollectGarbage, Built, Live
<1>5. Sweep \/ \E n \in Namespaces : NamespaceController(n)
  BY <1>4 DEF Next, Reconcile, Proceed, vars, PostNamespaces, PostCluster, UserDelete,
     EvictCluster, AddFinalizer, Fetch, DeleteFallback, CacheSync, Restart, EnsureNamespaces,
     Build, Grant, Decide, RemoveFinalizer, DropNamespace
<1> QED
  BY <1>2, <1>3, <1>5

\* What the operator built for a living cluster is taken away only with its
\* namespace or by the teardown of a cluster whose name it extends.
THEOREM ThingsAlwaysStay == Spec => ThingsStay
<1>1. TeardownInv /\ [Next]_vars =>
        [\A t \in things : Built(t.of) /\ t.in = plan[t.of].home /\ t \notin things' =>
          \/ ns[t.in] = "terminating"
          \/ op.pc = "sweep" /\ t.of # op.c /\ t.of \in Sweeps[op.c]]_vars
  BY ThingsStayStep
<1> QED
  BY <1>1, InvAlways, PTL DEF Spec, ThingsStay
=============================================================================
