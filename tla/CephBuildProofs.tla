--------------------------- MODULE CephBuildProofs ---------------------------
(***************************************************************************)
(* Ready means built, for every set of specs, every cluster size and any   *)
(* number of edits and failures: what a pass has built it may report,      *)
(* because nothing that was built is forgotten and because the generation  *)
(* it reports names the spec it worked from.                               *)
(***************************************************************************)
EXTENDS ClusterReconcileProofs

------------------------------------------------------------------------------
(* The inductive invariant, on top of IInv.                                 *)

\* The Ceph of spec s is built in the state p of Proxmox and Ceph.
Built(s, p) ==
    /\ p.conf
    /\ \A i \in Ordinals : i < EffectiveMonCount(s) => i \in p.mon
    /\ \A i \in Ordinals : i < EffectiveMgrCount(s) => i \in p.mgr
    /\ \A i \in Ordinals : i < s.nodes => i \in p.member
    /\ Cardinality(p.osd) >= ExpectedOSDs(s)

\* The tasks of the plan before the n-th have left their mark.
Walked(s, n, p) ==
    /\ n > 1 => p.conf
    /\ \A i \in Ordinals : (i < EffectiveMonCount(s) /\ i + 2 < n) => i \in p.mon
    /\ \A i \in Ordinals :
          (i < EffectiveMgrCount(s) /\ i + 2 + EffectiveMonCount(s) < n) => i \in p.mgr
    /\ \A i \in Ordinals :
          (i < s.nodes /\ i + 2 + EffectiveMonCount(s) + EffectiveMgrCount(s) < n)
              => i \in p.member

\* A generation names a spec: a copy that is as recent as the stored object
\* has its spec.
Earlier(c) == c.gen <= obj.gen /\ (c.gen = obj.gen => c.spec = obj.spec)

GenerationsName ==
    obj # Nil => /\ obj.status.observed <= obj.gen
                 /\ cache # Nil => Earlier(cache)
                 /\ pc # "idle" => Earlier(mem)

\* The daemons that run were created.
OsdsCreated == pve.osdUp \subseteq pve.osd

\* The pass is as far as its counter says, and reports only what is built.
PassBuilds ==
    /\ pc \in {"configuring", "plan"} => mem.spec.ceph # Nil
    /\ pc = "plan" => Walked(mem.spec, k, pve)
    /\ pc = "ready" /\ mem.spec.ceph # Nil => Built(mem.spec, pve)

BuildInv == GenerationsName /\ OsdsCreated /\ PassBuilds /\ ReadyMeansCephBuilt

------------------------------------------------------------------------------
(* Nothing that was built is forgotten.                                     *)

\* What a later state of Proxmox and Ceph has kept of an earlier one.
Keeps(p, q) ==
    /\ p.conf => q.conf
    /\ p.mon \subseteq q.mon /\ p.mgr \subseteq q.mgr
    /\ p.member \subseteq q.member /\ p.osd \subseteq q.osd

\* The counts of a spec are numbers.
LEMMA CountsAreNumbers ==
    ASSUME NEW s \in Specs
    PROVE  /\ EffectiveMonCount(s) \in Nat /\ EffectiveMgrCount(s) \in Nat
           /\ s.nodes \in Nat /\ s.nodes <= MaxNodes /\ ExpectedOSDs(s) \in Nat
<1>1. s.nodes \in 1..MaxNodes /\ MaxNodes \in Nat
  BY SpecsAssumption, BoundsAssumption
<1>2. ExpectedOSDs(s) \in Nat
  BY SpecsAssumption, BoundsAssumption DEF ExpectedOSDs, maxInt32
<1>3. CASE s.ceph = Nil
  BY <1>1, <1>2, <1>3 DEF EffectiveMonCount, EffectiveMgrCount
<1>4. CASE s.ceph # Nil
  BY <1>1, <1>2, <1>4, CountsFitNodes
<1> QED
  BY <1>3, <1>4

\* What is built stays built.
LEMMA BuiltKept ==
    ASSUME NEW s \in Specs, NEW p \in PveStates, NEW q \in PveStates, Keeps(p, q), Built(s, p)
    PROVE  Built(s, q)
<1>1. IsFiniteSet(Ordinals) /\ IsFiniteSet(1..MaxOsds)
  BY BoundsAssumption, FS_Interval DEF Ordinals
<1>2. IsFiniteSet(Osds)
  BY <1>1, FS_Product DEF Osds
<1>3. IsFiniteSet(q.osd) /\ p.osd \subseteq q.osd
  BY <1>2, FS_Subset DEF PveStates, Keeps
<1>4. Cardinality(p.osd) <= Cardinality(q.osd)
      /\ Cardinality(p.osd) \in Nat /\ Cardinality(q.osd) \in Nat
  BY <1>3, FS_Subset, FS_CardinalityType
<1>5. ExpectedOSDs(s) \in Nat
  BY CountsAreNumbers
<1> QED
  BY <1>4, <1>5 DEF Built, Keeps

\* And what was walked of the plan stays walked.
LEMMA WalkedKept ==
    ASSUME NEW s, NEW n, NEW p, NEW q, Keeps(p, q), Walked(s, n, p)
    PROVE  Walked(s, n, q)
BY DEF Walked, Keeps

\* OSDs are added with their daemons.
LEMMA WithOsdsKeeps ==
    ASSUME NEW i, NEW D, pve \in PveStates, OsdsCreated
    PROVE  Keeps(pve, WithOsds(i, D)) /\ WithOsds(i, D).osdUp \subseteq WithOsds(i, D).osd
<1> DEFINE new == {i} \X D
<1>1. WithOsds(i, D) = [pve EXCEPT !.osd = @ \cup new, !.osdUp = @ \cup (new \ pve.osd)]
  BY DEF WithOsds
<1> HIDE DEF new
<1> QED
  BY <1>1 DEF PveStates, Keeps, OsdsCreated

\* A lost container takes daemons and their files, nothing the plan counts.
LEMMA ReplacedKeeps ==
    ASSUME NEW N, pve \in PveStates, OsdsCreated
    PROVE  Keeps(pve, Replaced(N)) /\ Replaced(N).osdUp \subseteq Replaced(N).osd
<1> DEFINE left == {d \in pve.osdUp : d[1] \notin N}
<1>1. left \subseteq pve.osdUp
  OBVIOUS
<1>2. Replaced(N) = [pve EXCEPT !.monDir = @ \ N, !.mgrDir = @ \ N, !.osdUp = left]
  BY DEF Replaced
<1> HIDE DEF left
<1> QED
  BY <1>1, <1>2 DEF PveStates, Keeps, OsdsCreated

\* A script adds to what is there and takes nothing away.
LEMMA DoneKeeps ==
    ASSUME NEW t \in Tasks, pve \in PveStates, OsdsCreated
    PROVE  Keeps(pve, Done(t)) /\ Done(t).osdUp \subseteq Done(t).osd
<1>1. /\ Keeps(pve, WithOsds(t.ordinal, OsdDevices))
      /\ WithOsds(t.ordinal, OsdDevices).osdUp \subseteq WithOsds(t.ordinal, OsdDevices).osd
  BY WithOsdsKeeps
<1> HIDE DEF PoolNames, OsdDevices, WithOsds
<1> QED
  BY <1>1 DEF Done, WithMember, WithConf, WithMon, WithMgr, WithPools, PveStates, Tasks,
              Keeps, OsdsCreated

\* Nor does one that is cut short.
LEMMA PartialKeeps ==
    ASSUME NEW t \in Tasks, pve \in PveStates, OsdsCreated, NEW p \in Partial(t)
    PROVE  Keeps(pve, p) /\ p.osdUp \subseteq p.osd
<1>1. CASE t.step = "ceph-osd"
  <2>1. PICK D \in SUBSET OsdDevices : p = WithOsds(t.ordinal, D)
    BY <1>1 DEF Partial
  <2> QED
    BY <2>1, WithOsdsKeeps
<1>2. CASE t.step = "ceph-pool"
  <2>1. PICK P \in SUBSET PoolNames(mnt) : p = [pve EXCEPT !.pools = @ \cup P]
    BY <1>2 DEF Partial, WithPools
  <2> QED
    BY <2>1 DEF PveStates, Keeps, OsdsCreated
<1>3. CASE t.step \notin {"ceph-osd", "ceph-pool"}
  <2>1. p = pve \/ p = Done(t)
    BY <1>3 DEF Partial
  <2>2. Keeps(pve, pve)
    BY DEF Keeps
  <2> QED
    BY <2>1, <2>2, DoneKeeps DEF OsdsCreated
<1> QED
  BY <1>1, <1>2, <1>3

\* No step forgets what was built.
LEMMA NothingForgotten ==
    ASSUME IInv, OsdsCreated, [Next]_vars
    PROVE  Keeps(pve, pve') /\ OsdsCreated'
<1> USE DEF operatorVars, kubeVars, pveVars
<1>0. pve \in PveStates
  BY DEF IInv, TypeOK
<1>1. ASSUME UNCHANGED pve PROVE Keeps(pve, pve') /\ OsdsCreated'
  BY <1>1 DEF Keeps, OsdsCreated
<1>2. ASSUME NEW t \in Tasks, pve' = Done(t) PROVE Keeps(pve, pve') /\ OsdsCreated'
  BY <1>0, <1>2, DoneKeeps DEF OsdsCreated
<1>3. ASSUME NEW N, pve' = Replaced(N) PROVE Keeps(pve, pve') /\ OsdsCreated'
  BY <1>0, <1>3, ReplacedKeeps DEF OsdsCreated
<1>4. CASE clusterInit
  <2>1. Task("cluster-init", 0) \in Tasks
    BY BoundsAssumption DEF Task, Tasks, Ordinals
  <2>2. UNCHANGED pve \/ pve' = Done(Task("cluster-init", 0))
    BY <1>4 DEF clusterInit, ExecOk, ExecErr
  <2> QED
    BY <1>1, <1>2, <2>1, <2>2
<1>5. CASE clusterJoin \/ cephPlanStep
  <2>1. \E t \in Running : UNCHANGED pve \/ pve' = Done(t)
    <3>1. CASE clusterJoin
      <4>1. Running = {Task("cluster-join", k)}
        BY <3>1 DEF clusterJoin, Running
      <4> QED
        BY <3>1, <4>1 DEF clusterJoin, ExecOk, ExecErr
    <3>2. CASE cephPlanStep
      <4>1. Running = {PlanTask(mem.spec, k)}
        BY <3>2 DEF cephPlanStep, Running
      <4> QED
        BY <3>2, <4>1 DEF cephPlanStep, ExecOk, ExecErr
    <3> QED
      BY <1>5, <3>1, <3>2
  <2> QED
    BY <1>1, <1>2, <2>1, RunningType
<1>6. ASSUME NEW t \in orphans, OrphanRuns(t) PROVE Keeps(pve, pve') /\ OsdsCreated'
  <2>1. t \in Tasks
    BY DEF IInv, TypeOK
  <2>2. UNCHANGED pve \/ pve' \in Partial(t)
    BY <1>6 DEF OrphanRuns
  <2> QED
    BY <1>0, <1>1, <2>1, <2>2, PartialKeeps DEF OsdsCreated
<1>7. CASE Kubernetes
  <2>1. UNCHANGED pve \/ \E N : pve' = Replaced(N)
    BY <1>7 DEF Kubernetes, CacheSync, StatefulSetCacheSync, KubeletSync,
              StatefulSetStatus, GarbageCollect, PodCreated, PodBecomesReady, PodRemoved
  <2> QED
    BY <1>1, <1>3, <2>1
<1>8. ASSUME NEW i \in Ordinals, PodFails(i) PROVE Keeps(pve, pve') /\ OsdsCreated'
  BY <1>1, <1>3, <1>8 DEF PodFails
<1>9. CASE User \/ OperatorCrash \/ Fetch \/ addFinalizer \/ removeFinalizer \/ EnsureOwned
           \/ Gate \/ updateStatus \/ allNodesJoined \/ cephStatus \/ APIError
  BY <1>1, <1>9 DEF User, UserEdits, UserDeletes, OperatorCrash, Fetch, addFinalizer,
        removeFinalizer, EnsureOwned, Gate, updateStatus, allNodesJoined, cephStatus,
        ExecErr, APIError
<1>10. CASE UNCHANGED vars
  BY <1>1, <1>10 DEF vars
<1> QED
  BY <1>4, <1>5, <1>6, <1>7, <1>8, <1>9, <1>10 DEF Next, Reconcile, Failure

------------------------------------------------------------------------------
(* A generation names a spec.                                               *)

\* A pass works from one copy of the object to its end.
LEMMA PassKeepsCopy ==
    ASSUME IInv, Next, ~Fetch
    PROVE  pc' = "idle" \/ (pc # "idle" /\ mem'.gen = mem.gen /\ mem'.spec = mem.spec)
<1> USE DEF operatorVars, kubeVars, pveVars
<1>0. ASSUME mem \in Clusters, NEW st
      PROVE  /\ [mem EXCEPT !.status = st].gen = mem.gen
             /\ [mem EXCEPT !.status = st].spec = mem.spec
  BY <1>0 DEF Clusters
<1>1. pc # "idle" => mem \in Clusters
  BY DEF IInv, PassConsistent
<1>2. CASE addFinalizer
  <2>1. pc # "idle"
    BY <1>2 DEF addFinalizer
  <2> DEFINE c == [mem EXCEPT !.fin = TRUE]
  <2>2. c \in Clusters /\ c.gen = mem.gen /\ c.spec = mem.spec
    BY <1>1, <2>1 DEF Clusters
  <2> HIDE DEF c
  <2>3. mem' = c \/ mem' = [c EXCEPT !.status = setCondition(@, "CephInitialized", FALSE)]
    BY <1>2 DEF addFinalizer, Validated, c
  <2> QED
    BY <2>1, <2>2, <2>3 DEF Clusters
<1>3. CASE Gate
  <2>1. pc # "idle" /\ (mem' = mem \/ \E st : mem' = [mem EXCEPT !.status = st])
    BY <1>3 DEF Gate
  <2> QED
    BY <1>0, <1>1, <2>1
<1>4. CASE updateStatus
  <2>1. pc # "idle"
    BY <1>4, PhaseOfDomain DEF updateStatus
  <2>2. pc' = "idle" \/ \E st : mem' = [mem EXCEPT !.status = st]
    BY <1>4 DEF updateStatus, Return
  <2> QED
    BY <1>0, <1>1, <2>1, <2>2
<1>5. CASE clusterInit
  <2>1. pc # "idle" /\ \E st : mem' = [mem EXCEPT !.status = st]
    BY <1>5 DEF clusterInit
  <2> QED
    BY <1>0, <1>1, <2>1
<1>6. CASE clusterJoin
  <2>1. pc # "idle" /\ (mem' = mem \/ mem' = [mem EXCEPT !.status.joined = k])
    BY <1>6 DEF clusterJoin
  <2> QED
    BY <1>1, <2>1 DEF Clusters
<1>7. CASE allNodesJoined
  <2>1. pc # "idle" /\ \E st : mem' = [mem EXCEPT !.status = st]
    BY <1>7 DEF allNodesJoined
  <2> QED
    BY <1>0, <1>1, <2>1
<1>8. CASE cephPlanStep
  <2>1. pc # "idle" /\ (mem' = mem \/ \E st : mem' = [mem EXCEPT !.status = st])
    BY <1>8 DEF cephPlanStep
  <2> QED
    BY <1>0, <1>1, <2>1
<1>9. CASE cephStatus
  <2>1. pc # "idle"
    BY <1>9 DEF cephStatus
  <2>2. \/ pc' = "idle"
        \/ \E st, conds : mem' = [mem EXCEPT !.status.ceph = st, !.status.conds = conds]
    BY <1>9 DEF cephStatus, Return
  <2> QED
    BY <1>1, <2>1, <2>2 DEF Clusters
<1>10. CASE EnsureOwned \/ removeFinalizer \/ APIError \/ OperatorCrash
  BY <1>10 DEF EnsureOwned, removeFinalizer, APIError, OperatorCrash, Return
<1>11. CASE Kubernetes \/ User \/ (\E i \in Ordinals : PodFails(i))
            \/ (\E t \in orphans : OrphanRuns(t))
  <2>1. UNCHANGED <<pc, mem>>
    BY <1>11 DEF Kubernetes, CacheSync, StatefulSetCacheSync, KubeletSync, StatefulSetStatus,
         GarbageCollect, PodCreated, PodBecomesReady, PodRemoved, User, UserEdits, UserDeletes,
         PodFails, OrphanRuns
  <2> QED
    BY <2>1
<1> QED
  BY <1>2, <1>3, <1>4, <1>5, <1>6, <1>7, <1>8, <1>9, <1>10, <1>11
     DEF Next, Reconcile, Failure

\* What a step does to the stored object: the operator's writes keep spec and
\* generation, a user's change takes the next generation.
LEMMA ObjectStep ==
    ASSUME IInv, Next, obj' # Nil
    PROVE  /\ obj # Nil
           /\ \/ /\ obj'.gen = obj.gen /\ obj'.spec = obj.spec
                 /\ ~updateStatus => obj'.status = obj.status
              \/ obj'.gen = obj.gen + 1 /\ obj'.status = obj.status /\ UNCHANGED <<pc, mem, cache>>
<1> USE DEF operatorVars, kubeVars, pveVars
<1>0. obj \in Clusters \cup {Nil} /\ Nil \notin Clusters
  BY NilAssumption DEF IInv, TypeOK
<1>1. CASE addFinalizer
  BY <1>0, <1>1 DEF addFinalizer, CacheIsCurrent, Clusters
<1>2. CASE removeFinalizer
  BY <1>2 DEF removeFinalizer
<1>3. CASE updateStatus
  <2>1. obj # Nil /\ \E st : obj' = [obj EXCEPT !.status = st]
    BY <1>3 DEF updateStatus, CacheIsCurrent
  <2> QED
    BY <1>0, <1>3, <2>1 DEF Clusters
<1>4. ASSUME NEW s \in Specs, UserEdits(s)
      PROVE  obj # Nil /\ obj'.gen = obj.gen + 1 /\ obj'.status = obj.status
             /\ UNCHANGED <<pc, mem, cache>>
  <2>1. obj # Nil /\ obj' = [obj EXCEPT !.spec = s, !.gen = @ + 1] /\ UNCHANGED <<pc, mem, cache>>
    BY <1>4 DEF UserEdits
  <2> QED
    BY <1>0, <2>1 DEF Clusters
<1>5. CASE UserDeletes
  <2>1. obj # Nil /\ obj' = [obj EXCEPT !.deleting = TRUE, !.gen = @ + 1]
        /\ UNCHANGED <<pc, mem, cache>>
    BY <1>5 DEF UserDeletes
  <2> QED
    BY <1>0, <2>1 DEF Clusters
<1>6. CASE Kubernetes \/ Failure \/ Fetch \/ EnsureOwned \/ Gate \/ clusterInit \/ clusterJoin
           \/ allNodesJoined \/ cephPlanStep \/ cephStatus \/ APIError
  BY <1>6 DEF Kubernetes, CacheSync, StatefulSetCacheSync, KubeletSync, StatefulSetStatus,
       GarbageCollect, PodCreated, PodBecomesReady, PodRemoved, Failure, OperatorCrash,
       PodFails, OrphanRuns, Fetch, EnsureOwned, Gate, clusterInit, clusterJoin,
       allNodesJoined, cephPlanStep, cephStatus, APIError
<1> QED
  BY <1>1, <1>2, <1>3, <1>4, <1>5, <1>6 DEF Next, Reconcile, User

\* No copy of the object is ahead of it, whoever writes first.
LEMMA GenerationStep ==
    ASSUME IInv, IInv', GenerationsName, Next
    PROVE  GenerationsName'
<1> USE DEF operatorVars, kubeVars, pveVars
<1> SUFFICES ASSUME obj' # Nil
             PROVE  /\ obj'.status.observed <= obj'.gen
                    /\ cache' # Nil => Earlier(cache)'
                    /\ pc' # "idle" => Earlier(mem)'
  BY DEF GenerationsName
<1>0. /\ obj # Nil /\ obj.gen \in Nat /\ obj.status.observed \in Nat
      /\ cache # Nil => cache.gen \in Nat
      /\ pc # "idle" => mem.gen \in Nat
  BY ObjectStep DEF IInv, TypeOK, PassConsistent, Clusters, Statuses
<1>1. obj.status.observed <= obj.gen /\ (cache # Nil => Earlier(cache)) /\ (pc # "idle" => Earlier(mem))
  BY <1>0 DEF GenerationsName
<1>2. ASSUME NEW c, c.gen \in Nat, Earlier(c)
      PROVE  c.gen <= obj'.gen /\ (c.gen = obj'.gen => c.spec = obj'.spec)
  BY <1>0, <1>2, ObjectStep DEF Earlier
<1>3. obj'.status.observed <= obj'.gen
  <2>1. CASE updateStatus
    <3>1. pc # "idle"
      BY <2>1, PhaseOfDomain DEF updateStatus
    <3> DEFINE st == [mem.status EXCEPT !.phase = PhaseOf[pc], !.observed = mem.gen]
    <3>2. mem.status \in Statuses /\ obj \in Clusters
      BY <1>0, <3>1 DEF IInv, TypeOK, PassConsistent, Clusters
    <3>3. st.observed = mem.gen
      BY <3>2 DEF Statuses
    <3>4. obj' = [obj EXCEPT !.status = st]
      BY <2>1 DEF updateStatus
    <3> HIDE DEF st
    <3>5. obj'.status = st /\ obj'.gen = obj.gen
      BY <3>2, <3>4 DEF Clusters
    <3> QED
      BY <1>1, <3>1, <3>3, <3>5 DEF Earlier
  <2>2. CASE ~updateStatus
    BY <1>0, <1>1, <2>2, ObjectStep
  <2> QED
    BY <2>1, <2>2
<1>4. cache' # Nil => Earlier(cache)'
  <2>1. CASE CacheSync \/ OperatorCrash
    BY <1>0, <2>1 DEF CacheSync, OperatorCrash, Earlier
  <2>2. CASE ~CacheSync /\ ~OperatorCrash
    <3>1. UNCHANGED cache
      BY <2>2 DEF Next, Reconcile, Fetch, addFinalizer, removeFinalizer, EnsureOwned, Gate,
           updateStatus, clusterInit, clusterJoin, allNodesJoined, cephPlanStep, cephStatus,
           APIError, Kubernetes, StatefulSetCacheSync, KubeletSync, StatefulSetStatus,
           GarbageCollect, PodCreated, PodBecomesReady, PodRemoved, User, UserEdits,
           UserDeletes, Failure, PodFails, OrphanRuns
    <3> QED
      BY <1>0, <1>1, <1>2, <3>1 DEF Earlier
  <2> QED
    BY <2>1, <2>2
<1>5. pc' # "idle" => Earlier(mem)'
  <2>1. CASE Fetch
    <3>1. CASE cache = Nil
      BY <2>1, <3>1 DEF Fetch
    <3>2. CASE cache # Nil
      <4>1. mem' = cache \/ mem' = [cache EXCEPT !.status = setCondition(@, "CephInitialized", FALSE)]
        BY <2>1, <3>2 DEF Fetch, Validated
      <4>2. mem'.gen = cache.gen /\ mem'.spec = cache.spec
        BY <3>2, <4>1 DEF IInv, TypeOK, Clusters
      <4>3. UNCHANGED obj
        BY <2>1 DEF Fetch
      <4> QED
        BY <1>1, <3>2, <4>2, <4>3 DEF Earlier
    <3> QED
      BY <3>1, <3>2
  <2>2. CASE ~Fetch
    <3>1. pc' # "idle" => pc # "idle" /\ mem'.gen = mem.gen /\ mem'.spec = mem.spec
      BY <2>2, PassKeepsCopy
    <3> QED
      BY <1>0, <1>1, <1>2, <3>1 DEF Earlier
  <2> QED
    BY <2>1, <2>2
<1> QED
  BY <1>3, <1>4, <1>5

------------------------------------------------------------------------------
(* The plan builds what it lists.                                           *)

\* A task of the plan that succeeds adds its mark to those of the tasks before
\* it; ceph-osd.sh succeeds only on a member, so that a walked plan covers the
\* nodes a scale-up added.
LEMMA TaskBuilds ==
    ASSUME TypeOK, OsdsCreated, NEW s \in Specs, s.ceph # Nil,
           NEW n \in Nat \ {0}, n <= PlanLen(s), Walked(s, n, pve),
           CanRun(PlanTask(s, n))
    PROVE  Walked(s, n + 1, Done(PlanTask(s, n)))
<1> DEFINE t == PlanTask(s, n)
           mons == EffectiveMonCount(s)
           mgrs == EffectiveMgrCount(s)
<1>1. t \in Tasks /\ pve \in PveStates
  BY PlanTaskType DEF TypeOK
<1>2. Keeps(pve, Done(t))
  BY <1>1, DoneKeeps
<1>3. mons \in Nat /\ mgrs \in Nat /\ s.nodes \in Nat
  BY CountsAreNumbers
<1>4. t = IF n = 1 THEN Task("ceph-init", 0)
          ELSE IF n <= 1 + mons THEN Task("ceph-mon", n - 2)
          ELSE IF n <= 1 + mons + mgrs THEN Task("ceph-mgr", n - 2 - mons)
          ELSE IF n <= 1 + mons + mgrs + s.nodes THEN Task("ceph-osd", n - 2 - mons - mgrs)
          ELSE Task("ceph-pool", 0)
  BY DEF PlanTask
<1>5. Walked(s, n, Done(t))
  BY <1>2, WalkedKept
<1>6. CanRun(t)
  OBVIOUS
<1> HIDE DEF t, mons, mgrs
<1>7. n > 1 \/ Done(t).conf
  <2>1. CASE n = 1
    <3>1. t.step = "ceph-init"
      BY <1>4, <2>1 DEF Task
    <3> QED
      BY <1>1, <3>1 DEF Done, WithConf, PveStates
  <2> QED
    BY <2>1
<1>8. \A i \in Ordinals : i < mons /\ i + 2 = n => i \in Done(t).mon
  <2> SUFFICES ASSUME NEW i \in Ordinals, i < mons, i + 2 = n PROVE i \in Done(t).mon
    OBVIOUS
  <2>1. i \in Nat
    BY BoundsAssumption DEF Ordinals
  <2>2. n # 1 /\ n <= 1 + mons /\ n - 2 = i
    BY <1>3, <2>1
  <2>3. t = Task("ceph-mon", i)
    BY <1>4, <2>2
  <2>4. t.step = "ceph-mon" /\ t.ordinal = i
    BY <2>3 DEF Task
  <2> QED
    BY <1>1, <2>4 DEF Done, WithMon, PveStates
<1>9. \A i \in Ordinals : i < mgrs /\ i + 2 + mons = n => i \in Done(t).mgr
  <2> SUFFICES ASSUME NEW i \in Ordinals, i < mgrs, i + 2 + mons = n PROVE i \in Done(t).mgr
    OBVIOUS
  <2>1. i \in Nat
    BY BoundsAssumption DEF Ordinals
  <2>2. n # 1 /\ ~(n <= 1 + mons) /\ n <= 1 + mons + mgrs /\ n - 2 - mons = i
    BY <1>3, <2>1
  <2>3. t = Task("ceph-mgr", i)
    BY <1>4, <2>2
  <2>4. t.step = "ceph-mgr" /\ t.ordinal = i
    BY <2>3 DEF Task
  <2> QED
    BY <1>1, <2>4 DEF Done, WithMgr, PveStates
<1>10. \A i \in Ordinals : i < s.nodes /\ i + 2 + mons + mgrs = n => i \in Done(t).member
  <2> SUFFICES ASSUME NEW i \in Ordinals, i < s.nodes, i + 2 + mons + mgrs = n
               PROVE  i \in Done(t).member
    OBVIOUS
  <2>1. i \in Nat
    BY BoundsAssumption DEF Ordinals
  <2>2. n # 1 /\ ~(n <= 1 + mons) /\ ~(n <= 1 + mons + mgrs)
        /\ n <= 1 + mons + mgrs + s.nodes /\ n - 2 - mons - mgrs = i
    BY <1>3, <2>1
  <2>3. t = Task("ceph-osd", i)
    BY <1>4, <2>2
  <2>4. t.step = "ceph-osd" /\ t.ordinal = i
    BY <2>3 DEF Task
  <2>5. i \in pve.member
    BY <1>6, <2>4 DEF CanRun, CanCephOsd, SeesCephConf
  <2> QED
    BY <1>2, <2>5 DEF Keeps
<1>11. Ordinals \subseteq Nat
  BY BoundsAssumption DEF Ordinals
<1>12. Walked(s, n + 1, Done(t))
  BY <1>3, <1>5, <1>7, <1>8, <1>9, <1>10, <1>11 DEF Walked, mons, mgrs
<1> QED
  BY <1>12 DEF t

\* A walked plan and a status line that CephUsable accepts: all is built.
LEMMA UsableIsBuilt ==
    ASSUME TypeOK, OsdsCreated, NEW s \in Specs, s.ceph # Nil,
           NEW n \in Nat, n > PlanLen(s), Walked(s, n, pve),
           NEW health \in {"HEALTH_OK", "HEALTH_ERR"},
           CephUsable(ParseCephStatus(s, StatusLine(health)))
    PROVE  Built(s, pve)
<1> DEFINE mons == EffectiveMonCount(s)
           mgrs == EffectiveMgrCount(s)
           running == {d \in pve.osdUp : Up(d[1])}
           line == StatusLine(health)
<1>1. mons \in Nat /\ mgrs \in Nat /\ s.nodes \in Nat /\ ExpectedOSDs(s) \in Nat
  BY CountsAreNumbers
<1>2. n > 2 + mons + mgrs + s.nodes
  BY DEF PlanLen
<1>3. Ordinals \subseteq Nat
  BY BoundsAssumption DEF Ordinals
<1>4. Cardinality(running) <= Cardinality(pve.osd)
      /\ Cardinality(running) \in Nat /\ Cardinality(pve.osd) \in Nat
  <2>1. IsFiniteSet(Ordinals) /\ IsFiniteSet(1..MaxOsds)
    BY BoundsAssumption, FS_Interval DEF Ordinals
  <2>2. IsFiniteSet(Osds)
    BY <2>1, FS_Product DEF Osds
  <2>3. IsFiniteSet(pve.osd) /\ running \subseteq pve.osd
    BY <2>2, FS_Subset DEF TypeOK, PveStates, OsdsCreated
  <2> QED
    BY <2>3, FS_Subset, FS_CardinalityType
<1>5. ParseCephStatus(s, line).osdsReady = line.osds_up
      /\ ParseCephStatus(s, line).osdsExpected = ExpectedOSDs(s)
  <2>1. "osds_up" \in DOMAIN line
    BY DEF StatusLine
  <2> HIDE DEF line
  <2> QED
    BY <2>1 DEF ParseCephStatus
<1>6. line.osds_up = Cardinality(running) \/ line.osds_up = 0
  <2> HIDE DEF running
  <2> QED
    BY DEF StatusLine, running
<1>7. ExpectedOSDs(s) > 0 /\ line.osds_up >= ExpectedOSDs(s)
  <2> DEFINE st == ParseCephStatus(s, line)
  <2>1. st.osdsExpected > 0 /\ st.osdsReady >= st.osdsExpected
    BY DEF CephUsable
  <2> QED
    BY <1>5, <2>1
<1>8. Cardinality(pve.osd) >= ExpectedOSDs(s)
  <2> HIDE DEF running, line
  <2> QED
    BY <1>1, <1>4, <1>6, <1>7
<1> HIDE DEF mons, mgrs, running, line
<1>9. pve.conf
  BY <1>1, <1>2 DEF Walked
<1>10. \A i \in Ordinals : (i < mons => i + 2 < n) /\ (i < mgrs => i + 2 + mons < n)
                           /\ (i < s.nodes => i + 2 + mons + mgrs < n)
  BY <1>1, <1>2, <1>3
<1>11. /\ \A i \in Ordinals : i < mons => i \in pve.mon
       /\ \A i \in Ordinals : i < mgrs => i \in pve.mgr
       /\ \A i \in Ordinals : i < s.nodes => i \in pve.member
  BY <1>10 DEF Walked, mons, mgrs
<1> QED
  BY <1>8, <1>9, <1>11 DEF Built, mons, mgrs

\* The pass walks the plan in order, and goes to Ready only from a walked plan
\* or without Ceph.
LEMMA PassStep ==
    ASSUME IInv, IInv', OsdsCreated, PassBuilds, Next
    PROVE  PassBuilds'
<1> USE DEF operatorVars, kubeVars, pveVars
<1>0. /\ pve \in PveStates /\ pve' \in PveStates /\ TypeOK
      /\ k \in Nat \ {0}
      /\ pc # "idle" => mem.spec \in Specs
      /\ Keeps(pve, pve')
  <2>1. [Next]_vars
    OBVIOUS
  <2> QED
    BY <2>1, NothingForgotten DEF IInv, TypeOK, PassConsistent, Clusters
<1>1. ASSUME UNCHANGED <<pc, mem, k>> PROVE PassBuilds'
  <2>1. pc = "plan" => Walked(mem.spec, k, pve')
    BY <1>0, WalkedKept DEF PassBuilds
  <2>2. pc = "ready" /\ mem.spec.ceph # Nil => Built(mem.spec, pve')
    BY <1>0, BuiltKept DEF PassBuilds
  <2> QED
    BY <1>1, <2>1, <2>2 DEF PassBuilds
<1>2. ASSUME pc' \notin {"configuring", "plan", "ready"} PROVE PassBuilds'
  BY <1>2 DEF PassBuilds
<1>3. CASE Fetch \/ addFinalizer
  <2>1. UNCHANGED <<pc, mem, k>> \/ pc' \in {"removeFinalizer", "addFinalizer", "ensure", "invalid"}
        \/ (UNCHANGED <<pc, mem>> /\ pc = "idle")
    BY <1>3 DEF Fetch, addFinalizer, Validated
  <2> QED
    BY <1>1, <1>2, <2>1
<1>4. CASE EnsureOwned \/ removeFinalizer \/ APIError \/ OperatorCrash
  <2>1. pc' \in {"idle", "gate"}
    BY <1>4 DEF EnsureOwned, removeFinalizer, APIError, OperatorCrash, Return
  <2> QED
    BY <1>2, <2>1
<1>5. CASE Gate
  <2>1. pc = "gate" /\ ~Fetch
    BY <1>5 DEF Gate, Fetch
  <2>2. pc' # "idle"
    BY <1>5 DEF Gate, AfterGate
  <2>3. mem'.spec = mem.spec
    BY <2>1, <2>2, PassKeepsCopy
  <2>4. /\ pc' = "configuring" => mem.spec.ceph # Nil
        /\ pc' = "ready" => mem.spec.ceph = Nil
        /\ pc' # "plan"
    BY <1>5 DEF Gate, AfterGate
  <2> QED
    BY <2>3, <2>4 DEF PassBuilds
<1>6. CASE updateStatus
  <2>1. CASE pc = "configuring"
    <3>1. pc' = "plan" /\ k' = 1 /\ UNCHANGED pve
      BY <1>6, <2>1, PhaseOfDomain DEF updateStatus
    <3>2. ~Fetch
      BY <2>1 DEF Fetch
    <3>3. mem'.spec = mem.spec
      BY <3>1, <3>2, PassKeepsCopy
    <3>4. mem.spec \in Specs /\ mem.spec.ceph # Nil
      BY <1>0, <2>1 DEF PassBuilds
    <3>5. Walked(mem.spec, 1, pve)
      <4>1. Ordinals \subseteq Nat /\ EffectiveMonCount(mem.spec) \in Nat
            /\ EffectiveMgrCount(mem.spec) \in Nat
        BY <3>4, CountsAreNumbers, BoundsAssumption DEF Ordinals
      <4>2. \A i \in Ordinals, a \in Nat, b \in Nat :
               ~(i + 2 < 1) /\ ~(i + 2 + a < 1) /\ ~(i + 2 + a + b < 1)
        BY <4>1
      <4> QED
        BY <4>1, <4>2 DEF Walked
    <3> QED
      BY <3>1, <3>3, <3>4, <3>5 DEF PassBuilds
  <2>2. CASE pc # "configuring"
    <3>1. pc' \in {"idle", "init", "join"}
      BY <1>6, <2>2, PhaseOfDomain DEF updateStatus, Return
    <3> QED
      BY <1>2, <3>1
  <2> QED
    BY <2>1, <2>2
<1>7. CASE clusterInit \/ clusterJoin \/ allNodesJoined
  <2>1. pc' \in {"initialized", "initFailed", "join", "joinFailed", "joined"}
    BY <1>7 DEF clusterInit, clusterJoin, allNodesJoined
  <2> QED
    BY <1>2, <2>1
<1>8. CASE cephPlanStep
  <2>1. pc = "plan" /\ k <= PlanLen(mem.spec) /\ mem.spec \in Specs /\ mem.spec.ceph # Nil
        /\ Walked(mem.spec, k, pve)
    BY <1>0, <1>8 DEF cephPlanStep, PassBuilds
  <2>2. CASE pc' = "stepFailed"
    BY <1>2, <2>2
  <2>3. CASE pc' # "stepFailed"
    <3>1. /\ CanRun(PlanTask(mem.spec, k)) /\ pve' = Done(PlanTask(mem.spec, k))
          /\ k' = k + 1 /\ UNCHANGED <<pc, mem>>
      BY <1>8, <2>3 DEF cephPlanStep, ExecOk
    <3>2. Walked(mem.spec, k + 1, pve')
      BY <1>0, <2>1, <3>1, TaskBuilds
    <3> QED
      BY <2>1, <3>1, <3>2 DEF PassBuilds
  <2> QED
    BY <2>2, <2>3
<1>9. CASE cephStatus
  <2>1. pc = "plan" /\ k > PlanLen(mem.spec) /\ mem.spec \in Specs /\ mem.spec.ceph # Nil
        /\ Walked(mem.spec, k, pve)
    BY <1>0, <1>9 DEF cephStatus, PassBuilds
  <2>2. CASE pc' # "ready"
    <3>1. pc' \in {"idle", "notUsable"}
      BY <1>9, <2>2 DEF cephStatus, Return
    <3> QED
      BY <1>2, <3>1
  <2>3. CASE pc' = "ready"
    <3>1. PICK health \in {"HEALTH_OK", "HEALTH_ERR"} :
             CephUsable(ParseCephStatus(mem.spec, StatusLine(health))) /\ UNCHANGED pve
      BY <1>9, <2>3 DEF cephStatus, Return
    <3>2. Built(mem.spec, pve)
      BY <1>0, <2>1, <3>1, UsableIsBuilt
    <3>3. mem'.spec = mem.spec
      <4>1. ~Fetch
        BY <2>1 DEF Fetch
      <4> QED
        BY <2>3, <4>1, PassKeepsCopy
    <3> QED
      BY <2>3, <3>1, <3>2, <3>3 DEF PassBuilds
  <2> QED
    BY <2>2, <2>3
<1>10. CASE Kubernetes \/ User \/ (\E i \in Ordinals : PodFails(i))
            \/ (\E t \in orphans : OrphanRuns(t))
  <2>1. UNCHANGED <<pc, mem, k>>
    BY <1>10 DEF Kubernetes, CacheSync, StatefulSetCacheSync, KubeletSync, StatefulSetStatus,
         GarbageCollect, PodCreated, PodBecomesReady, PodRemoved, User, UserEdits, UserDeletes,
         PodFails, OrphanRuns
  <2> QED
    BY <1>1, <2>1
<1> QED
  BY <1>3, <1>4, <1>5, <1>6, <1>7, <1>8, <1>9, <1>10 DEF Next, Reconcile, Failure

\* A Ready status that names the stored generation was written by a pass that
\* had built the stored spec.
LEMMA ReadyStep ==
    ASSUME IInv, IInv', BuildInv, Next
    PROVE  ReadyMeansCephBuilt'
<1> SUFFICES ASSUME ReadyNow', obj'.spec.ceph # Nil PROVE Built(obj.spec, pve)'
  BY DEF ReadyMeansCephBuilt, Built
<1>0. /\ obj' # Nil /\ obj # Nil /\ obj \in Clusters /\ obj.gen \in Nat
      /\ obj.status.observed \in Nat /\ obj.status.observed <= obj.gen
      /\ pve \in PveStates /\ pve' \in PveStates /\ Keeps(pve, pve')
  <2>1. [Next]_vars /\ OsdsCreated
    BY DEF BuildInv
  <2>2. obj' # Nil /\ obj # Nil
    BY ObjectStep DEF ReadyNow
  <2> QED
    BY <2>1, <2>2, NothingForgotten
       DEF BuildInv, GenerationsName, IInv, TypeOK, Clusters, Statuses
<1>1. CASE updateStatus
  <2>1. pc # "idle" /\ UNCHANGED pve
    BY <1>1, PhaseOfDomain DEF updateStatus, pveVars
  <2> DEFINE st == [mem.status EXCEPT !.phase = PhaseOf[pc], !.observed = mem.gen]
  <2>2. mem.status \in Statuses
    BY <2>1 DEF IInv, PassConsistent, Clusters
  <2>3. st.phase = PhaseOf[pc] /\ st.observed = mem.gen
    BY <2>2 DEF Statuses
  <2>4. obj' = [obj EXCEPT !.status = st]
    BY <1>1 DEF updateStatus
  <2> HIDE DEF st
  <2>5. obj'.status = st /\ obj'.gen = obj.gen /\ obj'.spec = obj.spec
    BY <1>0, <2>4 DEF Clusters
  <2>6. PhaseOf[pc] = "Ready" /\ mem.gen = obj.gen
    BY <2>3, <2>5 DEF ReadyNow
  <2>7. pc = "ready"
    <3>1. pc \in DOMAIN PhaseOf
      BY <1>1 DEF updateStatus
    <3> QED
      BY <2>6, <3>1 DEF PhaseOf
  <2>8. mem.spec = obj.spec
    BY <1>0, <2>1, <2>6 DEF BuildInv, GenerationsName, Earlier
  <2> QED
    BY <2>1, <2>5, <2>7, <2>8 DEF BuildInv, PassBuilds
<1>2. CASE ~updateStatus
  <2>1. obj'.gen = obj.gen /\ obj'.spec = obj.spec /\ obj'.status = obj.status
    BY <1>0, <1>2, ObjectStep DEF ReadyNow
  <2>2. Built(obj.spec, pve)
    BY <1>0, <2>1 DEF BuildInv, ReadyMeansCephBuilt, ReadyNow, Built
  <2> QED
    BY <1>0, <2>1, <2>2, BuiltKept DEF Clusters
<1> QED
  BY <1>1, <1>2

\* Ready means built: whatever a pass was interrupted by, read stale or left
\* running, and however the spec was edited meanwhile, a Ready status for the
\* stored generation of a cluster with Ceph finds ceph.conf, every monitor and
\* manager of that generation's plan, its nodes members and its OSDs created.
THEOREM ReadyIsBuilt == Spec => []ReadyMeansCephBuilt
<1>1. Init => BuildInv
  <2> SUFFICES ASSUME Init PROVE BuildInv
    OBVIOUS
  <2>1. PICK s \in Specs : obj = NewCluster(s)
    BY DEF Init
  <2>2. obj.status.observed = 0 /\ obj.gen = 1
    BY <2>1 DEF NewCluster, NewStatus
  <2>3. pc = "idle" /\ cache = Nil /\ pve.osdUp = {}
    BY DEF Init
  <2>4. GenerationsName
    <3>1. obj.status.observed <= obj.gen
      BY <2>2
    <3> QED
      BY <2>3, <3>1 DEF GenerationsName
  <2>5. OsdsCreated
    BY <2>3 DEF OsdsCreated
  <2>6. PassBuilds
    BY <2>3 DEF PassBuilds
  <2>7. ReadyMeansCephBuilt
    BY <2>2 DEF ReadyMeansCephBuilt, ReadyNow
  <2> QED
    BY <2>4, <2>5, <2>6, <2>7 DEF BuildInv
<1>2. IInv /\ IInv' /\ BuildInv /\ [Next]_vars => BuildInv'
  <2> SUFFICES ASSUME IInv, IInv', BuildInv, [Next]_vars PROVE BuildInv'
    OBVIOUS
  <2>1. CASE Next
    BY <2>1, NothingForgotten, GenerationStep, PassStep, ReadyStep DEF BuildInv
  <2>2. CASE UNCHANGED vars
    BY <2>2 DEF vars, operatorVars, kubeVars, pveVars, BuildInv, GenerationsName, Earlier,
         OsdsCreated, PassBuilds, ReadyMeansCephBuilt, ReadyNow, Walked, Built
  <2> QED
    BY <2>1, <2>2
<1>3. BuildInv => ReadyMeansCephBuilt
  BY DEF BuildInv
<1> QED
  BY <1>1, <1>2, <1>3, Inductive, PTL DEF Spec
=============================================================================
