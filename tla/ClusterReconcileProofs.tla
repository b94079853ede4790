----------------------- MODULE ClusterReconcileProofs -----------------------
(***************************************************************************)
(* Proofs about ClusterReconcile for every set of specs, every cluster     *)
(* size and any number of edits and failures.                              *)
(***************************************************************************)
EXTENDS ClusterReconcile, FiniteSetTheorems, TLAPS

------------------------------------------------------------------------------
(* The inductive invariant.                                                 *)

\* The status of the copy c of the object (stored, cached or in memory) says
\* nothing about membership that is not so.
Truthful(c, members) ==
    /\ \A i \in Ordinals : i < c.status.joined => i \in members
    /\ "ClusterInitialized" \in c.status.conds => 0 \in members /\ c.status.joined >= 1
    /\ "AllNodesJoined" \in c.status.conds => "ClusterInitialized" \in c.status.conds

CopiesTruthful ==
    /\ obj # Nil => Truthful(obj, pve.member)
    /\ cache # Nil => Truthful(cache, pve.member)
    /\ pc # "idle" => Truthful(mem, pve.member)

\* A pass holds a copy of the object, and has come to a step that acts on
\* membership only through the condition that selects it; in the join loop
\* the nodes below k have joined.
PassConsistent ==
    /\ pc # "idle" => mem \in Clusters
    /\ pc \in {"initializing", "init"} => "ClusterInitialized" \notin mem.status.conds
    /\ pc \in {"joining", "join"} => "ClusterInitialized" \in mem.status.conds
    /\ pc = "join" => /\ k <= mem.spec.nodes
                      /\ \A i \in Ordinals : i < k => i \in pve.member

\* The Proxmox cluster starts on node 0, also by a script that nobody waits
\* for any more.
FoundedOnZero ==
    /\ pve.member # {} => 0 \in pve.member
    /\ \A t \in orphans : t.step = "cluster-init" => t.ordinal = 0

IInv == TypeOK /\ PassConsistent /\ CopiesTruthful /\ FoundedOnZero

------------------------------------------------------------------------------
(* Lemmas about the operators the steps are built from.                     *)

\* The capped counts of ceph.go lie between one and the number of nodes.
LEMMA CountsFitNodes ==
    ASSUME NEW s \in Specs, s.ceph # Nil
    PROVE  /\ EffectiveMonCount(s) \in 1..s.nodes
           /\ EffectiveMgrCount(s) \in 1..s.nodes
<1>1. s.nodes \in Nat \ {0} /\ s.ceph.mon \in Nat /\ s.ceph.mgr \in Nat
  BY SpecsAssumption, BoundsAssumption
<1>2. /\ clampCount(s.ceph.mon, 3, s.nodes) \in 1..s.nodes
      /\ clampCount(s.ceph.mgr, 2, s.nodes) \in 1..s.nodes
  BY <1>1 DEF clampCount, maxInt32, minInt32
<1> QED
  BY <1>1, <1>2 DEF EffectiveMonCount, EffectiveMgrCount, maxInt32

\* Every task of the plan is one the pods can be given.
LEMMA PlanTaskType ==
    ASSUME NEW s \in Specs, NEW n \in Nat \ {0}, n <= PlanLen(s)
    PROVE  /\ PlanTask(s, n) \in Tasks
           /\ PlanTask(s, n).step \notin {"cluster-init", "cluster-join"}
<1>1. s.nodes \in 1..MaxNodes /\ MaxNodes \in Nat
  BY SpecsAssumption, BoundsAssumption
<1>2. s.ceph # Nil
  BY DEF PlanLen
<1>3. EffectiveMonCount(s) \in 1..s.nodes /\ EffectiveMgrCount(s) \in 1..s.nodes
  BY <1>2, CountsFitNodes
<1> HIDE DEF EffectiveMonCount, EffectiveMgrCount
<1>4. n <= 2 + EffectiveMonCount(s) + EffectiveMgrCount(s) + s.nodes
  BY <1>2 DEF PlanLen
<1> QED
  BY <1>1, <1>3, <1>4 DEF PlanTask, Task, Tasks, Ordinals

\* A pass works on a StatefulSet of the declared shape.
LEMMA NewStatefulSetType ==
    ASSUME NEW s \in Specs
    PROVE  NewStatefulSet(s) \in StatefulSets
BY SpecsAssumption, BoundsAssumption DEF NewStatefulSet, StatefulSets, maxInt32

\* The table of the status writes, and where three of them continue.
LEMMA PhaseOfDomain ==
    /\ DOMAIN PhaseOf = {"invalid", "pending", "initializing", "initFailed",
                         "initialized", "joining", "joinFailed", "joined",
                         "configuring", "stepFailed", "notUsable", "ready"}
    /\ DOMAIN ContinueAt = {"initializing", "joining", "configuring"}
    /\ \A p \in DOMAIN PhaseOf : PhaseOf[p] \in Phases
    /\ /\ ContinueAt["initializing"] = "init"
       /\ ContinueAt["joining"] = "join"
       /\ ContinueAt["configuring"] = "plan"
<1>1. DOMAIN PhaseOf = {"invalid", "pending", "initializing", "initFailed",
                         "initialized", "joining", "joinFailed", "joined",
                         "configuring", "stepFailed", "notUsable", "ready"}
  BY DEF PhaseOf
<1>2. DOMAIN ContinueAt = {"initializing", "joining", "configuring"}
  BY DEF ContinueAt
<1>3. /\ PhaseOf["invalid"] = "Failed"           /\ PhaseOf["pending"] = "Pending"
      /\ PhaseOf["initializing"] = "Initializing" /\ PhaseOf["initFailed"] = "Failed"
      /\ PhaseOf["initialized"] = "Joining"      /\ PhaseOf["joining"] = "Joining"
      /\ PhaseOf["joinFailed"] = "Joining"       /\ PhaseOf["joined"] = "Joining"
      /\ PhaseOf["configuring"] = "ConfiguringCeph"
      /\ PhaseOf["stepFailed"] = "ConfiguringCeph"
      /\ PhaseOf["notUsable"] = "ConfiguringCeph" /\ PhaseOf["ready"] = "Ready"
  BY DEF PhaseOf
<1>4. \A p \in DOMAIN PhaseOf : PhaseOf[p] \in Phases
  BY <1>1, <1>3 DEF Phases
<1>5. /\ ContinueAt["initializing"] = "init"
      /\ ContinueAt["joining"] = "join"
      /\ ContinueAt["configuring"] = "plan"
  BY DEF ContinueAt
<1> QED
  BY <1>1, <1>2, <1>4, <1>5

\* There are finitely many pods and OSDs: their counts are numbers.
LEMMA OrdinalsFinite ==
    /\ IsFiniteSet(Ordinals)
    /\ \A S \in SUBSET Ordinals : Cardinality(S) \in Nat
    /\ \A S \in SUBSET Osds : Cardinality(S) \in Nat
<1>1. IsFiniteSet(Ordinals) /\ IsFiniteSet(1..MaxOsds)
  BY BoundsAssumption, FS_Interval DEF Ordinals
<1>2. IsFiniteSet(Osds)
  BY <1>1, FS_Product DEF Osds
<1> QED
  BY <1>1, <1>2, FS_Subset, FS_CardinalityType

\* setCondition changes the conditions and nothing else.
LEMMA SetConditionType ==
    ASSUME NEW st \in Statuses, NEW c \in CondTypes, NEW b \in BOOLEAN
    PROVE  /\ setCondition(st, c, b) \in Statuses
           /\ setCondition(st, c, b).joined = st.joined
           /\ setCondition(st, c, b).conds =
                 IF b THEN st.conds \cup {c} ELSE st.conds \ {c}
           /\ \A d \in CondTypes \ {c} : d \in setCondition(st, c, b).conds <=> d \in st.conds
BY DEF setCondition, Statuses

\* A status with another joinedNodes.
LEMMA WithJoinedType ==
    ASSUME NEW st \in Statuses, NEW n \in 0..MaxNodes
    PROVE  /\ [st EXCEPT !.joined = n] \in Statuses
           /\ [st EXCEPT !.joined = n].joined = n
           /\ [st EXCEPT !.joined = n].conds = st.conds
BY DEF Statuses

\* A copy of the object with another status.
LEMMA WithStatusType ==
    ASSUME NEW c \in Clusters, NEW st \in Statuses
    PROVE  /\ [c EXCEPT !.status = st] \in Clusters
           /\ [c EXCEPT !.status = st].status = st
           /\ [c EXCEPT !.status = st].spec = c.spec
BY DEF Clusters

\* A copy of the object that a user or the operator has changed otherwise.
LEMMA EditedType ==
    ASSUME NEW c \in Clusters, NEW s \in Specs
    PROVE  /\ [c EXCEPT !.spec = s, !.gen = @ + 1] \in Clusters
           /\ [c EXCEPT !.spec = s, !.gen = @ + 1].status = c.status
           /\ [c EXCEPT !.deleting = TRUE, !.gen = @ + 1] \in Clusters
           /\ [c EXCEPT !.deleting = TRUE, !.gen = @ + 1].status = c.status
           /\ [c EXCEPT !.fin = TRUE] \in Clusters
           /\ [c EXCEPT !.fin = TRUE].status = c.status
<1>1. c.gen + 1 \in Nat /\ TRUE \in BOOLEAN
  BY DEF Clusters
<1> QED
  BY <1>1 DEF Clusters

\* OSDs are created on the node's own devices, and lost with its container;
\* membership is not touched by either.
LEMMA WithOsdsType ==
    ASSUME NEW i \in Ordinals, NEW D \in SUBSET (1..MaxOsds), pve \in PveStates
    PROVE  WithOsds(i, D) \in PveStates /\ WithOsds(i, D).member = pve.member
<1>1. {i} \X D \subseteq Osds
  BY DEF Osds
<1> DEFINE new == {i} \X D
<1> HIDE DEF new
<1>2. new \subseteq Osds
  BY <1>1 DEF new
<1>3. WithOsds(i, D) = [pve EXCEPT !.osd = @ \cup new, !.osdUp = @ \cup (new \ pve.osd)]
  BY DEF WithOsds, new
<1> QED
  BY <1>2, <1>3 DEF PveStates

\* A replaced container takes the node's daemons with it and no member.
LEMMA ReplacedType ==
    ASSUME NEW N, pve \in PveStates
    PROVE  Replaced(N) \in PveStates /\ Replaced(N).member = pve.member
<1> DEFINE left == {d \in pve.osdUp : d[1] \notin N}
<1>1. left \subseteq pve.osdUp
  OBVIOUS
<1>2. Replaced(N) = [pve EXCEPT !.monDir = @ \ N, !.mgrDir = @ \ N, !.osdUp = left]
  BY DEF Replaced
<1> HIDE DEF left
<1> QED
  BY <1>1, <1>2 DEF PveStates

\* What a finished script leaves behind: a state of Proxmox and Ceph in which
\* only the two membership scripts have added a member, their own node.
LEMMA DoneType ==
    ASSUME TypeOK, NEW t \in Tasks, CanRun(t)
    PROVE  /\ Done(t) \in PveStates
           /\ Done(t).member =
                 IF t.step \in {"cluster-init", "cluster-join"}
                 THEN pve.member \cup {t.ordinal} ELSE pve.member
<1> USE DEF TypeOK
<1>1. t.ordinal \in Ordinals
  BY DEF Tasks
<1>2. OsdDevices \subseteq 1..MaxOsds
  BY BoundsAssumption DEF OsdDevices, StatefulSets, minInt32
<1>3. t.step = "ceph-pool" => mnt \in Specs
  BY DEF CanRun, CanCephPool, HasCephScripts
<1>4. t.step = "ceph-pool" => PoolNames(mnt) \subseteq UNION {PoolNames(s) : s \in Specs}
  BY <1>3
<1>5. /\ WithOsds(t.ordinal, OsdDevices) \in PveStates
      /\ WithOsds(t.ordinal, OsdDevices).member = pve.member
  BY <1>1, <1>2, WithOsdsType
<1>6. pve \in PveStates
  OBVIOUS
<1> HIDE DEF TypeOK, PoolNames, OsdDevices, WithOsds
<1>7. CASE t.step \in {"cluster-init", "cluster-join"}
  <2>1. Done(t) = WithMember(t.ordinal)
    BY <1>7 DEF Done
  <2> QED
    BY <1>1, <1>6, <1>7, <2>1 DEF WithMember, PveStates
<1>8. CASE t.step = "ceph-init"
  <2>1. Done(t) = WithConf
    BY <1>8 DEF Done
  <2> QED
    BY <1>6, <1>8, <2>1 DEF WithConf, PveStates
<1>9. CASE t.step = "ceph-mon"
  <2>1. Done(t) = WithMon(t.ordinal)
    BY <1>9 DEF Done
  <2> DEFINE in == pve.mon \cup {t.ordinal}
             dir == pve.monDir \cup {t.ordinal}
  <2>2. in \in SUBSET Ordinals /\ dir \in SUBSET Ordinals
    BY <1>1, <1>6 DEF PveStates
  <2>3. Done(t) = [pve EXCEPT !.mon = in, !.monDir = dir]
    BY <2>1 DEF WithMon
  <2> HIDE DEF in, dir
  <2> QED
    BY <1>6, <1>9, <2>2, <2>3 DEF PveStates
<1>10. CASE t.step = "ceph-mgr"
  <2>1. Done(t) = WithMgr(t.ordinal)
    BY <1>10 DEF Done
  <2> DEFINE in == pve.mgr \cup {t.ordinal}
             dir == pve.mgrDir \cup {t.ordinal}
  <2>2. in \in SUBSET Ordinals /\ dir \in SUBSET Ordinals
    BY <1>1, <1>6 DEF PveStates
  <2>3. Done(t) = [pve EXCEPT !.mgr = in, !.mgrDir = dir]
    BY <2>1 DEF WithMgr
  <2> HIDE DEF in, dir
  <2> QED
    BY <1>6, <1>10, <2>2, <2>3 DEF PveStates
<1>11. CASE t.step = "ceph-osd"
  <2>1. Done(t) = WithOsds(t.ordinal, OsdDevices)
    BY <1>11 DEF Done
  <2> QED
    BY <1>5, <1>11, <2>1
<1>12. CASE t.step = "ceph-pool"
  <2>1. Done(t) = WithPools(PoolNames(mnt))
    BY <1>12 DEF Done
  <2> QED
    BY <1>4, <1>6, <1>12, <2>1 DEF WithPools, PveStates
<1>13. CASE t.step = "ceph-status"
  <2>1. Done(t) = pve
    BY <1>13 DEF Done
  <2> QED
    BY <1>6, <1>13, <2>1
<1> QED
  BY <1>7, <1>8, <1>9, <1>10, <1>11, <1>12, <1>13 DEF Tasks

\* The same of a script that is cut short.
LEMMA PartialType ==
    ASSUME TypeOK, NEW t \in Tasks, CanRun(t), NEW p \in Partial(t)
    PROVE  /\ p \in PveStates
           /\ p.member = pve.member \/ p.member = Done(t).member
<1>1. Done(t) \in PveStates /\ pve \in PveStates /\ t.ordinal \in Ordinals
  BY DoneType DEF TypeOK, Tasks
<1>2. OsdDevices \subseteq 1..MaxOsds
  BY BoundsAssumption DEF OsdDevices, StatefulSets, minInt32, TypeOK
<1>3. CASE t.step = "ceph-osd"
  <2>1. PICK D \in SUBSET OsdDevices : p = WithOsds(t.ordinal, D)
    BY <1>3 DEF Partial
  <2>2. D \in SUBSET (1..MaxOsds)
    BY <1>2
  <2> QED
    BY <1>1, <2>1, <2>2, WithOsdsType
<1>4. CASE t.step = "ceph-pool"
  <2>1. mnt \in Specs
    BY <1>4 DEF CanRun, CanCephPool, HasCephScripts, TypeOK
  <2>2. PICK P \in SUBSET PoolNames(mnt) : p = [pve EXCEPT !.pools = @ \cup P]
    BY <1>4 DEF Partial, WithPools
  <2> QED
    BY <1>1, <2>1, <2>2 DEF PveStates
<1>5. CASE t.step \notin {"ceph-osd", "ceph-pool"}
  BY <1>1, <1>5 DEF Partial
<1> QED
  BY <1>3, <1>4, <1>5

------------------------------------------------------------------------------
(* The invariant holds initially.                                           *)

\* A cluster that was just stored claims nothing, and nothing has run.
LEMMA InitIInv == Init => IInv
<1> SUFFICES ASSUME Init PROVE IInv
  OBVIOUS
<1>1. PICK s \in Specs : obj = NewCluster(s)
  BY DEF Init
<1>2. NewStatus \in Statuses
  BY BoundsAssumption DEF NewStatus, Statuses, Phases
<1>3. obj \in Clusters
  BY <1>1, <1>2 DEF NewCluster, Clusters
<1>4. TypeOK
  <2>1. pve \in PveStates
    BY DEF Init, PveStates
  <2>2. pc \in Steps
    BY DEF Init, Steps
  <2>3. pod \in [Ordinals -> {"absent", "running", "ready"}]
    BY DEF Init
  <2>4. edits \in 0..MaxEdits /\ faults \in 0..MaxFaults
    BY BoundsAssumption DEF Init
  <2>5. queued \in BOOLEAN
    BY DEF Init
  <2> QED
    BY <1>3, <2>1, <2>2, <2>3, <2>4, <2>5 DEF Init, TypeOK
<1>5. Truthful(obj, pve.member)
  <2>1. obj.status.joined = 0 /\ obj.status.conds = {}
    BY <1>1 DEF NewCluster, NewStatus
  <2> QED
    BY <2>1, BoundsAssumption DEF Truthful, Ordinals
<1> QED
  BY <1>4, <1>5 DEF Init, IInv, PassConsistent, CopiesTruthful, FoundedOnZero

------------------------------------------------------------------------------
(* It is preserved.  First the facts that several actions share.            *)

\* A claim that is true stays true while members only join.
LEMMA TruthfulMonotone ==
    ASSUME NEW c, NEW M, NEW N, M \subseteq N, Truthful(c, M)
    PROVE  Truthful(c, N)
BY DEF Truthful

\* A step that leaves the copies of the object, the pass and the membership
\* alone has only types to preserve.
LEMMA OutsidePass ==
    ASSUME IInv, TypeOK', pve'.member = pve.member,
           UNCHANGED <<obj, cache, pc, mem, k, orphans>>
    PROVE  IInv'
BY DEF IInv, PassConsistent, CopiesTruthful, FoundedOnZero

\* A pass that returns leaves nothing to be consistent with.
LEMMA PassReturns ==
    ASSUME IInv, TypeOK', pc' = "idle", UNCHANGED pve,
           \/ UNCHANGED orphans
           \/ \A t \in orphans' : t.step = "cluster-init" => t.ordinal = 0,
           obj' # Nil => Truthful(obj', pve.member),
           cache' # Nil => Truthful(cache', pve.member)
    PROVE  IInv'
BY DEF IInv, PassConsistent, CopiesTruthful, FoundedOnZero

\* Watches, kubelets and the StatefulSet controller add no member and change
\* no claim; a cache takes over a claim that is true of the stored object.
LEMMA KubernetesIInv == IInv /\ Kubernetes => IInv'
<1> SUFFICES ASSUME IInv, Kubernetes PROVE IInv'
  OBVIOUS
<1> USE DEF operatorVars, kubeVars, pveVars
<1>1. CASE CacheSync
  BY <1>1 DEF CacheSync, IInv, TypeOK, PassConsistent, CopiesTruthful, FoundedOnZero
<1>2. CASE StatefulSetCacheSync
  <2>1. TypeOK'
    BY <1>2 DEF StatefulSetCacheSync, IInv, TypeOK
  <2> QED
    BY <1>2, <2>1, OutsidePass DEF StatefulSetCacheSync
<1>3. CASE KubeletSync
  <2>1. TypeOK'
    BY <1>3 DEF KubeletSync, IInv, TypeOK
  <2> QED
    BY <1>3, <2>1, OutsidePass DEF KubeletSync
<1>4. CASE StatefulSetStatus
  <2>1. Cardinality({i \in Ordinals : pod[i] = "ready"}) \in Nat
    BY OrdinalsFinite
  <2>2. TypeOK'
    BY <1>4, <2>1 DEF StatefulSetStatus, IInv, TypeOK, StatefulSets
  <2> QED
    BY <1>4, <2>2, OutsidePass DEF StatefulSetStatus
<1>5. CASE GarbageCollect
  <2>1. pve' \in PveStates /\ pve'.member = pve.member
    BY <1>5, ReplacedType DEF GarbageCollect, IInv, TypeOK
  <2>2. TypeOK'
    BY <1>5, <2>1 DEF GarbageCollect, IInv, TypeOK
  <2> QED
    BY <1>5, <2>1, <2>2, OutsidePass DEF GarbageCollect
<1>6. CASE \E i \in Ordinals : PodCreated(i) \/ PodBecomesReady(i) \/ PodRemoved(i)
  <2>1. pve' \in PveStates /\ pve'.member = pve.member
    BY <1>6, ReplacedType DEF PodCreated, PodBecomesReady, PodRemoved, IInv, TypeOK
  <2>2. TypeOK'
    BY <1>6, <2>1 DEF PodCreated, PodBecomesReady, PodRemoved, IInv, TypeOK
  <2> QED
    BY <1>6, <2>1, <2>2, OutsidePass DEF PodCreated, PodBecomesReady, PodRemoved
<1> QED
  BY <1>1, <1>2, <1>3, <1>4, <1>5, <1>6 DEF Kubernetes

\* An edit or a deletion leaves the status alone.
LEMMA UserIInv == IInv /\ User => IInv'
<1> SUFFICES ASSUME IInv, User PROVE IInv'
  OBVIOUS
<1> USE DEF operatorVars, kubeVars, pveVars
<1>1. ASSUME NEW s \in Specs, UserEdits(s) PROVE IInv'
  <2>1. obj \in Clusters /\ obj # Nil
    BY <1>1 DEF UserEdits, IInv, TypeOK
  <2>2. obj' \in Clusters /\ obj'.status = obj.status
    BY <1>1, <2>1, EditedType DEF UserEdits
  <2>3. TypeOK'
    BY <1>1, <2>2, BoundsAssumption DEF UserEdits, IInv, TypeOK
  <2>4. CopiesTruthful'
    BY <1>1, <2>1, <2>2 DEF UserEdits, IInv, CopiesTruthful, Truthful
  <2> QED
    BY <1>1, <2>3, <2>4 DEF UserEdits, IInv, PassConsistent, FoundedOnZero
<1>2. CASE UserDeletes
  <2>1. obj \in Clusters /\ obj # Nil
    BY <1>2 DEF UserDeletes, IInv, TypeOK
  <2>2. obj' \in Clusters \cup {Nil} /\ (obj' # Nil => obj'.status = obj.status)
    <3>1. obj.spec \in Specs
      BY <2>1 DEF Clusters
    <3> QED
      BY <1>2, <2>1, <3>1, EditedType DEF UserDeletes
  <2>3. TypeOK'
    BY <1>2, <2>2, BoundsAssumption DEF UserDeletes, IInv, TypeOK
  <2>4. CopiesTruthful'
    BY <1>2, <2>1, <2>2 DEF UserDeletes, IInv, CopiesTruthful, Truthful
  <2> QED
    BY <1>2, <2>3, <2>4 DEF UserDeletes, IInv, PassConsistent, FoundedOnZero
<1> QED
  BY <1>1, <1>2 DEF User

\* A failure is counted within its bound.
LEMMA FaultType == TypeOK /\ Fault => faults' \in 0..MaxFaults
BY BoundsAssumption DEF TypeOK, Fault

\* The script a pass waits for is a task, and cluster-init runs on node 0.
LEMMA RunningType ==
    ASSUME IInv
    PROVE  Running \subseteq Tasks /\ \A t \in Running : t.step = "cluster-init" => t.ordinal = 0
<1>1. CASE pc = "init"
  BY <1>1, BoundsAssumption DEF Running, Task, Tasks, Ordinals
<1>2. CASE pc = "join" /\ k < mem.spec.nodes
  <2>1. mem.spec.nodes \in 1..MaxNodes /\ k \in Nat \ {0}
    BY <1>2, SpecsAssumption DEF IInv, PassConsistent, Clusters, TypeOK
  <2>2. Task("cluster-join", k) \in Tasks
    BY <1>2, <2>1, BoundsAssumption DEF Task, Tasks, Ordinals
  <2> QED
    BY <1>2, <2>2 DEF Running, Task
<1>3. CASE pc = "plan" /\ k <= PlanLen(mem.spec)
  <2>1. mem.spec \in Specs /\ k \in Nat \ {0}
    BY <1>3 DEF IInv, PassConsistent, Clusters, TypeOK
  <2>2. PlanTask(mem.spec, k) \in Tasks /\ PlanTask(mem.spec, k).step # "cluster-init"
    BY <1>3, <2>1, PlanTaskType
  <2> HIDE DEF PlanTask, PlanLen
  <2> QED
    BY <1>3, <2>2 DEF Running
<1>4. CASE Running = {}
  BY <1>4
<1> QED
  BY <1>1, <1>2, <1>3, <1>4 DEF Running

\* Crashes, lost pods and scripts nobody waits for only ever add members.
LEMMA FailureIInv == IInv /\ Failure => IInv'
<1> SUFFICES ASSUME IInv, Failure PROVE IInv'
  OBVIOUS
<1> USE DEF operatorVars, kubeVars, pveVars
<1>1. CASE OperatorCrash
  <2>1. Running \subseteq Tasks /\ \A t \in Running : t.step = "cluster-init" => t.ordinal = 0
    BY RunningType
  <2>2. orphans' \subseteq Tasks /\ \A t \in orphans' : t.step = "cluster-init" => t.ordinal = 0
    BY <1>1, <2>1 DEF OperatorCrash, IInv, TypeOK, FoundedOnZero
  <2>3. faults' \in 0..MaxFaults
    BY <1>1, FaultType DEF OperatorCrash, IInv
  <2>4. queued' \in BOOLEAN /\ pc' \in Steps
    BY <1>1 DEF OperatorCrash, Steps
  <2>5. TypeOK'
    BY <1>1, <2>2, <2>3, <2>4 DEF OperatorCrash, IInv, TypeOK
  <2> QED
    BY <1>1, <2>2, <2>5, PassReturns DEF OperatorCrash, IInv, CopiesTruthful
<1>2. CASE \E i \in Ordinals : PodFails(i)
  <2>1. faults' \in 0..MaxFaults
    BY <1>2, FaultType DEF PodFails, IInv
  <2>2. pve' \in PveStates /\ pve'.member = pve.member
    BY <1>2, ReplacedType DEF PodFails, IInv, TypeOK
  <2>3. TypeOK'
    BY <1>2, <2>1, <2>2 DEF PodFails, IInv, TypeOK
  <2> QED
    BY <1>2, <2>2, <2>3, OutsidePass DEF PodFails
<1>3. ASSUME NEW t \in orphans, OrphanRuns(t) PROVE IInv'
  <2>1. t \in Tasks
    BY DEF IInv, TypeOK
  <2>2. /\ pve' \in PveStates
        /\ \/ pve'.member = pve.member
           \/ /\ t.step \in {"cluster-init", "cluster-join"} /\ CanRun(t)
              /\ pve'.member = pve.member \cup {t.ordinal}
    BY <1>3, <2>1, PartialType, DoneType DEF OrphanRuns, IInv, TypeOK
  <2>3. TypeOK'
    BY <1>3, <2>2 DEF OrphanRuns, IInv, TypeOK
  <2>4. pve.member \subseteq pve'.member
    BY <2>2
  <2>5. FoundedOnZero'
    <3>1. pve'.member # {} => 0 \in pve'.member
      BY <2>2 DEF IInv, FoundedOnZero, CanRun, CanJoin
    <3> QED
      BY <1>3, <3>1 DEF OrphanRuns, IInv, FoundedOnZero
  <2>6. CopiesTruthful'
    BY <1>3, <2>4, TruthfulMonotone DEF OrphanRuns, IInv, CopiesTruthful
  <2>7. PassConsistent'
    BY <1>3, <2>4 DEF OrphanRuns, IInv, PassConsistent
  <2> QED
    BY <2>3, <2>5, <2>6, <2>7 DEF IInv
<1> QED
  BY <1>1, <1>2, <1>3 DEF Failure

\* The rest of the pass starts from a truthful copy whether the spec is valid
\* or not: a rejected Ceph spec touches no membership condition.
LEMMA ValidatedCopy ==
    ASSUME NEW c \in Clusters, NEW M, Truthful(c, M), Validated(c)
    PROVE  /\ pc' \in {"ensure", "invalid"} /\ pc' \in Steps
           /\ mem' \in Clusters /\ Truthful(mem', M)
<1>1. CASE ValidateCeph(c.spec)
  BY <1>1 DEF Validated, Steps
<1>2. CASE ~ValidateCeph(c.spec)
  <2>1. c.status \in Statuses
    BY DEF Clusters
  <2> DEFINE st == setCondition(c.status, "CephInitialized", FALSE)
  <2>2. st \in Statuses /\ st.joined = c.status.joined
        /\ st.conds = c.status.conds \ {"CephInitialized"}
    BY <2>1, SetConditionType DEF CondTypes
  <2>3. mem' = [c EXCEPT !.status = st] /\ pc' = "invalid"
    BY <1>2 DEF Validated
  <2>4. mem' \in Clusters /\ mem'.status = st
    BY <2>2, <2>3, WithStatusType
  <2>5. pc' \in Steps
    BY <2>3, PhaseOfDomain DEF Steps
  <2> HIDE DEF st
  <2> QED
    BY <2>2, <2>3, <2>4, <2>5 DEF Truthful
<1> QED
  BY <1>1, <1>2

\* A step inside a pass that changes only where it is and its copy.
LEMMA PassMoves ==
    ASSUME IInv, pc' \in Steps, mem' \in Clusters, Truthful(mem', pve.member),
           pc' \in {"initializing", "init"} => "ClusterInitialized" \notin mem'.status.conds,
           pc' \in {"joining", "join"} => "ClusterInitialized" \in mem'.status.conds,
           pc' # "join", k' \in Nat \ {0}, queued' \in BOOLEAN,
           UNCHANGED <<obj, cache, kubeVars, pveVars, edits, faults>>
    PROVE  IInv'
<1> USE DEF kubeVars, pveVars
<1>1. TypeOK'
  BY DEF IInv, TypeOK
<1> QED
  BY <1>1 DEF IInv, PassConsistent, CopiesTruthful, FoundedOnZero

\* A pass starts from the cached copy, stale or not, which is truthful.
LEMMA FetchIInv == IInv /\ Fetch => IInv'
<1> SUFFICES ASSUME IInv, Fetch PROVE IInv'
  OBVIOUS
<1>1. queued' \in BOOLEAN /\ k' \in Nat \ {0}
  <2>1. queued' = FALSE /\ k' = 1
    BY DEF Fetch
  <2>2. queued' \in BOOLEAN
    BY <2>1
  <2> QED
    BY <2>1, <2>2
<1>2. CASE cache = Nil
  <2>1. TypeOK'
    BY <1>1, <1>2 DEF Fetch, IInv, TypeOK, kubeVars, pveVars
  <2> QED
    BY <1>2, <2>1, PassReturns DEF Fetch, IInv, CopiesTruthful, kubeVars, pveVars
<1>3. CASE cache # Nil
  <2>1. cache \in Clusters /\ Truthful(cache, pve.member)
    BY <1>3 DEF IInv, TypeOK, CopiesTruthful
  <2>2. CASE cache.deleting \/ ~cache.fin
    <3>1. pc' \in {"removeFinalizer", "addFinalizer"} /\ pc' \in Steps /\ mem' = cache
      BY <1>3, <2>2 DEF Fetch, Steps
    <3> QED
      BY <1>1, <2>1, <3>1, PassMoves DEF Fetch
  <2>3. CASE ~cache.deleting /\ cache.fin
    <3>1. Validated(cache)
      BY <1>3, <2>3 DEF Fetch
    <3>2. /\ pc' \in {"ensure", "invalid"} /\ pc' \in Steps
          /\ mem' \in Clusters /\ Truthful(mem', pve.member)
      BY <2>1, <3>1, ValidatedCopy
    <3> QED
      BY <1>1, <3>2, PassMoves DEF Fetch
  <2> QED
    BY <2>2, <2>3
<1> QED
  BY <1>2, <1>3

\* Adding the finalizer leaves the status alone.
LEMMA AddFinalizerIInv == IInv /\ addFinalizer => IInv'
<1> SUFFICES ASSUME IInv, addFinalizer PROVE IInv'
  OBVIOUS
<1> USE DEF kubeVars, pveVars
<1>1. mem \in Clusters /\ Truthful(mem, pve.member)
  BY DEF addFinalizer, IInv, PassConsistent, CopiesTruthful
<1>2. mem.spec \in Specs
  BY <1>1 DEF Clusters
<1> DEFINE c == [mem EXCEPT !.fin = TRUE]
<1>3. c \in Clusters /\ c.status = mem.status
  BY <1>1, <1>2, EditedType
<1>4. Truthful(c, pve.member)
  BY <1>1, <1>3 DEF Truthful
<1>5. Validated(c)
  BY DEF addFinalizer
<1> HIDE DEF c
<1>6. /\ pc' \in {"ensure", "invalid"} /\ pc' \in Steps
      /\ mem' \in Clusters /\ Truthful(mem', pve.member)
  BY <1>3, <1>4, <1>5, ValidatedCopy
<1>7. obj' = obj \/ (obj # Nil /\ obj' \in Clusters /\ obj'.status = obj.status)
  <2>1. CASE cache.fin
    BY <2>1 DEF addFinalizer
  <2>2. CASE ~cache.fin
    <3>1. obj # Nil /\ obj' = [obj EXCEPT !.fin = TRUE]
      BY <2>2 DEF addFinalizer, CacheIsCurrent
    <3>2. obj \in Clusters
      BY <3>1 DEF IInv, TypeOK
    <3>3. obj.spec \in Specs
      BY <3>2 DEF Clusters
    <3> QED
      BY <3>1, <3>2, <3>3, EditedType
  <2> QED
    BY <2>1, <2>2
<1>8. TypeOK'
  BY <1>6, <1>7 DEF addFinalizer, IInv, TypeOK
<1>9. obj' # Nil => Truthful(obj', pve.member)
  BY <1>7 DEF IInv, CopiesTruthful, Truthful
<1> QED
  BY <1>6, <1>8, <1>9 DEF addFinalizer, IInv, PassConsistent, CopiesTruthful, FoundedOnZero

\* Removing the finalizer removes the object, and with it its claims.
LEMMA RemoveFinalizerIInv == IInv /\ removeFinalizer => IInv'
<1> SUFFICES ASSUME IInv, removeFinalizer PROVE IInv'
  OBVIOUS
<1> USE DEF kubeVars, pveVars
<1>1. pc' = "idle" /\ mem' = Nil /\ k' = 1 /\ queued' \in BOOLEAN /\ pc' \in Steps
  BY DEF removeFinalizer, Return, IInv, TypeOK, Steps
<1>2. obj' = obj \/ obj' = Nil
  BY DEF removeFinalizer
<1>3. TypeOK'
  BY <1>1, <1>2 DEF removeFinalizer, IInv, TypeOK
<1> QED
  BY <1>1, <1>2, <1>3, PassReturns DEF removeFinalizer, IInv, CopiesTruthful

\* Creating or patching what the cluster owns touches no membership.
LEMMA EnsureOwnedIInv == IInv /\ EnsureOwned => IInv'
<1> SUFFICES ASSUME IInv, EnsureOwned PROVE IInv'
  OBVIOUS
<1> USE DEF kubeVars, pveVars
<1>1. mem \in Clusters /\ mem.spec \in Specs
  BY DEF EnsureOwned, IInv, PassConsistent, Clusters
<1>2. CASE pc' = "gate" /\ UNCHANGED <<queued, mem, k, faults>>
           /\ sts' = (IF stsCache = Nil THEN NewStatefulSet(mem.spec)
                      ELSE PatchedStatefulSet(mem.spec))
           /\ (stsCache = Nil) = (sts = Nil)
  <2>1. sts' \in StatefulSets
    <3>1. NewStatefulSet(mem.spec) \in StatefulSets
      BY <1>1, NewStatefulSetType
    <3> HIDE DEF NewStatefulSet
    <3>2. CASE stsCache = Nil
      BY <1>2, <3>1, <3>2
    <3>3. CASE stsCache # Nil
      <4>1. sts \in StatefulSets /\ stsCache \in StatefulSets
        BY <1>2, <3>3 DEF IInv, TypeOK
      <4>2. sts' = PatchedStatefulSet(mem.spec)
        BY <1>2, <3>3
      <4> QED
        BY <3>1, <4>1, <4>2 DEF PatchedStatefulSet, StatefulSets
    <3> QED
      BY <3>2, <3>3
  <2>2. pc' \in Steps
    BY <1>2 DEF Steps
  <2>3. TypeOK'
    BY <1>1, <1>2, <2>1, <2>2 DEF EnsureOwned, IInv, TypeOK
  <2> QED
    BY <1>2, <2>3 DEF EnsureOwned, IInv, PassConsistent, CopiesTruthful, FoundedOnZero
<1>3. CASE Return(TRUE) /\ UNCHANGED sts /\ (UNCHANGED faults \/ Fault)
  <2>1. pc' = "idle" /\ mem' = Nil /\ k' = 1 /\ queued' \in BOOLEAN /\ pc' \in Steps
    BY <1>3 DEF Return, Steps
  <2>2. faults' \in 0..MaxFaults
    BY <1>3, FaultType DEF IInv, TypeOK
  <2>3. TypeOK'
    BY <1>1, <1>3, <2>1, <2>2 DEF EnsureOwned, IInv, TypeOK
  <2> QED
    BY <2>1, <2>3, PassReturns DEF EnsureOwned, IInv, CopiesTruthful
<1> QED
  BY <1>2, <1>3 DEF EnsureOwned

\* The gate selects its branch by the conditions of the copy.
LEMMA GateIInv == IInv /\ Gate => IInv'
<1> SUFFICES ASSUME IInv, Gate PROVE IInv'
  OBVIOUS
<1>1. mem \in Clusters /\ mem.status \in Statuses /\ Truthful(mem, pve.member)
  BY DEF Gate, IInv, PassConsistent, CopiesTruthful, Clusters
<1>2. k' \in Nat \ {0} /\ queued' \in BOOLEAN
  BY DEF Gate, IInv, TypeOK
<1>3. CASE stsCache = Nil
  <2>1. pc' = "pending" /\ mem' = mem
    BY <1>3 DEF Gate
  <2>2. pc' \in Steps
    BY <2>1, PhaseOfDomain DEF Steps
  <2> QED
    BY <1>1, <1>2, <2>1, <2>2, PassMoves DEF Gate
<1>4. CASE stsCache # Nil
  <2> DEFINE ready == stsCache.ready = mem.spec.nodes
             st    == setCondition(mem.status, "StatefulSetReady", ready)
             next  == IF ready THEN AfterGate(st) ELSE "pending"
             quorum == next = "ready" \/ "QuorumHealthy" \in st.conds
             st2   == setCondition(st, "QuorumHealthy", quorum)
  <2>1. pc' = next /\ mem' = [mem EXCEPT !.status = st2]
    BY <1>4 DEF Gate
  <2> HIDE DEF ready, quorum
  <2>2. st \in Statuses /\ st.joined = mem.status.joined
        /\ \A d \in CondTypes \ {"StatefulSetReady"} : d \in st.conds <=> d \in mem.status.conds
    BY <1>1 DEF setCondition, Statuses, CondTypes
  <2>3. next \in {"initializing", "joining", "configuring", "ready", "pending"}
        /\ (next = "initializing" => "ClusterInitialized" \notin st.conds)
        /\ (next = "joining" => "ClusterInitialized" \in st.conds)
    BY DEF AfterGate
  <2> HIDE DEF st, next
  <2>4. st2 \in Statuses /\ st2.joined = st.joined
        /\ \A d \in CondTypes \ {"QuorumHealthy"} : d \in st2.conds <=> d \in st.conds
    BY <2>2 DEF setCondition, Statuses, CondTypes
  <2> HIDE DEF st2
  <2>5. mem' \in Clusters /\ mem'.status = st2
    BY <1>1, <2>1, <2>4, WithStatusType
  <2>6. \A c \in {"ClusterInitialized", "AllNodesJoined"} :
           /\ c \in st2.conds <=> c \in st.conds
           /\ c \in st.conds <=> c \in mem.status.conds
    BY <2>2, <2>4 DEF CondTypes
  <2>7. Truthful(mem', pve.member)
    BY <1>1, <2>2, <2>4, <2>5, <2>6 DEF Truthful
  <2>8. pc' \in Steps
    BY <2>1, <2>3, PhaseOfDomain DEF Steps
  <2> QED
    BY <1>2, <2>1, <2>3, <2>5, <2>6, <2>7, <2>8, PassMoves DEF Gate
<1> QED
  BY <1>3, <1>4

\* A status write makes the copy's claims those of the object.
LEMMA UpdateStatusIInv == IInv /\ updateStatus => IInv'
<1> SUFFICES ASSUME IInv, updateStatus PROVE IInv'
  OBVIOUS
<1> USE DEF kubeVars, pveVars
<1> DEFINE st == [mem.status EXCEPT !.phase = PhaseOf[pc], !.observed = mem.gen]
<1>1. pc # "idle" /\ pc \in DOMAIN PhaseOf
  BY PhaseOfDomain DEF updateStatus
<1>2. mem \in Clusters /\ mem.status \in Statuses /\ Truthful(mem, pve.member) /\ mem.gen \in Nat
      /\ mem.spec \in Specs
  BY <1>1 DEF IInv, PassConsistent, CopiesTruthful, Clusters
<1>3. obj # Nil /\ obj \in Clusters /\ obj' = [obj EXCEPT !.status = st]
  BY DEF updateStatus, CacheIsCurrent, IInv, TypeOK
<1>4. PhaseOf[pc] \in Phases
  BY <1>1, PhaseOfDomain
<1>5. st \in Statuses /\ st.joined = mem.status.joined /\ st.conds = mem.status.conds
  BY <1>2, <1>4 DEF Statuses
<1>6. CASE pc \in DOMAIN ContinueAt
  <2>1. pc' = ContinueAt[pc] /\ mem' = [mem EXCEPT !.status = st] /\ k' = 1 /\ queued' = queued
    BY <1>6 DEF updateStatus
  <2> HIDE DEF st
  <2>2. obj' \in Clusters /\ obj'.status = st /\ mem' \in Clusters /\ mem'.status = st
        /\ mem'.spec = mem.spec
    BY <1>2, <1>3, <1>5, <2>1, WithStatusType
  <2>3. Truthful(obj', pve.member) /\ Truthful(mem', pve.member)
    BY <1>2, <1>5, <2>2 DEF Truthful
  <2>4. pc \in {"initializing", "joining", "configuring"} /\ pc' \in {"init", "join", "plan"}
        /\ (pc' = "init" => pc = "initializing") /\ (pc' = "join" => pc = "joining")
    BY <1>6, <2>1, PhaseOfDomain
  <2>5. TypeOK'
    BY <2>1, <2>2, <2>4 DEF updateStatus, IInv, TypeOK, Steps
  <2>6. PassConsistent'
    <3>1. pc' = "join" => "ClusterInitialized" \in mem.status.conds
      BY <2>4 DEF IInv, PassConsistent
    <3>2. pc' = "init" => "ClusterInitialized" \notin mem.status.conds
      BY <2>4 DEF IInv, PassConsistent
    <3>3. pc' = "join" => 0 \in pve.member
      BY <1>2, <3>1 DEF Truthful
    <3>4. mem'.spec.nodes \in Nat \ {0}
      BY <1>2, <2>2, SpecsAssumption, BoundsAssumption
    <3>5. pc' = "join" => \A i \in Ordinals : i < k' => i \in pve'.member
      BY <2>1, <3>3, BoundsAssumption DEF Ordinals, updateStatus
    <3>6. k' <= mem'.spec.nodes
      BY <2>1, <3>4
    <3> QED
      BY <1>5, <2>2, <2>4, <3>1, <3>2, <3>5, <3>6 DEF PassConsistent
  <2>7. CopiesTruthful'
    BY <2>3 DEF updateStatus, IInv, CopiesTruthful
  <2> QED
    BY <2>5, <2>6, <2>7 DEF updateStatus, IInv, FoundedOnZero
<1>7. CASE pc \notin DOMAIN ContinueAt
  <2>1. Return(pc # "invalid")
    BY <1>7 DEF updateStatus
  <2>2. pc' = "idle" /\ mem' = Nil /\ k' = 1 /\ queued' \in BOOLEAN /\ pc' \in Steps
    BY <2>1 DEF Return, Steps
  <2> HIDE DEF st
  <2>3. obj' \in Clusters /\ obj'.status = st
    BY <1>3, <1>5, WithStatusType
  <2>4. Truthful(obj', pve.member)
    BY <1>2, <1>5, <2>3 DEF Truthful
  <2>5. TypeOK'
    BY <2>2, <2>3 DEF updateStatus, IInv, TypeOK
  <2> QED
    BY <2>2, <2>4, <2>5, PassReturns DEF updateStatus, IInv, CopiesTruthful
<1> QED
  BY <1>6, <1>7

\* A failed API call ends the pass and writes nothing.
LEMMA APIErrorIInv == IInv /\ APIError => IInv'
<1> SUFFICES ASSUME IInv, APIError PROVE IInv'
  OBVIOUS
<1> USE DEF kubeVars, pveVars
<1>1. pc' = "idle" /\ mem' = Nil /\ k' = 1 /\ queued' \in BOOLEAN /\ pc' \in Steps
  BY DEF APIError, Return, Steps
<1>2. faults' \in 0..MaxFaults
  BY FaultType DEF APIError, IInv, TypeOK
<1>3. TypeOK'
  BY <1>1, <1>2 DEF APIError, IInv, TypeOK
<1> QED
  BY <1>1, <1>3, PassReturns DEF APIError, IInv, CopiesTruthful

\* What a call of execScript does to Proxmox and to the scripts left running.
LEMMA ExecOkEffect ==
    ASSUME TypeOK, NEW t \in Tasks, ExecOk(t)
    PROVE  /\ pve' \in PveStates
           /\ pve'.member = IF t.step \in {"cluster-init", "cluster-join"}
                            THEN pve.member \cup {t.ordinal} ELSE pve.member
           /\ orphans' = orphans /\ faults' = faults
BY DoneType DEF ExecOk

\* A script that is reported failed has changed nothing yet; it may run on.
LEMMA ExecErrEffect ==
    ASSUME TypeOK, NEW t \in Tasks, ExecErr(t)
    PROVE  /\ pve' = pve
           /\ orphans' \subseteq orphans \cup {t} /\ orphans' \subseteq Tasks
           /\ faults' \in 0..MaxFaults
BY FaultType DEF ExecErr, TypeOK

\* A step of a pass that runs a script.
LEMMA PassExecutes ==
    ASSUME IInv, pc' \in Steps, mem' \in Clusters, k' \in Nat \ {0}, queued' \in BOOLEAN,
           pve' \in PveStates, pve.member \subseteq pve'.member,
           orphans' \subseteq Tasks, faults' \in 0..MaxFaults,
           UNCHANGED <<obj, cache, kubeVars, edits>>,
           Truthful(mem', pve'.member), PassConsistent', FoundedOnZero'
    PROVE  IInv'
<1>1. TypeOK'
  BY DEF IInv, TypeOK, kubeVars
<1>2. CopiesTruthful'
  BY TruthfulMonotone DEF IInv, CopiesTruthful
<1> QED
  BY <1>1, <1>2 DEF IInv

\* ClusterInitialized is set after node 0 has founded the cluster.
LEMMA ClusterInitIInv == IInv /\ clusterInit => IInv'
<1> SUFFICES ASSUME IInv, clusterInit PROVE IInv'
  OBVIOUS
<1> DEFINE t == Task("cluster-init", 0)
<1>1. t \in Tasks /\ t.step = "cluster-init" /\ t.ordinal = 0
  BY BoundsAssumption DEF Task, Tasks, Ordinals
<1>2. mem \in Clusters /\ mem.status \in Statuses /\ Truthful(mem, pve.member)
      /\ "ClusterInitialized" \notin mem.status.conds
  BY DEF clusterInit, IInv, PassConsistent, CopiesTruthful, Clusters
<1>3. k' \in Nat \ {0} /\ queued' \in BOOLEAN /\ UNCHANGED <<obj, cache, kubeVars, edits>>
  BY DEF clusterInit, IInv, TypeOK
<1>4. CASE ExecOk(t) /\ pc' = "initialized"
           /\ mem' = [mem EXCEPT !.status =
                        [setCondition(@, "ClusterInitialized", TRUE) EXCEPT !.joined = 1]]
  <2>1. pve' \in PveStates /\ pve'.member = pve.member \cup {0}
        /\ orphans' = orphans /\ faults' = faults
    BY <1>1, <1>4, ExecOkEffect DEF IInv
  <2> DEFINE st == [setCondition(mem.status, "ClusterInitialized", TRUE) EXCEPT !.joined = 1]
  <2>2. st \in Statuses /\ st.joined = 1 /\ st.conds = mem.status.conds \cup {"ClusterInitialized"}
    <3>1. setCondition(mem.status, "ClusterInitialized", TRUE) \in Statuses
          /\ setCondition(mem.status, "ClusterInitialized", TRUE).conds =
                 mem.status.conds \cup {"ClusterInitialized"}
      BY <1>2 DEF setCondition, Statuses, CondTypes
    <3>2. 1 \in 0..MaxNodes
      BY BoundsAssumption
    <3> HIDE DEF setCondition
    <3> QED
      BY <3>1, <3>2, WithJoinedType
  <2>3. mem' = [mem EXCEPT !.status = st]
    BY <1>4
  <2> HIDE DEF st
  <2>4. mem' \in Clusters /\ mem'.status = st
    BY <1>2, <2>2, <2>3, WithStatusType
  <2>5. Truthful(mem', pve'.member)
    BY <1>2, <2>1, <2>2, <2>4, BoundsAssumption DEF Truthful, Ordinals
  <2>6. pc' \in Steps
    BY <1>4, PhaseOfDomain DEF Steps
  <2>7. PassConsistent' /\ FoundedOnZero'
    BY <1>4, <2>1, <2>4 DEF PassConsistent, FoundedOnZero, IInv
  <2>8. orphans' \subseteq Tasks /\ faults' \in 0..MaxFaults
    BY <2>1 DEF IInv, TypeOK
  <2> QED
    BY <1>3, <2>1, <2>4, <2>5, <2>6, <2>7, <2>8, PassExecutes
<1>5. CASE ExecErr(t) /\ pc' = "initFailed"
           /\ mem' = [mem EXCEPT !.status = setCondition(@, "ClusterInitialized", FALSE)]
  <2>1. pve' = pve /\ orphans' \subseteq orphans \cup {t} /\ orphans' \subseteq Tasks
        /\ faults' \in 0..MaxFaults
    BY <1>1, <1>5, ExecErrEffect DEF IInv
  <2> DEFINE st == setCondition(mem.status, "ClusterInitialized", FALSE)
  <2>2. st \in Statuses /\ st.joined = mem.status.joined
        /\ st.conds = mem.status.conds \ {"ClusterInitialized"}
    BY <1>2 DEF setCondition, Statuses
  <2>3. mem' = [mem EXCEPT !.status = st]
    BY <1>5
  <2> HIDE DEF st
  <2>4. mem' \in Clusters /\ mem'.status = st
    BY <1>2, <2>2, <2>3, WithStatusType
  <2>5. Truthful(mem', pve'.member)
    BY <1>2, <2>1, <2>2, <2>4 DEF Truthful
  <2>6. pc' \in Steps
    BY <1>5, PhaseOfDomain DEF Steps
  <2>7. PassConsistent' /\ FoundedOnZero'
    BY <1>1, <1>5, <2>1, <2>4 DEF PassConsistent, FoundedOnZero, IInv
  <2>8. pve' \in PveStates
    BY <2>1 DEF IInv, TypeOK
  <2> QED
    BY <1>3, <2>1, <2>4, <2>5, <2>6, <2>7, <2>8, PassExecutes
<1> QED
  BY <1>4, <1>5 DEF clusterInit

\* A failed join reports the nodes that joined before it.
LEMMA ClusterJoinIInv == IInv /\ clusterJoin => IInv'
<1> SUFFICES ASSUME IInv, clusterJoin PROVE IInv'
  OBVIOUS
<1> DEFINE t == Task("cluster-join", k)
<1>1. mem \in Clusters /\ mem.status \in Statuses /\ Truthful(mem, pve.member)
      /\ "ClusterInitialized" \in mem.status.conds
      /\ \A i \in Ordinals : i < k => i \in pve.member
  BY DEF clusterJoin, IInv, PassConsistent, CopiesTruthful, Clusters
<1>2. mem.spec.nodes \in 1..MaxNodes /\ k \in Nat \ {0} /\ k < mem.spec.nodes
  BY <1>1, SpecsAssumption DEF clusterJoin, IInv, TypeOK, Clusters
<1>3. t \in Tasks /\ t.step = "cluster-join" /\ t.ordinal = k
  BY <1>2, BoundsAssumption DEF Task, Tasks, Ordinals
<1>4. queued' \in BOOLEAN /\ UNCHANGED <<obj, cache, kubeVars, edits>>
  BY DEF clusterJoin, IInv, TypeOK
<1>5. 0 \in pve.member
  BY <1>1 DEF Truthful
<1>6. CASE ExecOk(t) /\ k' = k + 1 /\ UNCHANGED <<pc, mem>>
  <2>1. pve' \in PveStates /\ pve'.member = pve.member \cup {k}
        /\ orphans' = orphans /\ faults' = faults
    BY <1>3, <1>6, ExecOkEffect DEF IInv
  <2>2. Truthful(mem', pve'.member)
    BY <1>1, <1>6, <2>1, TruthfulMonotone
  <2>3. \A i \in Ordinals : i < k' => i \in pve'.member
    BY <1>1, <1>2, <1>6, <2>1, BoundsAssumption DEF Ordinals
  <2>4. PassConsistent'
    BY <1>1, <1>2, <1>6, <2>3, BoundsAssumption DEF PassConsistent, clusterJoin
  <2>5. FoundedOnZero' /\ orphans' \subseteq Tasks /\ faults' \in 0..MaxFaults /\ pc' \in Steps
    BY <1>5, <1>6, <2>1 DEF FoundedOnZero, IInv, TypeOK
  <2> QED
    BY <1>1, <1>2, <1>4, <1>6, <2>1, <2>2, <2>4, <2>5, PassExecutes
<1>7. CASE ExecErr(t) /\ pc' = "joinFailed" /\ UNCHANGED k
           /\ mem' = [mem EXCEPT !.status.joined = k]
  <2>1. pve' = pve /\ orphans' \subseteq orphans \cup {t} /\ orphans' \subseteq Tasks
        /\ faults' \in 0..MaxFaults
    BY <1>3, <1>7, ExecErrEffect DEF IInv
  <2>2. mem' \in Clusters /\ mem'.status.joined = k /\ mem'.status.conds = mem.status.conds
    BY <1>1, <1>2, <1>7, BoundsAssumption DEF Clusters, Statuses
  <2>3. Truthful(mem', pve'.member)
    BY <1>1, <1>2, <1>5, <2>1, <2>2 DEF Truthful
  <2>4. pc' \in Steps
    BY <1>7, PhaseOfDomain DEF Steps
  <2>5. PassConsistent' /\ FoundedOnZero'
    BY <1>3, <1>7, <2>1, <2>2 DEF PassConsistent, FoundedOnZero, IInv
  <2>6. pve' \in PveStates
    BY <2>1 DEF IInv, TypeOK
  <2> QED
    BY <1>2, <1>4, <1>7, <2>1, <2>2, <2>3, <2>4, <2>5, <2>6, PassExecutes
<1> QED
  BY <1>6, <1>7 DEF clusterJoin

\* AllNodesJoined is set after the loop has seen every node join.
LEMMA AllNodesJoinedIInv == IInv /\ allNodesJoined => IInv'
<1> SUFFICES ASSUME IInv, allNodesJoined PROVE IInv'
  OBVIOUS
<1>1. mem \in Clusters /\ mem.status \in Statuses /\ Truthful(mem, pve.member)
      /\ "ClusterInitialized" \in mem.status.conds
      /\ \A i \in Ordinals : i < k => i \in pve.member
  BY DEF allNodesJoined, IInv, PassConsistent, CopiesTruthful, Clusters
<1>2. k \in 1..MaxNodes
  <2>1. mem.spec.nodes \in 1..MaxNodes /\ k \in Nat \ {0} /\ k <= mem.spec.nodes
    BY <1>1, SpecsAssumption DEF allNodesJoined, IInv, TypeOK, Clusters, PassConsistent
  <2> QED
    BY <2>1, BoundsAssumption
<1>3. mem' \in Clusters /\ mem'.status.joined = k
      /\ mem'.status.conds = mem.status.conds \cup {"AllNodesJoined", "QuorumHealthy"}
  <2> DEFINE st1 == setCondition(mem.status, "AllNodesJoined", TRUE)
             st2 == setCondition(st1, "QuorumHealthy", TRUE)
  <2>1. st1 \in Statuses /\ st1.conds = mem.status.conds \cup {"AllNodesJoined"}
    BY <1>1 DEF setCondition, Statuses, CondTypes
  <2>2. mem' = [mem EXCEPT !.status = [st2 EXCEPT !.joined = k]]
    BY DEF allNodesJoined
  <2> HIDE DEF st1
  <2>3. st2 \in Statuses /\ st2.conds = st1.conds \cup {"QuorumHealthy"}
    BY <2>1 DEF setCondition, Statuses, CondTypes
  <2> HIDE DEF st2
  <2>4. [st2 EXCEPT !.joined = k] \in Statuses /\ [st2 EXCEPT !.joined = k].joined = k
        /\ [st2 EXCEPT !.joined = k].conds = st2.conds
    BY <1>2, <2>3, WithJoinedType, BoundsAssumption
  <2> QED
    BY <1>1, <2>1, <2>2, <2>3, <2>4, WithStatusType
<1>4. Truthful(mem', pve.member)
  BY <1>1, <1>2, <1>3 DEF Truthful
<1>5. pc' = "joined" /\ pc' \in Steps
  BY PhaseOfDomain DEF allNodesJoined, Steps
<1>6. k' \in Nat \ {0} /\ queued' \in BOOLEAN
  BY DEF allNodesJoined, IInv, TypeOK
<1> QED
  BY <1>3, <1>4, <1>5, <1>6, PassMoves DEF allNodesJoined

\* A task of the Ceph plan adds no member and no membership condition.
LEMMA CephPlanStepIInv == IInv /\ cephPlanStep => IInv'
<1> SUFFICES ASSUME IInv, cephPlanStep PROVE IInv'
  OBVIOUS
<1> DEFINE t == PlanTask(mem.spec, k)
<1>1. mem \in Clusters /\ mem.status \in Statuses /\ Truthful(mem, pve.member)
      /\ mem.spec \in Specs /\ pc = "plan" /\ k \in Nat \ {0} /\ k <= PlanLen(mem.spec)
  BY DEF cephPlanStep, IInv, PassConsistent, CopiesTruthful, Clusters, TypeOK
<1>2. t \in Tasks /\ t.step # "cluster-init" /\ t.step # "cluster-join"
  BY <1>1, PlanTaskType
<1>3. queued' \in BOOLEAN /\ UNCHANGED <<obj, cache, kubeVars, edits>>
  BY DEF cephPlanStep, IInv, TypeOK
<1>4. \/ ExecOk(t) /\ k' = k + 1 /\ UNCHANGED <<pc, mem>>
      \/ /\ ExecErr(t) /\ pc' = "stepFailed" /\ UNCHANGED k
         /\ mem' = [mem EXCEPT !.status = setCondition(@, cephStepCondition(t.step), FALSE)]
  BY DEF cephPlanStep
<1> HIDE DEF t
<1>5. CASE ExecOk(t) /\ k' = k + 1 /\ UNCHANGED <<pc, mem>>
  <2>1. pve' \in PveStates /\ pve'.member = pve.member
        /\ orphans' = orphans /\ faults' = faults
    BY <1>2, <1>5, ExecOkEffect DEF IInv
  <2>2. orphans' \subseteq Tasks /\ faults' \in 0..MaxFaults /\ pc' \in Steps
    BY <1>5, <2>1 DEF IInv, TypeOK
  <2>3. PassConsistent' /\ FoundedOnZero'
    BY <1>1, <1>5, <2>1 DEF PassConsistent, FoundedOnZero, IInv
  <2> QED
    BY <1>1, <1>3, <1>5, <2>1, <2>2, <2>3, PassExecutes
<1>6. CASE /\ ExecErr(t) /\ pc' = "stepFailed" /\ UNCHANGED k
           /\ mem' = [mem EXCEPT !.status = setCondition(@, cephStepCondition(t.step), FALSE)]
  <2>1. pve' = pve /\ orphans' \subseteq orphans \cup {t} /\ orphans' \subseteq Tasks
        /\ faults' \in 0..MaxFaults
    BY <1>2, <1>6, ExecErrEffect DEF IInv
  <2> DEFINE c  == cephStepCondition(t.step)
             st == setCondition(mem.status, c, FALSE)
  <2>2. c \in CondTypes \ {"ClusterInitialized", "AllNodesJoined"}
    BY DEF cephStepCondition, CondTypes
  <2> HIDE DEF c
  <2>3. st \in Statuses /\ st.joined = mem.status.joined /\ st.conds = mem.status.conds \ {c}
    BY <1>1 DEF setCondition, Statuses
  <2>4. mem' = [mem EXCEPT !.status = st]
    BY <1>6 DEF c
  <2> HIDE DEF st
  <2>5. mem' \in Clusters /\ mem'.status = st
    BY <1>1, <2>3, <2>4, WithStatusType
  <2>6. Truthful(mem', pve'.member)
    BY <1>1, <2>1, <2>2, <2>3, <2>5 DEF Truthful
  <2>7. pc' \in Steps
    BY <1>6, PhaseOfDomain DEF Steps
  <2>8. PassConsistent' /\ FoundedOnZero'
    BY <1>2, <1>6, <2>1, <2>5 DEF PassConsistent, FoundedOnZero, IInv
  <2>9. pve' \in PveStates
    BY <2>1 DEF IInv, TypeOK
  <2> QED
    BY <1>1, <1>3, <1>6, <2>1, <2>5, <2>6, <2>7, <2>8, <2>9, PassExecutes
<1> QED
  BY <1>4, <1>5, <1>6

\* What the operator makes of the line ceph-status.sh prints.
LEMMA PolledStatusType ==
    ASSUME TypeOK, NEW s \in Specs, NEW health \in {"HEALTH_OK", "HEALTH_ERR"}
    PROVE  ParseCephStatus(s, StatusLine(health)) \in CephStatuses
<1>1. Cardinality({d \in pve.osdUp : Up(d[1])}) \in Nat
  BY OrdinalsFinite DEF TypeOK, PveStates
<1>2. ExpectedOSDs(s) \in Nat
  BY SpecsAssumption, BoundsAssumption DEF ExpectedOSDs, maxInt32
<1> DEFINE line == StatusLine(health)
<1>3. /\ DOMAIN line = {"health", "osds_up"} /\ line.osds_up \in Nat
      /\ line.health \in {"HEALTH_OK", "HEALTH_ERR", "UNREACHABLE", "UNINITIALIZED"}
  BY <1>1 DEF StatusLine
<1> HIDE DEF line, ExpectedOSDs
<1> QED
  BY <1>2, <1>3 DEF ParseCephStatus, CephStatuses, line

\* Polling Ceph sets conditions of Ceph and of the quorum only.
LEMMA CephStatusIInv == IInv /\ cephStatus => IInv'
<1> SUFFICES ASSUME IInv, cephStatus PROVE IInv'
  OBVIOUS
<1>1. mem \in Clusters /\ mem.status \in Statuses /\ Truthful(mem, pve.member)
      /\ mem.spec \in Specs /\ pc = "plan" /\ k \in Nat \ {0}
  BY DEF cephStatus, IInv, PassConsistent, CopiesTruthful, Clusters, TypeOK
<1>2. StatusTask \in Tasks /\ StatusTask.step = "ceph-status"
  BY BoundsAssumption DEF StatusTask, Task, Tasks, Ordinals
<1>3. UNCHANGED <<obj, cache, kubeVars, edits>>
  BY DEF cephStatus
<1>4. ASSUME NEW health \in {"HEALTH_OK", "HEALTH_ERR"}, NEW st \in CephStatuses,
             IF health = "HEALTH_ERR" THEN Fault ELSE UNCHANGED faults,
             pc' = IF CephUsable(st) THEN "ready" ELSE "notUsable",
             mem' = [mem EXCEPT !.status.ceph = st, !.status.conds = CephConds(@, st)],
             UNCHANGED <<k, queued, pveVars>>
      PROVE  IInv'
  <2> DEFINE conds == CephConds(mem.status.conds, st)
  <2>1. conds \in SUBSET CondTypes
        /\ \A c \in {"ClusterInitialized", "AllNodesJoined"} :
              c \in conds <=> c \in mem.status.conds
    BY <1>1 DEF CephConds, CondTypes, Statuses
  <2>2. mem' = [mem EXCEPT !.status.ceph = st, !.status.conds = conds]
    BY <1>4
  <2> HIDE DEF conds
  <2>3. mem' \in Clusters /\ mem'.status.joined = mem.status.joined /\ mem'.status.conds = conds
    BY <1>1, <2>1, <2>2 DEF Clusters, Statuses
  <2>4. Truthful(mem', pve'.member)
    BY <1>1, <1>4, <2>1, <2>3 DEF Truthful, pveVars
  <2>5. pc' \in {"ready", "notUsable"} /\ pc' \in Steps
    BY <1>4, PhaseOfDomain DEF Steps
  <2>6. faults' \in 0..MaxFaults
    BY <1>4, FaultType DEF IInv, TypeOK
  <2>7. PassConsistent' /\ FoundedOnZero'
    BY <1>4, <2>3, <2>5 DEF PassConsistent, FoundedOnZero, IInv, pveVars
  <2>8. pve' \in PveStates /\ orphans' \subseteq Tasks /\ k' \in Nat \ {0} /\ queued' \in BOOLEAN
        /\ pve' = pve
    BY <1>4 DEF IInv, TypeOK, pveVars
  <2> QED
    BY <1>3, <2>3, <2>4, <2>5, <2>6, <2>7, <2>8, PassExecutes
<1>5. CASE ExecErr(StatusTask) /\ Return(TRUE)
  <2>1. pve' = pve /\ orphans' \subseteq orphans \cup {StatusTask} /\ orphans' \subseteq Tasks
        /\ faults' \in 0..MaxFaults
    BY <1>2, <1>5, ExecErrEffect DEF IInv
  <2>2. pc' = "idle" /\ mem' = Nil /\ k' = 1 /\ queued' \in BOOLEAN /\ pc' \in Steps
    BY <1>5 DEF Return, Steps
  <2>3. TypeOK'
    BY <1>3, <2>1, <2>2 DEF IInv, TypeOK, kubeVars
  <2>4. \A t \in orphans' : t.step = "cluster-init" => t.ordinal = 0
    BY <1>2, <2>1 DEF IInv, FoundedOnZero
  <2> QED
    BY <1>3, <2>1, <2>2, <2>3, <2>4, PassReturns DEF IInv, CopiesTruthful
<1>6. \/ \E health \in {"HEALTH_OK", "HEALTH_ERR"} :
            LET st == ParseCephStatus(mem.spec, StatusLine(health)) IN
            /\ IF health = "HEALTH_ERR" THEN Fault ELSE UNCHANGED faults
            /\ pc' = IF CephUsable(st) THEN "ready" ELSE "notUsable"
            /\ mem' = [mem EXCEPT !.status.ceph = st, !.status.conds = CephConds(@, st)]
            /\ UNCHANGED <<k, queued, pveVars>>
      \/ ExecErr(StatusTask) /\ Return(TRUE)
  BY DEF cephStatus
<1>7. CASE ExecErr(StatusTask) /\ Return(TRUE)
  BY <1>5, <1>7
<1>8. ASSUME NEW health \in {"HEALTH_OK", "HEALTH_ERR"},
             LET st == ParseCephStatus(mem.spec, StatusLine(health)) IN
             /\ IF health = "HEALTH_ERR" THEN Fault ELSE UNCHANGED faults
             /\ pc' = IF CephUsable(st) THEN "ready" ELSE "notUsable"
             /\ mem' = [mem EXCEPT !.status.ceph = st, !.status.conds = CephConds(@, st)]
             /\ UNCHANGED <<k, queued, pveVars>>
      PROVE  IInv'
  <2>1. ParseCephStatus(mem.spec, StatusLine(health)) \in CephStatuses
    BY <1>1, PolledStatusType DEF IInv
  <2> HIDE DEF ParseCephStatus, StatusLine, CephConds, CephUsable
  <2> QED
    BY <1>4, <1>8, <2>1
<1> QED
  BY <1>6, <1>7, <1>8

\* Every step of a pass preserves the invariant.
LEMMA ReconcileIInv == IInv /\ Reconcile => IInv'
BY FetchIInv, AddFinalizerIInv, RemoveFinalizerIInv, EnsureOwnedIInv, GateIInv,
   UpdateStatusIInv, ClusterInitIInv, ClusterJoinIInv, AllNodesJoinedIInv,
   CephPlanStepIInv, CephStatusIInv, APIErrorIInv
   DEF Reconcile

\* So does every step of the system.
LEMMA NextIInv == IInv /\ [Next]_vars => IInv'
<1> SUFFICES ASSUME IInv, [Next]_vars PROVE IInv'
  OBVIOUS
<1>1. CASE Next
  BY <1>1, ReconcileIInv, KubernetesIInv, UserIInv, FailureIInv DEF Next
<1>2. CASE UNCHANGED vars
  <2>1. TypeOK'
    BY <1>2 DEF vars, operatorVars, kubeVars, pveVars, IInv, TypeOK
  <2> QED
    BY <1>2, <2>1, OutsidePass DEF vars, operatorVars, kubeVars, pveVars
<1> QED
  BY <1>1, <1>2

------------------------------------------------------------------------------
(* The theorems.                                                            *)

\* IInv is an invariant.
LEMMA Inductive == Spec => []IInv
BY InitIInv, NextIInv, PTL DEF Spec

\* Type correctness: whatever the interleaving of passes, watches, users and
\* failures, every object the operator keeps has the shape of the Go type it
\* stands for; joinedNodes in particular never exceeds the largest cluster.
THEOREM TypeCorrect == Spec => []TypeOK
BY Inductive, PTL DEF IInv

\* The reported membership is never ahead of the real one: joinedNodes and the
\* conditions ClusterInitialized and AllNodesJoined, also when a pass writes
\* back a stale status, a script fails after it took effect or the operator
\* crashes between a script and its status write.
THEOREM ReportedNodesAreMembers == Spec => []JoinedNodesAreMembers
<1>1. IInv => JoinedNodesAreMembers
  BY DEF IInv, CopiesTruthful, Truthful, JoinedNodesAreMembers
<1> QED
  BY <1>1, Inductive, PTL

\* A step adds at most one member, to a cluster that exists or on node 0, and
\* then leaves the object alone.
LEMMA MemberStep ==
    ASSUME IInv, [Next]_vars
    PROVE  \/ pve'.member = pve.member
           \/ /\ UNCHANGED obj
              /\ \E i \in Ordinals : /\ pve'.member = pve.member \cup {i}
                                     /\ i = 0 \/ 0 \in pve.member
<1> USE DEF operatorVars, kubeVars, pveVars
<1>1. ASSUME NEW t \in Tasks, CanRun(t), t.step = "cluster-init" => t.ordinal = 0,
             pve'.member = Done(t).member
      PROVE  \/ pve'.member = pve.member
             \/ \E i \in Ordinals : /\ pve'.member = pve.member \cup {i}
                                    /\ i = 0 \/ 0 \in pve.member
  <2>1. t.ordinal \in Ordinals
    BY DEF Tasks
  <2>2. t.step = "cluster-join" => 0 \in pve.member
    BY <1>1 DEF CanRun, CanJoin, IInv, FoundedOnZero
  <2>3. pve'.member = IF t.step \in {"cluster-init", "cluster-join"}
                      THEN pve.member \cup {t.ordinal} ELSE pve.member
    BY <1>1, DoneType DEF IInv
  <2> QED
    BY <1>1, <2>1, <2>2, <2>3
<1>2. CASE clusterInit
  <2>1. Task("cluster-init", 0) \in Tasks /\ Task("cluster-init", 0).ordinal = 0
    BY BoundsAssumption DEF Task, Tasks, Ordinals
  <2>2. UNCHANGED obj
        /\ (UNCHANGED pve \/ (CanRun(Task("cluster-init", 0)) /\ pve' = Done(Task("cluster-init", 0))))
    BY <1>2 DEF clusterInit, ExecOk, ExecErr
  <2> QED
    BY <1>1, <2>1, <2>2
<1>3. CASE clusterJoin \/ cephPlanStep
  <2>1. \E t \in Running : UNCHANGED obj /\ (UNCHANGED pve \/ (CanRun(t) /\ pve' = Done(t)))
    <3>1. CASE clusterJoin
      <4>1. Running = {Task("cluster-join", k)}
        BY <3>1 DEF clusterJoin, Running
      <4> QED
        BY <3>1, <4>1 DEF clusterJoin, ExecOk, ExecErr
    <3>2. CASE cephPlanStep
      <4>1. Running = {PlanTask(mem.spec, k)}
        BY <3>2 DEF cephPlanStep, Running
      <4> QED
        BY <3>2, <4>1 DEF cephPlanStep, ExecOk, ExecErr
    <3> QED
      BY <1>3, <3>1, <3>2
  <2> QED
    BY <1>1, <2>1, RunningType
<1>4. ASSUME NEW t \in orphans, OrphanRuns(t) PROVE UNCHANGED obj /\
             \/ pve'.member = pve.member
             \/ \E i \in Ordinals : /\ pve'.member = pve.member \cup {i}
                                    /\ i = 0 \/ 0 \in pve.member
  <2>1. t \in Tasks /\ (t.step = "cluster-init" => t.ordinal = 0)
    BY DEF IInv, TypeOK, FoundedOnZero
  <2>2. \/ pve'.member = pve.member
        \/ CanRun(t) /\ pve'.member = Done(t).member
    BY <1>4, <2>1, PartialType DEF OrphanRuns, IInv
  <2> QED
    BY <1>1, <1>4, <2>1, <2>2 DEF OrphanRuns
<1>5. CASE Kubernetes
  <2>1. \A N : Replaced(N).member = pve.member
    BY ReplacedType DEF IInv, TypeOK
  <2> QED
    BY <1>5, <2>1 DEF Kubernetes, CacheSync, StatefulSetCacheSync, KubeletSync,
              StatefulSetStatus, GarbageCollect, PodCreated, PodBecomesReady, PodRemoved
<1>6. CASE User
  BY <1>6 DEF User, UserEdits, UserDeletes
<1>7. CASE OperatorCrash \/ \E i \in Ordinals : PodFails(i)
  BY <1>7, ReplacedType DEF IInv, TypeOK, OperatorCrash, PodFails
<1>8. CASE Fetch \/ addFinalizer \/ removeFinalizer \/ EnsureOwned \/ Gate \/ updateStatus
           \/ allNodesJoined \/ cephStatus \/ APIError
  BY <1>8 DEF Fetch, addFinalizer, removeFinalizer, EnsureOwned, Gate, updateStatus,
              allNodesJoined, cephStatus, ExecErr, APIError
<1>9. CASE UNCHANGED vars
  BY <1>9 DEF vars
<1> QED
  BY <1>2, <1>3, <1>4, <1>5, <1>6, <1>7, <1>8, <1>9 DEF Next, Reconcile, Failure

\* The operator implements ClusterFormation: node 0 founds the cluster, nodes
\* only join a cluster that exists, none is lost, and each report is covered
\* by members at the moment it is written.
THEOREM RefinesFormation == Spec => ImplementsFormation
<1> DEFINE claim == IF obj = Nil THEN 0 ELSE obj.status.joined
<1>1. Init => Formation!Init
  <2> SUFFICES ASSUME Init PROVE Formation!Init
    OBVIOUS
  <2>1. PICK s \in Specs : obj = NewCluster(s)
    BY DEF Init
  <2>2. obj.status.joined = 0 /\ pve.member = {}
    BY <2>1 DEF Init, NewCluster, NewStatus
  <2> QED
    BY <2>2 DEF Formation!Init
<1>2. IInv /\ IInv' /\ [Next]_vars => [Formation!Next]_<<pve.member, claim>>
  <2> SUFFICES ASSUME IInv, IInv', [Next]_vars, ~UNCHANGED <<pve.member, claim>>
               PROVE  Formation!Next
    OBVIOUS
  <2>1. CASE pve'.member = pve.member
    <3>1. claim' \in 0..MaxNodes
      BY BoundsAssumption DEF IInv, TypeOK, Clusters, Statuses
    <3>2. \A i \in Ordinals : i < claim' => i \in pve.member
      BY <2>1, BoundsAssumption DEF IInv, CopiesTruthful, Truthful, Ordinals
    <3>3. Formation!Report(claim')
      BY <2>1, <3>2 DEF Formation!Report
    <3> QED
      BY <3>1, <3>3 DEF Formation!Next
  <2>2. ASSUME UNCHANGED obj, pve'.member # pve.member, NEW i \in Ordinals,
               pve'.member = pve.member \cup {i}, i = 0 \/ 0 \in pve.member
        PROVE  Formation!Next
    <3>1. CASE pve.member = {}
      BY <2>2, <3>1 DEF Formation!Next, Formation!Found
    <3>2. CASE 0 \in pve.member
      BY <2>2, <3>2 DEF Formation!Next, Formation!Join
    <3> QED
      BY <3>1, <3>2 DEF IInv, FoundedOnZero
  <2> QED
    BY <2>1, <2>2, MemberStep
<1> QED
  BY <1>1, <1>2, Inductive, PTL DEF Spec, ImplementsFormation, Formation!Spec

------------------------------------------------------------------------------
(* The finalizer protocol.                                                  *)

\* A pass that may create objects runs under a stored finalizer; a cached
\* finalizer is a stored one, unless the object was removed, and then the
\* cached copy is already marked deleted.
FinalizerHeld ==
    /\ pc \notin {"idle", "addFinalizer", "removeFinalizer"} => obj # Nil /\ obj.fin
    /\ (pc = "addFinalizer" /\ cache # Nil /\ cache.fin) => obj # Nil /\ obj.fin
    /\ pc = "removeFinalizer" => obj = Nil \/ obj.deleting
    /\ (cache # Nil /\ cache.fin) => IF obj = Nil THEN cache.deleting ELSE obj.fin
    /\ (cache # Nil /\ cache.deleting) => obj = Nil \/ obj.deleting

\* A write to the object leaves it there, and its marks as they were.
LEMMA MarksKept ==
    ASSUME NEW c \in Clusters, NEW st, NEW s
    PROVE  /\ c # Nil
           /\ [c EXCEPT !.status = st].fin = c.fin
           /\ [c EXCEPT !.status = st].deleting = c.deleting
           /\ [c EXCEPT !.spec = s, !.gen = @ + 1].fin = c.fin
           /\ [c EXCEPT !.spec = s, !.gen = @ + 1].deleting = c.deleting
           /\ [c EXCEPT !.deleting = TRUE, !.gen = @ + 1].fin = c.fin
           /\ [c EXCEPT !.deleting = TRUE, !.gen = @ + 1].deleting = TRUE
           /\ [c EXCEPT !.fin = TRUE].fin = TRUE
           /\ [c EXCEPT !.fin = TRUE].deleting = c.deleting
BY NilAssumption DEF Clusters

\* A status write leaves an object of the declared shape.
LEMMA StatusWriteKeepsObject ==
    ASSUME IInv, updateStatus
    PROVE  obj' \in Clusters
<1> DEFINE st == [mem.status EXCEPT !.phase = PhaseOf[pc], !.observed = mem.gen]
<1>1. pc # "idle" /\ PhaseOf[pc] \in Phases
  BY PhaseOfDomain DEF updateStatus
<1>2. mem.status \in Statuses /\ mem.gen \in Nat
  BY <1>1 DEF IInv, PassConsistent, Clusters
<1>3. st \in Statuses
  BY <1>1, <1>2 DEF Statuses
<1>4. obj \in Clusters /\ obj' = [obj EXCEPT !.status = st]
  BY DEF updateStatus, CacheIsCurrent, IInv, TypeOK
<1> HIDE DEF st
<1> QED
  BY <1>3, <1>4, WithStatusType

\* The finalizer is held through every step.
LEMMA FinalizerStep == IInv /\ IInv' /\ FinalizerHeld /\ [Next]_vars => FinalizerHeld'
<1> SUFFICES ASSUME IInv, IInv', FinalizerHeld, [Next]_vars PROVE FinalizerHeld'
  OBVIOUS
<1> USE DEF operatorVars, kubeVars, pveVars
<1>0. obj \in Clusters \cup {Nil} /\ obj' \in Clusters \cup {Nil} /\ Nil \notin Clusters
  BY NilAssumption DEF IInv, TypeOK
<1>1. CASE Fetch
  BY <1>1 DEF Fetch, Validated, FinalizerHeld
<1>2. CASE addFinalizer
  <2>1. pc' \in {"ensure", "invalid"}
    BY <1>2 DEF addFinalizer, Validated
  <2>2. CASE cache.fin
    BY <1>2, <2>1, <2>2 DEF addFinalizer, FinalizerHeld
  <2>3. CASE ~cache.fin
    <3>1. obj # Nil /\ obj' = [obj EXCEPT !.fin = TRUE]
      BY <1>2, <2>3 DEF addFinalizer, CacheIsCurrent
    <3>2. obj' # Nil /\ obj'.fin /\ obj'.deleting = obj.deleting
      BY <1>0, <3>1, EditedType, MarksKept DEF Clusters
    <3> QED
      BY <1>2, <2>1, <2>3, <3>1, <3>2 DEF addFinalizer, FinalizerHeld
  <2> QED
    BY <2>2, <2>3
<1>3. CASE removeFinalizer
  BY <1>3 DEF removeFinalizer, Return, CacheIsCurrent, FinalizerHeld
<1>4. CASE updateStatus
  <2>1. obj # Nil /\ pc \in DOMAIN PhaseOf
        /\ \E st : obj' = [obj EXCEPT !.status = st]
    BY <1>4 DEF updateStatus, CacheIsCurrent
  <2>2. obj'.fin = obj.fin /\ obj'.deleting = obj.deleting /\ obj' # Nil
    <3>1. PICK st : obj' = [obj EXCEPT !.status = st]
      BY <2>1
    <3>2. obj' # Nil
      BY <1>0, <1>4, StatusWriteKeepsObject
    <3> QED
      BY <1>0, <2>1, <3>1, <3>2, MarksKept
  <2>3. pc \notin {"idle", "addFinalizer", "removeFinalizer"}
        /\ pc' \notin {"addFinalizer", "removeFinalizer"} /\ UNCHANGED cache
    BY <1>4, PhaseOfDomain DEF updateStatus, Return
  <2> QED
    BY <2>1, <2>2, <2>3 DEF FinalizerHeld
<1>5. CASE EnsureOwned \/ Gate \/ clusterInit \/ clusterJoin \/ allNodesJoined
           \/ cephPlanStep \/ cephStatus \/ APIError
  <2>1. UNCHANGED <<obj, cache>> /\ (pc' = "idle" \/ pc \notin {"idle", "addFinalizer", "removeFinalizer"})
        /\ pc' \notin {"addFinalizer", "removeFinalizer"}
    BY <1>5 DEF EnsureOwned, Gate, AfterGate, clusterInit, clusterJoin, allNodesJoined,
                cephPlanStep, cephStatus, APIError, Return
  <2> QED
    BY <2>1 DEF FinalizerHeld
<1>6. CASE CacheSync
  BY <1>6 DEF CacheSync, FinalizerHeld
<1>7. CASE Kubernetes /\ ~CacheSync
  BY <1>7 DEF Kubernetes, StatefulSetCacheSync, KubeletSync, StatefulSetStatus,
              GarbageCollect, PodCreated, PodBecomesReady, PodRemoved, FinalizerHeld
<1>8. ASSUME NEW s \in Specs, UserEdits(s) PROVE FinalizerHeld'
  <2>1. obj # Nil /\ obj' = [obj EXCEPT !.spec = s, !.gen = @ + 1] /\ UNCHANGED <<pc, cache>>
    BY <1>8 DEF UserEdits
  <2>2. obj' # Nil /\ obj'.fin = obj.fin /\ obj'.deleting = obj.deleting
    BY <1>0, <2>1, EditedType, MarksKept
  <2> QED
    BY <2>1, <2>2 DEF FinalizerHeld
<1>9. CASE UserDeletes
  <2>1. CASE obj.fin
    <3>1. obj # Nil /\ obj' = [obj EXCEPT !.deleting = TRUE, !.gen = @ + 1] /\ UNCHANGED <<pc, cache>>
      BY <1>9, <2>1 DEF UserDeletes
    <3>2. obj.spec \in Specs
      BY <1>0, <3>1 DEF Clusters
    <3>3. obj' # Nil /\ obj'.fin = obj.fin /\ obj'.deleting = TRUE
      BY <1>0, <3>1, <3>2, EditedType, MarksKept
    <3> QED
      BY <3>1, <3>3 DEF FinalizerHeld
  <2>2. CASE ~obj.fin
    BY <1>9, <2>2 DEF UserDeletes, FinalizerHeld
  <2> QED
    BY <2>1, <2>2
<1>10. CASE OperatorCrash
  BY <1>10 DEF OperatorCrash, FinalizerHeld
<1>11. CASE (\E i \in Ordinals : PodFails(i)) \/ (\E t \in orphans : OrphanRuns(t))
  BY <1>11 DEF PodFails, OrphanRuns, FinalizerHeld
<1>12. CASE UNCHANGED vars
  BY <1>12 DEF vars, FinalizerHeld
<1> QED
  BY <1>1, <1>2, <1>3, <1>4, <1>5, <1>6, <1>7, <1>8, <1>9, <1>10, <1>11, <1>12
     DEF Next, Reconcile, User, Failure

\* The finalizer does its work: once the object is gone and its StatefulSet
\* collected, no pass still under way creates a StatefulSet that nothing would
\* ever collect.
THEOREM NothingProvisioned == Spec => NothingProvisionedAfterRemoval
<1>1. Init => FinalizerHeld
  BY DEF Init, FinalizerHeld
<1>2. FinalizerHeld /\ [Next]_vars => [(obj = Nil /\ sts = Nil) => sts' = Nil]_vars
  <2> SUFFICES ASSUME FinalizerHeld, Next, obj = Nil, sts = Nil PROVE sts' = Nil
    OBVIOUS
  <2> USE DEF operatorVars, kubeVars, pveVars
  <2>1. ~EnsureOwned
    BY DEF EnsureOwned, FinalizerHeld
  <2>2. CASE Reconcile
    BY <2>1, <2>2 DEF Reconcile, Fetch, addFinalizer, removeFinalizer, Gate, updateStatus,
       clusterInit, clusterJoin, allNodesJoined, cephPlanStep, cephStatus, APIError
  <2>3. CASE Kubernetes
    BY <2>3 DEF Kubernetes, CacheSync, StatefulSetCacheSync, KubeletSync, StatefulSetStatus,
       GarbageCollect, PodCreated, PodBecomesReady, PodRemoved
  <2>4. CASE User
    BY <2>4 DEF User, UserEdits, UserDeletes
  <2>5. CASE Failure
    BY <2>5 DEF Failure, OperatorCrash, PodFails, OrphanRuns
  <2> QED
    BY <2>2, <2>3, <2>4, <2>5 DEF Next
<1> QED
  BY <1>1, <1>2, FinalizerStep, Inductive, PTL DEF Spec, NothingProvisionedAfterRemoval
=============================================================================
