-------------------------- MODULE ClusterReconcile --------------------------
(***************************************************************************)
(* The reconcile loop of the ProxmoxCluster operator and the world it runs *)
(* in.                                                                     *)
(*                                                                         *)
(* One worker takes the cluster's key from the work queue, reads the       *)
(* object from its informer cache into memory (mem) and walks the steps of *)
(* Reconcile.  Its reads come from a cache that lags the API server; its   *)
(* writes re-read the object and are refused while the cache is behind; it *)
(* runs scripts in the pods, any of which can fail, or go on running after *)
(* the operator has given up on them; it can crash at any point.           *)
(*                                                                         *)
(*   obj, cache      the ProxmoxCluster in the API server / in the cache   *)
(*   queued          the key is in the work queue                          *)
(*   pc, mem, k      the running pass: where it is, its copy of the        *)
(*                   object, its loop counter                              *)
(*   sts, stsCache   the StatefulSet in the API server / in the cache      *)
(*   cm, mnt         the spec rendered into the ConfigMap / into the       *)
(*                   scripts mounted in the pods                           *)
(*   pod             the pods of the StatefulSet                           *)
(*   pve             the state of Proxmox and Ceph inside the pods         *)
(*   orphans         scripts still running that no pass waits for          *)
(*   edits, faults   how often users and failures have acted (bounds)      *)
(***************************************************************************)
EXTENDS CephPlan, FiniteSets

CONSTANTS Specs,      \* the specs a user may store
          MaxNodes,   \* the largest spec.nodes among them
          MaxOsds,    \* the largest spec.ceph.osdsPerNode among them
          MaxEdits,   \* bound: edits and deletions by users
          MaxFaults   \* bound: failures of pods, scripts, API calls, operator

ASSUME BoundsAssumption ==
    /\ MaxNodes \in Nat \ {0}
    /\ MaxOsds \in Nat \ {0}
    /\ MaxEdits \in Nat
    /\ MaxFaults \in Nat

ASSUME SpecsAssumption ==
    \A s \in Specs :
        /\ s.nodes \in 1..MaxNodes
        /\ s.ceph # Nil => /\ s.ceph.mon \in Nat
                           /\ s.ceph.mgr \in Nat
                           /\ s.ceph.osds \in 0..MaxOsds

VARIABLES obj, cache, queued, pc, mem, k,
          sts, stsCache, cm, mnt, pod, pve, orphans, edits, faults

operatorVars == <<queued, pc, mem, k>>
kubeVars     == <<sts, stsCache, cm, mnt, pod>>
pveVars      == <<pve, orphans>>
vars == <<obj, cache, operatorVars, kubeVars, pveVars, edits, faults>>

------------------------------------------------------------------------------
Ordinals == 0..(MaxNodes - 1)

Phases == {"", "Pending", "Initializing", "Joining", "ConfiguringCeph",
           "Ready", "Failed"}

CondTypes == {"StatefulSetReady", "ClusterInitialized", "AllNodesJoined",
              "QuorumHealthy", "CephInitialized", "CephMonsReady",
              "CephOSDsReady", "CephPoolsReady", "CephHealthy"}

\* status.conditions is the set of the conditions that are True: Reconcile
\* reads a condition only through IsStatusConditionTrue.
NewStatus == [phase |-> "", observed |-> 0, joined |-> 0, conds |-> {}, ceph |-> Nil]

setCondition(st, cond, isTrue) ==
    [st EXCEPT !.conds = IF isTrue THEN @ \cup {cond} ELSE @ \ {cond}]

NewCluster(s) == [gen |-> 1, spec |-> s, deleting |-> FALSE, fin |-> FALSE,
                  status |-> NewStatus]

Init ==
    /\ \E s \in Specs : obj = NewCluster(s)
    /\ cache = Nil /\ queued = FALSE
    /\ pc = "idle" /\ mem = Nil /\ k = 1
    /\ sts = Nil /\ stsCache = Nil /\ cm = Nil /\ mnt = Nil
    /\ pod = [i \in Ordinals |-> "absent"]
    /\ pve = [member |-> {}, conf |-> FALSE, pools |-> {},
              mon |-> {}, mgr |-> {}, osd |-> {}, monDir |-> {}, mgrDir |-> {}, osdUp |-> {}]
    /\ orphans = {}
    /\ edits = 0 /\ faults = 0

\* One of the bounded number of failures.
Fault == faults < MaxFaults /\ faults' = faults + 1

------------------------------------------------------------------------------
(* Proxmox and Ceph inside the pods.  pve.member, conf and pools live in     *)
(* pmxcfs and in Ceph; mon, mgr and osd are the daemons that were created.   *)
(* What the scripts and the daemons find on a node, /var/lib/ceph, is on no  *)
(* volume: monDir, mgrDir and osdUp are the daemons that still have it.      *)

Up(i) == pod[i] # "absent"

\* Corosync quorum: a majority of the members runs.
Quorate == 2 * Cardinality({m \in pve.member : Up(m)}) > Cardinality(pve.member)

\* `ceph -s` answers: a majority of the monitors runs.
CephReachable ==
    /\ pve.mon # {}
    /\ 2 * Cardinality({m \in pve.monDir : Up(m)}) > Cardinality(pve.mon)

\* The Ceph scripts are mounted, and node i sees /etc/pve/ceph.conf: pmxcfs
\* shows it to the members of the cluster.
HasCephScripts == mnt # Nil /\ mnt.ceph # Nil
SeesCephConf(i) == pve.conf /\ i \in pve.member

\* The conditions under which each script, run on node i, can exit 0.
CanJoin(i) == i \in pve.member \/ (0 \in pve.member /\ Up(0) /\ Quorate)

CanCephInit(i) == HasCephScripts /\ i \in pve.member /\ (pve.conf \/ Quorate)

CanCephMon(i) ==
    /\ HasCephScripts /\ SeesCephConf(i)
    /\ i \in pve.monDir \/ (i \notin pve.mon /\ Quorate)

CanCephMgr(i) ==
    HasCephScripts /\ (i \in pve.mgrDir \/ (SeesCephConf(i) /\ CephReachable))

CanCephOsd(i) == HasCephScripts /\ SeesCephConf(i) /\ CephReachable

CanCephPool(i) == HasCephScripts /\ SeesCephConf(i) /\ CephReachable

CanRun(t) ==
    LET i == t.ordinal IN
    /\ Up(i)
    /\ \/ t.step = "cluster-init"
       \/ t.step = "cluster-join" /\ CanJoin(i)
       \/ t.step = "ceph-init" /\ CanCephInit(i)
       \/ t.step = "ceph-mon" /\ CanCephMon(i)
       \/ t.step = "ceph-mgr" /\ CanCephMgr(i)
       \/ t.step = "ceph-osd" /\ CanCephOsd(i)
       \/ t.step = "ceph-pool" /\ CanCephPool(i)
       \/ t.step = "ceph-status" /\ HasCephScripts

\* The devices ceph-osd.sh walks: CEPH_OSDS_PER_NODE of them, of which only
\* those with a claim are block devices.
OsdDevices == IF sts = Nil THEN {} ELSE 1..minInt32(sts.osds, sts.claims)

\* What the scripts leave behind; each skips what it finds already there.
WithMember(i) == [pve EXCEPT !.member = @ \cup {i}]
WithConf      == [pve EXCEPT !.conf = TRUE]
WithMon(i)    == [pve EXCEPT !.mon = @ \cup {i}, !.monDir = @ \cup {i}]
WithMgr(i)    == [pve EXCEPT !.mgr = @ \cup {i}, !.mgrDir = @ \cup {i}]
WithOsds(i, D) ==
    [pve EXCEPT !.osd = @ \cup ({i} \X D), !.osdUp = @ \cup (({i} \X D) \ pve.osd)]
WithPools(P)  == [pve EXCEPT !.pools = @ \cup P]

\* What the script of task t has done when it exits 0.
Done(t) ==
    LET i == t.ordinal IN
    CASE t.step \in {"cluster-init", "cluster-join"} -> WithMember(i)
      [] t.step = "ceph-init" -> WithConf
      [] t.step = "ceph-mon"  -> WithMon(i)
      [] t.step = "ceph-mgr"  -> WithMgr(i)
      [] t.step = "ceph-osd"  -> WithOsds(i, OsdDevices)
      [] t.step = "ceph-pool" -> WithPools(PoolNames(mnt))
      [] OTHER -> pve

\* What it may have done when it is cut short.
Partial(t) ==
    LET i == t.ordinal IN
    CASE t.step = "ceph-osd"  -> {WithOsds(i, D) : D \in SUBSET OsdDevices}
      [] t.step = "ceph-pool" -> {WithPools(P) : P \in SUBSET PoolNames(mnt)}
      [] OTHER -> {pve, Done(t)}

\* The containers of the nodes in N are gone, and their file systems with them.
Replaced(N) ==
    [pve EXCEPT !.monDir = @ \ N, !.mgrDir = @ \ N, !.osdUp = {d \in @ : d[1] \notin N}]

\* The line ceph-status.sh prints on node 0.
StatusLine(health) ==
    [health  |-> IF ~SeesCephConf(0) THEN "UNINITIALIZED"
                 ELSE IF ~CephReachable THEN "UNREACHABLE" ELSE health,
     osds_up |-> IF SeesCephConf(0) /\ CephReachable
                 THEN Cardinality({d \in pve.osdUp : Up(d[1])}) ELSE 0]

------------------------------------------------------------------------------
(* execScript.                                                              *)

ExecOk(t) ==
    /\ CanRun(t)
    /\ pve' = Done(t)
    /\ UNCHANGED <<orphans, faults>>

\* An error: the script could not succeed, or the call failed for a reason
\* of its own; then the script may still be running in the pod.
ExecErr(t) ==
    /\ UNCHANGED pve
    /\ \/ ~CanRun(t) /\ UNCHANGED <<orphans, faults>>
       \/ Fault /\ orphans' = orphans \cup {t}

\* A script nobody waits for gets as far as it gets.
OrphanRuns(t) ==
    /\ t \in orphans
    /\ orphans' = orphans \ {t}
    /\ pve' \in IF CanRun(t) THEN Partial(t) ELSE {pve}
    /\ UNCHANGED <<obj, cache, operatorVars, kubeVars, edits, faults>>

------------------------------------------------------------------------------
(* Reconcile.                                                               *)

\* Mutant of Return: an error does not requeue the key.
Mutant_ReturnNoRequeue(requeue) ==
    /\ pc' = "idle" /\ mem' = Nil /\ k' = 1
    /\ UNCHANGED queued

\* The pass is over; requeue is a RequeueAfter or a returned error.
Return(requeue) ==
    /\ pc' = "idle" /\ mem' = Nil /\ k' = 1
    /\ queued' = (queued \/ requeue)

\* Step 3: an invalid spec goes straight to a Failed status.
Validated(c) ==
    IF ValidateCeph(c.spec)
    THEN /\ pc' = "ensure" /\ mem' = c
    ELSE /\ pc' = "invalid"
         /\ mem' = [c EXCEPT !.status = setCondition(@, "CephInitialized", FALSE)]

\* Mutant of Fetch: a cluster that is being deleted is reconciled.
Mutant_FetchNoDeletion ==
    /\ pc = "idle" /\ queued
    /\ queued' = FALSE
    /\ k' = 1
    /\ IF cache = Nil THEN UNCHANGED <<pc, mem>>
       ELSE IF ~cache.fin THEN pc' = "addFinalizer" /\ mem' = cache
       ELSE Validated(cache)
    /\ UNCHANGED <<obj, cache, kubeVars, pveVars, edits, faults>>

\* Steps 1 and 2: fetch, and branch on deletion and on the finalizer.
Fetch ==
    /\ pc = "idle" /\ queued
    /\ queued' = FALSE
    /\ k' = 1
    /\ IF cache = Nil THEN UNCHANGED <<pc, mem>>
       ELSE IF cache.deleting THEN pc' = "removeFinalizer" /\ mem' = cache
       ELSE IF ~cache.fin THEN pc' = "addFinalizer" /\ mem' = cache
       ELSE Validated(cache)
    /\ UNCHANGED <<obj, cache, kubeVars, pveVars, edits, faults>>

\* A write re-reads the object from the cache and is refused (a conflict)
\* unless the cache holds the version in the API server.
CacheIsCurrent == cache = obj /\ obj # Nil

\* Mutant of addFinalizer: the pass goes on when the finalizer was not stored.
Mutant_addFinalizerNotStored ==
    /\ pc = "addFinalizer"
    /\ Validated([mem EXCEPT !.fin = TRUE])
    /\ UNCHANGED <<obj, cache, queued, k, kubeVars, pveVars, edits, faults>>

addFinalizer ==
    /\ pc = "addFinalizer"
    /\ cache # Nil
    /\ IF cache.fin THEN UNCHANGED obj
       ELSE /\ CacheIsCurrent
            /\ obj' = [obj EXCEPT !.fin = TRUE]
    /\ Validated([mem EXCEPT !.fin = TRUE])
    /\ UNCHANGED <<cache, queued, k, kubeVars, pveVars, edits, faults>>

\* reconcileDelete: with its last finalizer gone the object is removed.
removeFinalizer ==
    /\ pc = "removeFinalizer"
    /\ \/ cache = Nil /\ UNCHANGED obj
       \/ CacheIsCurrent /\ obj' = Nil
    /\ Return(FALSE)
    /\ UNCHANGED <<cache, kubeVars, pveVars, edits, faults>>

NewStatefulSet(s) ==
    [replicas |-> s.nodes, ready |-> 0,
     osds   |-> IF s.ceph = Nil THEN 0 ELSE s.ceph.osds,
     claims |-> IF s.ceph = Nil THEN 0 ELSE maxInt32(s.ceph.osds, 1)]

\* Mutant of PatchedStatefulSet: replicas are not patched.
Mutant_PatchedStatefulSetNoReplicas(s) ==
    LET new == NewStatefulSet(s) IN
    [sts EXCEPT !.osds = IF stsCache.osds = new.osds THEN @ ELSE new.osds]

\* A merge patch holds the fields that differ from the cached copy, and only
\* those; the claim templates are immutable.
PatchedStatefulSet(s) ==
    LET new == NewStatefulSet(s) IN
    [sts EXCEPT !.replicas = IF stsCache.replicas = new.replicas THEN @ ELSE new.replicas,
                !.osds     = IF stsCache.osds = new.osds THEN @ ELSE new.osds]

\* Steps 4 to 6.  The services hold no state any step reads.  The StatefulSet
\* is created or patched as the cache says; creating one that exists, or
\* patching one that is gone, is an error.  The call can also fail of itself,
\* after the ConfigMap has been written.
EnsureOwned ==
    /\ pc = "ensure"
    /\ cm' = mem.spec
    /\ \/ /\ (stsCache = Nil) = (sts = Nil)
          /\ sts' = IF stsCache = Nil THEN NewStatefulSet(mem.spec)
                    ELSE PatchedStatefulSet(mem.spec)
          /\ pc' = "gate"
          /\ UNCHANGED <<queued, mem, k, faults>>
       \/ /\ (stsCache = Nil) # (sts = Nil)
          /\ Return(TRUE)
          /\ UNCHANGED <<sts, faults>>
       \/ /\ Fault
          /\ Return(TRUE)
          /\ UNCHANGED sts
    /\ UNCHANGED <<obj, cache, stsCache, mnt, pod, pveVars, edits>>

\* Mutant of AfterGate: Ceph is left alone once it has been healthy.
Mutant_AfterGateCephOnce(st) ==
    IF "ClusterInitialized" \notin st.conds THEN "initializing"
    ELSE IF "AllNodesJoined" \notin st.conds THEN "joining"
    ELSE IF mem.spec.ceph # Nil /\ "CephHealthy" \notin st.conds THEN "configuring"
    ELSE "ready"

\* The step the conditions select once the pods are ready: steps 8 to 11.
AfterGate(st) ==
    IF "ClusterInitialized" \notin st.conds THEN "initializing"
    ELSE IF "AllNodesJoined" \notin st.conds THEN "joining"
    ELSE IF mem.spec.ceph # Nil THEN "configuring"
    ELSE "ready"

\* Step 7: gate on the ready replicas the cached StatefulSet reports.
Gate ==
    /\ pc = "gate"
    /\ IF stsCache = Nil
       THEN pc' = "pending" /\ UNCHANGED mem
       ELSE LET ready == stsCache.ready = mem.spec.nodes
                st    == setCondition(mem.status, "StatefulSetReady", ready)
                next  == IF ready THEN AfterGate(st) ELSE "pending"
            IN  /\ pc' = next
                /\ mem' = [mem EXCEPT !.status =
                             setCondition(st, "QuorumHealthy",
                                          next = "ready" \/ "QuorumHealthy" \in st.conds)]
    /\ UNCHANGED <<obj, cache, queued, k, kubeVars, pveVars, edits, faults>>

\* The status writes of a pass, and the phase each reports.
PhaseOf ==
    [invalid      |-> "Failed",          pending    |-> "Pending",
     initializing |-> "Initializing",    initFailed |-> "Failed",
     initialized  |-> "Joining",         joining    |-> "Joining",
     joinFailed   |-> "Joining",         joined     |-> "Joining",
     configuring  |-> "ConfiguringCeph", stepFailed |-> "ConfiguringCeph",
     notUsable    |-> "ConfiguringCeph", ready      |-> "Ready"]

\* After three of them the pass goes on; after the others it returns.
ContinueAt == [initializing |-> "init", joining |-> "join", configuring |-> "plan"]

updateStatus ==
    /\ pc \in DOMAIN PhaseOf
    /\ CacheIsCurrent
    /\ LET st == [mem.status EXCEPT !.phase = PhaseOf[pc], !.observed = mem.gen] IN
       /\ obj' = [obj EXCEPT !.status = st]
       /\ IF pc \in DOMAIN ContinueAt
          THEN /\ pc' = ContinueAt[pc]
               /\ mem' = [mem EXCEPT !.status = st]
               /\ k' = 1
               /\ UNCHANGED queued
          ELSE Return(pc # "invalid")
    /\ UNCHANGED <<cache, kubeVars, pveVars, edits, faults>>

\* Mutant of clusterInit: the error of the script is dropped.
Mutant_clusterInitErrorDropped ==
    /\ pc = "init"
    /\ ExecOk(Task("cluster-init", 0)) \/ ExecErr(Task("cluster-init", 0))
    /\ pc' = "initialized"
    /\ mem' = [mem EXCEPT !.status =
                  [setCondition(@, "ClusterInitialized", TRUE) EXCEPT !.joined = 1]]
    /\ UNCHANGED <<obj, cache, queued, k, kubeVars, edits>>

\* Step 8.
clusterInit ==
    /\ pc = "init"
    /\ \/ /\ ExecOk(Task("cluster-init", 0))
          /\ pc' = "initialized"
          /\ mem' = [mem EXCEPT !.status =
                        [setCondition(@, "ClusterInitialized", TRUE) EXCEPT !.joined = 1]]
       \/ /\ ExecErr(Task("cluster-init", 0))
          /\ pc' = "initFailed"
          /\ mem' = [mem EXCEPT !.status = setCondition(@, "ClusterInitialized", FALSE)]
    /\ UNCHANGED <<obj, cache, queued, k, kubeVars, edits>>

\* Mutant of clusterJoin: joined is counted up before the script has run.
Mutant_clusterJoinCountsFirst ==
    /\ pc = "join" /\ k < mem.spec.nodes
    /\ \/ /\ ExecOk(Task("cluster-join", k))
          /\ k' = k + 1
          /\ UNCHANGED <<pc, mem>>
       \/ /\ ExecErr(Task("cluster-join", k))
          /\ pc' = "joinFailed"
          /\ mem' = [mem EXCEPT !.status.joined = k + 1]
          /\ UNCHANGED k
    /\ UNCHANGED <<obj, cache, queued, kubeVars, edits>>

\* Step 9: the loop over the ordinals; k is the next one, and what joined
\* counts.
clusterJoin ==
    /\ pc = "join" /\ k < mem.spec.nodes
    /\ \/ /\ ExecOk(Task("cluster-join", k))
          /\ k' = k + 1
          /\ UNCHANGED <<pc, mem>>
       \/ /\ ExecErr(Task("cluster-join", k))
          /\ pc' = "joinFailed"
          /\ mem' = [mem EXCEPT !.status.joined = k]
          /\ UNCHANGED k
    /\ UNCHANGED <<obj, cache, queued, kubeVars, edits>>

\* Mutant of allNodesJoined: node 0 is counted twice.
Mutant_allNodesJoinedOffByOne ==
    /\ pc = "join" /\ k >= mem.spec.nodes
    /\ pc' = "joined"
    /\ LET st == setCondition(mem.status, "AllNodesJoined", TRUE) IN
       mem' = [mem EXCEPT !.status =
                  [setCondition(st, "QuorumHealthy", TRUE) EXCEPT !.joined = k + 1]]
    /\ UNCHANGED <<obj, cache, queued, k, kubeVars, pveVars, edits, faults>>

allNodesJoined ==
    /\ pc = "join" /\ k >= mem.spec.nodes
    /\ pc' = "joined"
    /\ LET st == setCondition(mem.status, "AllNodesJoined", TRUE) IN
       mem' = [mem EXCEPT !.status =
                  [setCondition(st, "QuorumHealthy", TRUE) EXCEPT !.joined = k]]
    /\ UNCHANGED <<obj, cache, queued, k, kubeVars, pveVars, edits, faults>>

cephStepCondition(step) ==
    CASE step = "ceph-init" -> "CephInitialized"
      [] step \in {"ceph-mon", "ceph-mgr"} -> "CephMonsReady"
      [] step = "ceph-osd" -> "CephOSDsReady"
      [] step = "ceph-pool" -> "CephPoolsReady"
      [] OTHER -> "CephHealthy"

\* Mutant of cephPlanStep: the walk goes on after a failure.
Mutant_cephPlanStepGoesOn ==
    /\ pc = "plan" /\ k <= PlanLen(mem.spec)
    /\ LET t == PlanTask(mem.spec, k) IN ExecOk(t) \/ ExecErr(t)
    /\ k' = k + 1
    /\ UNCHANGED <<obj, cache, queued, pc, mem, kubeVars, edits>>

\* Step 10, reconcileCeph: the plan is walked to the first failure.
cephPlanStep ==
    /\ pc = "plan" /\ k <= PlanLen(mem.spec)
    /\ LET t == PlanTask(mem.spec, k) IN
       \/ /\ ExecOk(t)
          /\ k' = k + 1
          /\ UNCHANGED <<pc, mem>>
       \/ /\ ExecErr(t)
          /\ pc' = "stepFailed"
          /\ mem' = [mem EXCEPT !.status =
                        setCondition(@, cephStepCondition(t.step), FALSE)]
          /\ UNCHANGED k
    /\ UNCHANGED <<obj, cache, queued, kubeVars, edits>>

\* The conditions a completed plan and a polled status line st give.
CephConds(conds, st) ==
    LET planned == conds \cup {"CephInitialized", "CephMonsReady", "CephPoolsReady"}
        osds    == IF st.osdsReady >= st.osdsExpected THEN {"CephOSDsReady"} ELSE {}
        healthy == IF CephUsable(st) THEN {"CephHealthy", "QuorumHealthy"} ELSE {}
    IN  (planned \ {"CephOSDsReady", "CephHealthy"}) \cup osds \cup healthy

\* The plan is complete: poll Ceph.  Nothing is written when the poll fails.
\* HEALTH_ERR in a reachable cluster counts as a failure of the environment.
cephStatus ==
    /\ pc = "plan" /\ k > PlanLen(mem.spec)
    /\ \/ \E health \in {"HEALTH_OK", "HEALTH_ERR"} :
             LET st == ParseCephStatus(mem.spec, StatusLine(health)) IN
             /\ CanRun(StatusTask)
             /\ IF health = "HEALTH_ERR" THEN Fault ELSE UNCHANGED faults
             /\ pc' = IF CephUsable(st) THEN "ready" ELSE "notUsable"
             /\ mem' = [mem EXCEPT !.status.ceph = st,
                                   !.status.conds = CephConds(@, st)]
             /\ UNCHANGED <<k, queued, pveVars>>
       \/ /\ ExecErr(StatusTask)
          /\ Return(TRUE)
    /\ UNCHANGED <<obj, cache, kubeVars, edits>>

\* An API call fails: the object is not there, every retry of a write met a
\* conflict, or the API server did not answer.
APIError ==
    /\ \/ /\ pc \in DOMAIN PhaseOf \cup {"addFinalizer", "removeFinalizer"}
          /\ ~CacheIsCurrent
          /\ UNCHANGED faults
       \/ /\ pc \in DOMAIN PhaseOf \cup {"addFinalizer", "removeFinalizer", "ensure"}
          /\ Fault
    /\ Return(TRUE)
    /\ UNCHANGED <<obj, cache, kubeVars, pveVars, edits>>

------------------------------------------------------------------------------
(* The API server's watches, Kubernetes, users and failures.                *)

\* Every change of the object, its status included, queues the key: the
\* controller watches it without a predicate.
CacheSync ==
    /\ cache # obj
    /\ cache' = obj
    /\ queued' = TRUE
    /\ UNCHANGED <<obj, pc, mem, k, kubeVars, pveVars, edits, faults>>

StatefulSetCacheSync ==
    /\ stsCache # sts
    /\ stsCache' = sts
    /\ queued' = TRUE
    /\ UNCHANGED <<obj, cache, pc, mem, k, sts, cm, mnt, pod, pveVars, edits, faults>>

KubeletSync ==
    /\ mnt # cm
    /\ mnt' = cm
    /\ UNCHANGED <<obj, cache, operatorVars, sts, stsCache, cm, pod, pveVars, edits, faults>>

\* The StatefulSet controller, OrderedReady: pods are created in order, each
\* once its predecessors are ready, and removed from the top.
PodCreated(i) ==
    /\ sts # Nil /\ i < sts.replicas
    /\ pod[i] = "absent"
    /\ \A j \in Ordinals : j < i => pod[j] = "ready"
    /\ pod' = [pod EXCEPT ![i] = "running"]
    /\ UNCHANGED <<obj, cache, operatorVars, sts, stsCache, cm, mnt, pveVars, edits, faults>>

PodBecomesReady(i) ==
    /\ pod[i] = "running"
    /\ pod' = [pod EXCEPT ![i] = "ready"]
    /\ UNCHANGED <<obj, cache, operatorVars, sts, stsCache, cm, mnt, pveVars, edits, faults>>

PodRemoved(i) ==
    /\ sts # Nil /\ i >= sts.replicas
    /\ pod[i] # "absent"
    /\ \A j \in Ordinals : j > i => pod[j] = "absent"
    /\ pod' = [pod EXCEPT ![i] = "absent"]
    /\ pve' = Replaced({i})
    /\ UNCHANGED <<obj, cache, operatorVars, sts, stsCache, cm, mnt, orphans, edits, faults>>

StatefulSetStatus ==
    /\ sts # Nil
    /\ LET ready == Cardinality({i \in Ordinals : pod[i] = "ready"}) IN
       /\ sts.ready # ready
       /\ sts' = [sts EXCEPT !.ready = ready]
    /\ UNCHANGED <<obj, cache, operatorVars, stsCache, cm, mnt, pod, pveVars, edits, faults>>

\* Owner references: the owned objects go with the cluster; the claims stay.
GarbageCollect ==
    /\ obj = Nil /\ (sts # Nil \/ cm # Nil)
    /\ sts' = Nil /\ cm' = Nil
    /\ pod' = [i \in Ordinals |-> "absent"]
    /\ pve' = Replaced(Ordinals)
    /\ UNCHANGED <<obj, cache, operatorVars, stsCache, mnt, orphans, edits, faults>>

\* The user stores another spec.
UserEdits(s) ==
    /\ edits < MaxEdits
    /\ obj # Nil /\ s # obj.spec /\ ~obj.deleting
    /\ obj' = [obj EXCEPT !.spec = s, !.gen = @ + 1]
    /\ edits' = edits + 1
    /\ UNCHANGED <<cache, operatorVars, kubeVars, pveVars, faults>>

\* The user deletes the cluster; a finalizer keeps the object until removed.
UserDeletes ==
    /\ edits < MaxEdits
    /\ obj # Nil /\ ~obj.deleting
    /\ obj' = IF obj.fin THEN [obj EXCEPT !.deleting = TRUE, !.gen = @ + 1] ELSE Nil
    /\ edits' = edits + 1
    /\ UNCHANGED <<cache, operatorVars, kubeVars, pveVars, faults>>

\* A pod is lost, or its services fail the readiness probe.
PodFails(i) ==
    /\ Fault
    /\ \/ /\ Up(i)
          /\ pod' = [pod EXCEPT ![i] = "absent"]
          /\ pve' = Replaced({i})
       \/ /\ pod[i] = "ready"
          /\ pod' = [pod EXCEPT ![i] = "running"]
          /\ UNCHANGED pve
    /\ UNCHANGED <<obj, cache, operatorVars, sts, stsCache, cm, mnt, orphans, edits>>

\* The script the pass is waiting for.
Running ==
    IF pc = "init" THEN {Task("cluster-init", 0)}
    ELSE IF pc = "join" /\ k < mem.spec.nodes THEN {Task("cluster-join", k)}
    ELSE IF pc = "plan" /\ k <= PlanLen(mem.spec) THEN {PlanTask(mem.spec, k)}
    ELSE {}

\* The operator dies and another takes over: memory is lost, the caches are
\* filled from the API server, every object is queued, scripts run on.
OperatorCrash ==
    /\ Fault
    /\ orphans' = orphans \cup Running
    /\ pc' = "idle" /\ mem' = Nil /\ k' = 1 /\ queued' = TRUE
    /\ cache' = obj /\ stsCache' = sts
    /\ UNCHANGED <<obj, sts, cm, mnt, pod, pve, edits>>

------------------------------------------------------------------------------
Reconcile ==
    \/ Fetch \/ addFinalizer \/ removeFinalizer
    \/ EnsureOwned \/ Gate \/ updateStatus
    \/ clusterInit \/ clusterJoin \/ allNodesJoined
    \/ cephPlanStep \/ cephStatus
    \/ APIError

Kubernetes ==
    \/ CacheSync \/ StatefulSetCacheSync \/ KubeletSync
    \/ StatefulSetStatus \/ GarbageCollect
    \/ \E i \in Ordinals : PodCreated(i) \/ PodBecomesReady(i) \/ PodRemoved(i)

User == UserDeletes \/ \E s \in Specs : UserEdits(s)

Failure ==
    \/ OperatorCrash
    \/ \E i \in Ordinals : PodFails(i)
    \/ \E t \in orphans : OrphanRuns(t)

Next == Reconcile \/ Kubernetes \/ User \/ Failure

Spec == Init /\ [][Next]_vars

\* The worker, the watches, the kubelets and the StatefulSet controller keep
\* running; users and failures are under no obligation.
Fairness ==
    /\ WF_vars(Reconcile)
    /\ WF_vars(CacheSync)
    /\ WF_vars(StatefulSetCacheSync)
    /\ WF_vars(KubeletSync)
    /\ WF_vars(StatefulSetStatus)
    /\ WF_vars(GarbageCollect)
    /\ \A i \in Ordinals : /\ WF_vars(PodCreated(i))
                          /\ WF_vars(PodBecomesReady(i))
                          /\ WF_vars(PodRemoved(i))

FairSpec == Spec /\ Fairness

\* A timing assumption on top: from some point on a pass begins only after
\* the watch has delivered the writes before it.  Requeues are 15 seconds to
\* two minutes apart and failed passes back off; without any such bound the
\* race between a status write and the next pass could be lost for ever.
StaleFetch == Fetch /\ cache # obj

TimelySpec == FairSpec /\ <>[][~StaleFetch]_vars

------------------------------------------------------------------------------
Steps == {"idle", "addFinalizer", "removeFinalizer", "ensure", "gate",
          "init", "join", "plan"} \cup DOMAIN PhaseOf

CephStatuses == [initialized : BOOLEAN, osdsReady : Nat, osdsExpected : Nat,
                 health : {"HEALTH_OK", "HEALTH_ERR", "UNREACHABLE", "UNINITIALIZED"}]

Statuses == [phase : Phases, observed : Nat, joined : 0..MaxNodes,
             conds : SUBSET CondTypes, ceph : CephStatuses \cup {Nil}]

Clusters == [gen : Nat, spec : Specs, deleting : BOOLEAN, fin : BOOLEAN,
             status : Statuses]

\* An object that is not there differs from every object.
ASSUME NilAssumption == Nil \notin Clusters

StatefulSets == [replicas : 1..MaxNodes, ready : Nat,
                 osds : 0..MaxOsds, claims : 0..MaxOsds]

Osds == Ordinals \X (1..MaxOsds)

PveStates == [member : SUBSET Ordinals, conf : BOOLEAN,
              pools : SUBSET UNION {PoolNames(s) : s \in Specs},
              mon : SUBSET Ordinals, mgr : SUBSET Ordinals, osd : SUBSET Osds,
              monDir : SUBSET Ordinals, mgrDir : SUBSET Ordinals, osdUp : SUBSET Osds]

Tasks == [step : {"cluster-init", "cluster-join", "ceph-init", "ceph-mon",
                  "ceph-mgr", "ceph-osd", "ceph-pool", "ceph-status"},
          ordinal : Ordinals]

TypeOK ==
    /\ obj \in Clusters \cup {Nil}
    /\ cache \in Clusters \cup {Nil}
    /\ queued \in BOOLEAN
    /\ pc \in Steps
    /\ mem \in Clusters \cup {Nil}
    /\ k \in Nat \ {0}
    /\ sts \in StatefulSets \cup {Nil}
    /\ stsCache \in StatefulSets \cup {Nil}
    /\ cm \in Specs \cup {Nil}
    /\ mnt \in Specs \cup {Nil}
    /\ pod \in [Ordinals -> {"absent", "running", "ready"}]
    /\ pve \in PveStates
    /\ orphans \subseteq Tasks
    /\ edits \in 0..MaxEdits
    /\ faults \in 0..MaxFaults

\* status.joinedNodes never claims a node that is not a member of the Proxmox
\* cluster, and ClusterInitialized is never reported without a cluster on
\* node 0: not after a stale status was written back, a script failed half
\* way or the operator crashed between a script and the status write.
JoinedNodesAreMembers ==
    obj # Nil =>
        /\ \A i \in Ordinals : i < obj.status.joined => i \in pve.member
        /\ "ClusterInitialized" \in obj.status.conds =>
               0 \in pve.member /\ obj.status.joined >= 1
        /\ "AllNodesJoined" \in obj.status.conds =>
               "ClusterInitialized" \in obj.status.conds

ReadyNow ==
    obj # Nil /\ obj.status.phase = "Ready" /\ obj.status.observed = obj.gen

\* A Ready status for the stored generation of a cluster with Ceph means that
\* generation's Ceph was built: ceph.conf, every monitor and manager of its
\* plan, an OSD for each one expected, and every node a member.
ReadyMeansCephBuilt ==
    (ReadyNow /\ obj.spec.ceph # Nil) =>
        /\ pve.conf
        /\ \A i \in Ordinals : i < EffectiveMonCount(obj.spec) => i \in pve.mon
        /\ \A i \in Ordinals : i < EffectiveMgrCount(obj.spec) => i \in pve.mgr
        /\ \A i \in Ordinals : i < obj.spec.nodes => i \in pve.member
        /\ Cardinality(pve.osd) >= ExpectedOSDs(obj.spec)

\* Once the object is gone and its StatefulSet collected, no pass still under
\* way brings a StatefulSet back: the finalizer keeps the object until the
\* worker, done with every earlier pass, removes it.
NothingProvisionedAfterRemoval ==
    [][(obj = Nil /\ sts = Nil) => sts' = Nil]_vars

\* The user has stopped editing, and left a spec that ValidateCeph accepts.
LeftValid == obj # Nil /\ ~obj.deleting /\ ValidateCeph(obj.spec)

\* A cluster without Ceph whose user stops editing becomes Ready for its last
\* generation and stays so, with the StatefulSet scaled to it.
PlainClusterSettles ==
    <>[](LeftValid /\ obj.spec.ceph = Nil) =>
        <>[](ReadyNow /\ sts # Nil /\ sts.replicas = obj.spec.nodes)

\* No pod that held a monitor or an OSD has been replaced.
CephDataIntact == pve.monDir = pve.mon /\ pve.osdUp = pve.osd

\* A cluster with Ceph, none of whose data was lost with a pod, is Ready for
\* its last generation again and again (each pass reports ConfiguringCeph
\* first), and its pools come to exist, also when the scripts mounted in the
\* pods lag the spec.
CephClusterBecomesReady ==
    <>[](LeftValid /\ obj.spec.ceph # Nil /\ CephDataIntact) =>
        []<>(ReadyNow /\ PoolNames(obj.spec) \subseteq pve.pools)

\* A spec that ValidateCeph rejects is reported Failed for its generation,
\* although the pass that reports it does not requeue.
InvalidSpecReported ==
    <>[](obj # Nil /\ ~obj.deleting /\ ~ValidateCeph(obj.spec)) =>
        <>[](obj # Nil /\ obj.status.phase = "Failed" /\ obj.status.observed = obj.gen)

\* A deleted cluster goes away: its finalizer is removed, and what it owns is
\* garbage-collected.
DeletionCompletes ==
    (obj # Nil /\ obj.deleting) ~> [](obj = Nil /\ sts = Nil)

\* The operator implements ClusterFormation: whatever it crashes in, re-reads
\* stale or runs twice, nodes only ever join an existing cluster and the
\* reported count is covered by members.
Formation == INSTANCE ClusterFormation WITH
                 Node <- Ordinals, Count <- 0..MaxNodes, member <- pve.member,
                 claim <- IF obj = Nil THEN 0 ELSE obj.status.joined

ImplementsFormation == Formation!Spec

------------------------------------------------------------------------------
(* What the documentation says and the code does not do: each is refuted by *)
(* a run of its own.                                                        *)

\* proxmoxcluster_types.go: Ready is "all nodes joined".  The README promises
\* to run cluster-join.sh on the pods a scale-up adds.
ReadyMeansAllJoined ==
    ReadyNow => \A i \in Ordinals : i < obj.spec.nodes => i \in pve.member

\* proxmoxcluster_types.go: Ready is "quorum healthy": a pass reports Ready
\* only while Corosync has quorum.
ReadyReportedInQuorum ==
    [][(pc = "ready" /\ updateStatus) => Quorate]_vars
=============================================================================
