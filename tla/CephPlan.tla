------------------------------ MODULE CephPlan ------------------------------
(***************************************************************************)
(* The pure half of the operator: what internal/resources/ceph.go and      *)
(* effectivePools of configmap.go compute from a ProxmoxCluster spec.      *)
(*                                                                         *)
(* A spec is a record [nodes, ceph]; ceph is Nil (spec.ceph is nil) or     *)
(* [mon, mgr, osds, pools], the fields MonCount, MgrCount, OSDsPerNode and *)
(* Pools of CephSpec, and a pool is [name, size, minSize].  A count of 0   *)
(* is an unset field, as in the Go structs (json omitempty).               *)
(***************************************************************************)
EXTENDS Integers, Sequences

CONSTANT Nil     \* Go's nil: an unset spec.ceph or status.ceph, an object that is not there

DefaultPoolName == "ceph-vm"

maxInt32(a, b) == IF a > b THEN a ELSE b
minInt32(a, b) == IF a < b THEN a ELSE b

\* Mutant of clampCount: the cap at the node count is dropped.
Mutant_clampCountNoCap(v, def, max) == maxInt32(IF v <= 0 THEN def ELSE v, 1)

\* A default when the field is unset, then a cap, then at least one.
clampCount(v, def, max) ==
    maxInt32(minInt32(IF v <= 0 THEN def ELSE v, max), 1)

ExpectedOSDs(s) ==
    IF s.ceph = Nil THEN 0 ELSE s.nodes * maxInt32(s.ceph.osds, 1)

\* Mutant of EffectiveMonCount: capped, not snapped to an odd number.
Mutant_EffectiveMonCountNoSnap(s) ==
    IF s.ceph = Nil THEN 0 ELSE clampCount(s.ceph.mon, 3, s.nodes)

\* Capped at the node count, then snapped down to an odd number.
EffectiveMonCount(s) ==
    IF s.ceph = Nil THEN 0
    ELSE LET n == clampCount(s.ceph.mon, 3, s.nodes)
         IN  maxInt32(IF n % 2 = 0 THEN n - 1 ELSE n, 1)

EffectiveMgrCount(s) ==
    IF s.ceph = Nil THEN 0 ELSE clampCount(s.ceph.mgr, 2, s.nodes)

\* Mutant of DefaultPool: three replicas whatever the OSD count.
Mutant_DefaultPoolSizeThree(s) == [name |-> DefaultPoolName, size |-> 3, minSize |-> 2]

\* The pool created when the spec names none: as many replicas as there are
\* OSDs, at most three.
DefaultPool(s) ==
    LET size == minInt32(3, ExpectedOSDs(s))
    IN  [name |-> DefaultPoolName, size |-> size, minSize |-> maxInt32(size - 1, 1)]

\* A pool with its unset fields filled in.
PoolWithDefaults(p) ==
    LET size == IF p.size = 0 THEN 3 ELSE p.size
    IN  [name |-> p.name, size |-> size,
         minSize |-> IF p.minSize = 0 THEN maxInt32(size - 1, 1) ELSE p.minSize]

effectivePools(s) ==
    IF s.ceph = Nil THEN <<>>
    ELSE IF s.ceph.pools = <<>> THEN <<DefaultPool(s)>>
    ELSE [k \in DOMAIN s.ceph.pools |-> PoolWithDefaults(s.ceph.pools[k])]

PoolNames(s) == {effectivePools(s)[k].name : k \in DOMAIN effectivePools(s)}

\* Mutant of ValidateCeph: minSize is not compared with size.
Mutant_ValidateCephNoMinSize(s) ==
    \/ s.ceph = Nil
    \/ /\ ~(s.ceph.mon > 0 /\ s.ceph.mon % 2 = 0)
       /\ \A k \in DOMAIN effectivePools(s) : effectivePools(s)[k].size <= ExpectedOSDs(s)

\* ValidateCeph returns nil.
ValidateCeph(s) ==
    \/ s.ceph = Nil
    \/ /\ ~(s.ceph.mon > 0 /\ s.ceph.mon % 2 = 0)
       /\ \A k \in DOMAIN effectivePools(s) :
             LET p == effectivePools(s)[k]
             IN  p.size <= ExpectedOSDs(s) /\ p.minSize <= p.size

(***************************************************************************)
(* The bootstrap plan: ceph-init on node 0, monitors, managers, OSDs on    *)
(* every node, pools on node 0.  A task is the script and the ordinal of   *)
(* the pod it runs in.                                                     *)
(***************************************************************************)
Task(step, ordinal) == [step |-> step, ordinal |-> ordinal]

PlanLen(s) ==
    IF s.ceph = Nil THEN 0
    ELSE 2 + EffectiveMonCount(s) + EffectiveMgrCount(s) + s.nodes

PlanTask(s, k) ==
    LET mons == EffectiveMonCount(s)
        mgrs == EffectiveMgrCount(s)
    IN  IF k = 1 THEN Task("ceph-init", 0)
        ELSE IF k <= 1 + mons THEN Task("ceph-mon", k - 2)
        ELSE IF k <= 1 + mons + mgrs THEN Task("ceph-mgr", k - 2 - mons)
        ELSE IF k <= 1 + mons + mgrs + s.nodes
             THEN Task("ceph-osd", k - 2 - mons - mgrs)
        ELSE Task("ceph-pool", 0)

CephPlan(s) == [k \in 1..PlanLen(s) |-> PlanTask(s, k)]

StatusTask == Task("ceph-status", 0)

(***************************************************************************)
(* The status line.  ceph-status.sh prints key=value fields; the line is a *)
(* function whose domain is the set of keys that are present and parse.    *)
(***************************************************************************)
ParseCephStatus(s, line) ==
    [initialized  |-> "health" \in DOMAIN line /\ line.health # "UNINITIALIZED",
     health       |-> IF "health" \in DOMAIN line THEN line.health ELSE "",
     osdsReady    |-> IF "osds_up" \in DOMAIN line THEN line.osds_up ELSE 0,
     osdsExpected |-> ExpectedOSDs(s)]

\* Mutant of CephUsable: some OSD is enough.
Mutant_CephUsableAnyOSD(st) ==
    /\ st.initialized
    /\ st.health \notin {"HEALTH_ERR", "UNREACHABLE", "UNINITIALIZED"}
    /\ st.osdsExpected > 0
    /\ st.osdsReady > 0

CephUsable(st) ==
    /\ st.initialized
    /\ st.health \notin {"HEALTH_ERR", "UNREACHABLE", "UNINITIALIZED"}
    /\ st.osdsExpected > 0
    /\ st.osdsReady >= st.osdsExpected
=============================================================================
