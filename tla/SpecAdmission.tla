---------------------------- MODULE SpecAdmission ----------------------------
(***************************************************************************)
(* What happens to a ProxmoxCluster a user submits: the API server fills   *)
(* in the defaults the CRD declares (the kubebuilder markers of            *)
(* proxmoxcluster_types.go), the operator validates the result and, if it  *)
(* is accepted, derives the bootstrap plan from it.                        *)
(***************************************************************************)
EXTENDS CephPlan, FiniteSets

CONSTANTS Submissions,  \* the specs users submit; 0 is a field left out
          StatusLines   \* the lines ceph-status.sh may print

\* What the CRD schema admits (Minimum markers), 0 for a field left out.
PoolSpecs == [name : STRING, size : Nat, minSize : Nat]
CephSpecs == [mon : Nat, mgr : Nat, osds : Nat, pools : Seq(PoolSpecs)]
Admitted  == [nodes : Nat \ {0}, ceph : CephSpecs \cup {Nil}]

\* The words ceph-status.sh prints for the health.
HealthWords == {"HEALTH_OK", "HEALTH_WARN", "HEALTH_ERR", "UNREACHABLE",
                "UNINITIALIZED", "UNKNOWN"}

ASSUME AdmissionAssumption ==
    /\ Submissions \subseteq Admitted
    /\ Nil \notin CephSpecs
    /\ \A l \in StatusLines :
          /\ "health" \in DOMAIN l => l.health \in HealthWords
          /\ "osds_up" \in DOMAIN l => l.osds_up \in Nat

VARIABLES raw,          \* the submitted spec
          spec,         \* the stored spec
          verdict,      \* "submitted", "stored", "accepted" or "rejected"
          line          \* a status line polled once the spec is accepted

vars == <<raw, spec, verdict, line>>

Init ==
    /\ raw \in Submissions
    /\ spec = raw
    /\ verdict = "submitted"
    /\ line \in StatusLines

\* The CRD defaults of a CephSpec and its pools.
CrdDefault(v, def) == IF v = 0 THEN def ELSE v

CephDefaults(c) ==
    [mon   |-> CrdDefault(c.mon, 3),
     mgr   |-> CrdDefault(c.mgr, 2),
     osds  |-> CrdDefault(c.osds, 1),
     pools |-> [k \in DOMAIN c.pools |->
                  [name    |-> c.pools[k].name,
                   size    |-> CrdDefault(c.pools[k].size, 3),
                   minSize |-> CrdDefault(c.pools[k].minSize, 2)]]]

CrdDefaults(s) ==
    IF s.ceph = Nil THEN s ELSE [s EXCEPT !.ceph = CephDefaults(s.ceph)]

\* The API server stores the object with the CRD's defaults.
Store ==
    /\ verdict = "submitted"
    /\ spec' = CrdDefaults(raw)
    /\ verdict' = "stored"
    /\ UNCHANGED <<raw, line>>

\* Step 3 of Reconcile.
Validate ==
    /\ verdict = "stored"
    /\ verdict' = IF ValidateCeph(spec) THEN "accepted" ELSE "rejected"
    /\ UNCHANGED <<raw, spec, line>>

Next == Store \/ Validate

Spec == Init /\ [][Next]_vars

------------------------------------------------------------------------------
Accepted == verdict = "accepted" /\ spec.ceph # Nil

\* The monitor quorum: of the odd counts no greater than the request (3 when
\* unset) and the node count, EffectiveMonCount is the largest.
MonCountIsLargestOddFit ==
    spec.ceph # Nil =>
        LET want  == IF spec.ceph.mon = 0 THEN 3 ELSE spec.ceph.mon
            fits  == {n \in 1..spec.nodes : n % 2 = 1 /\ n <= want}
        IN  /\ EffectiveMonCount(spec) \in fits
            /\ \A n \in fits : n <= EffectiveMonCount(spec)

\* An accepted spec can converge: every pool it creates, defaults included,
\* has 1 <= minSize <= size and no more replicas than the OSD tasks of the
\* plan create OSDs (the reason ValidateCeph runs before provisioning).
AcceptedPoolsFitTheOSDs ==
    Accepted =>
        LET osdTasks == {k \in DOMAIN CephPlan(spec) : CephPlan(spec)[k].step = "ceph-osd"}
            osds     == Cardinality(osdTasks) * spec.ceph.osds
        IN  \A k \in DOMAIN effectivePools(spec) :
               LET p == effectivePools(spec)[k]
               IN  1 <= p.minSize /\ p.minSize <= p.size /\ p.size <= osds

\* "Ordering is load-bearing": in the plan of an accepted spec no task comes
\* before a task it depends on, every task runs in a pod that exists, no task
\* is planned twice and every node gets its OSD task.
Rank(step) == CASE step = "ceph-init" -> 1 [] step = "ceph-mon" -> 2
                [] step = "ceph-mgr" -> 3 [] step = "ceph-osd" -> 4
                [] step = "ceph-pool" -> 5

PlanRespectsDependencies ==
    Accepted =>
        LET plan == CephPlan(spec) IN
        /\ \A i, j \in DOMAIN plan :
              i < j => /\ Rank(plan[i].step) <= Rank(plan[j].step)
                       /\ plan[i] # plan[j]
        /\ \A i \in DOMAIN plan : plan[i].ordinal \in 0..(spec.nodes - 1)
        /\ \A n \in 0..(spec.nodes - 1) :
              \E i \in DOMAIN plan : plan[i] = Task("ceph-osd", n)
        /\ \E i \in DOMAIN plan : plan[i] = Task("ceph-mon", 0)
        /\ plan[Len(plan)] = Task("ceph-pool", 0)

\* A user who asks for Ceph and writes nothing else is never rejected,
\* whatever the node count (the comment of ValidateCeph on defaulted counts).
AllDefaultsAccepted ==
    (verdict = "rejected" /\ raw.ceph # Nil) =>
        ~(raw.ceph.mon = 0 /\ raw.ceph.mgr = 0 /\ raw.ceph.osds = 0 /\ raw.ceph.pools = <<>>)

\* Ceph is reported usable only when the line names a health, that health is
\* not an error, and as many OSDs are up as the accepted spec asks for.
UsableMeansEveryOSDUp ==
    (Accepted /\ CephUsable(ParseCephStatus(spec, line))) =>
        /\ {"health", "osds_up"} \subseteq DOMAIN line
        /\ line.health \in {"HEALTH_OK", "HEALTH_WARN", "UNKNOWN"}
        /\ line.osds_up >= spec.nodes * spec.ceph.osds
=============================================================================
