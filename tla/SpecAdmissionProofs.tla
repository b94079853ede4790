------------------------ MODULE SpecAdmissionProofs -------------------------
(***************************************************************************)
(* Proofs about SpecAdmission for every spec the CRD schema admits and     *)
(* every status line: any number of nodes, daemons and pools.              *)
(***************************************************************************)
EXTENDS SpecAdmission, FiniteSetTheorems, TLAPS

\* What the CRD defaults leave: no count is 0.
Filled(s) ==
    s.ceph # Nil =>
        /\ s.ceph.mon >= 1 /\ s.ceph.mgr >= 1 /\ s.ceph.osds >= 1
        /\ \A k \in DOMAIN s.ceph.pools :
              s.ceph.pools[k].size >= 1 /\ s.ceph.pools[k].minSize >= 1

Inv ==
    /\ raw \in Submissions /\ line \in StatusLines
    /\ spec \in Admitted
    /\ verdict \in {"submitted", "stored", "accepted", "rejected"}
    /\ verdict # "submitted" => spec = CrdDefaults(raw) /\ Filled(spec)
    /\ verdict = "accepted" => ValidateCeph(spec)
    /\ verdict = "rejected" => ~ValidateCeph(spec)

------------------------------------------------------------------------------
(* The CRD defaults.                                                        *)

\* A sequence of pools without a position is the empty one.
LEMMA EmptyDomain ==
    ASSUME NEW q \in Seq(PoolSpecs), DOMAIN q = {}
    PROVE  q = <<>>
<1>1. Len(q) \in Nat /\ DOMAIN q = 1..Len(q)
  OBVIOUS
<1>2. 1 \notin 1..Len(q)
  BY <1>1
<1>3. Len(q) = 0
  BY <1>1, <1>2
<1> QED
  BY <1>3

LEMMA CephFields ==
    ASSUME NEW s \in Admitted, s.ceph # Nil
    PROVE  /\ s.nodes \in Nat \ {0} /\ s.ceph \in CephSpecs
           /\ s.ceph.mon \in Nat /\ s.ceph.mgr \in Nat /\ s.ceph.osds \in Nat
           /\ s.ceph.pools \in Seq(PoolSpecs)
           /\ \A k \in DOMAIN s.ceph.pools :
                 /\ s.ceph.pools[k].size \in Nat /\ s.ceph.pools[k].minSize \in Nat
                 /\ s.ceph.pools[k].name \in STRING
<1>1. s.nodes \in Nat \ {0} /\ s.ceph \in CephSpecs
  BY DEF Admitted
<1>2. /\ s.ceph.mon \in Nat /\ s.ceph.mgr \in Nat /\ s.ceph.osds \in Nat
      /\ s.ceph.pools \in Seq(PoolSpecs)
  BY <1>1 DEF CephSpecs
<1>3. ASSUME NEW k \in DOMAIN s.ceph.pools PROVE s.ceph.pools[k] \in PoolSpecs
  BY <1>2
<1> QED
  BY <1>1, <1>2, <1>3 DEF PoolSpecs

LEMMA DefaultsFill ==
    ASSUME NEW s \in Admitted
    PROVE  CrdDefaults(s) \in Admitted /\ Filled(CrdDefaults(s))
<1>1. CASE s.ceph = Nil
  BY <1>1 DEF CrdDefaults, Filled
<1>2. CASE s.ceph # Nil
  <2> DEFINE c == s.ceph
             q == [k \in DOMAIN c.pools |->
                      [name    |-> c.pools[k].name,
                       size    |-> CrdDefault(c.pools[k].size, 3),
                       minSize |-> CrdDefault(c.pools[k].minSize, 2)]]
  <2>1. /\ c \in CephSpecs /\ s.nodes \in Nat \ {0} /\ c.mon \in Nat /\ c.mgr \in Nat
        /\ c.osds \in Nat /\ c.pools \in Seq(PoolSpecs)
        /\ \A k \in DOMAIN c.pools :
              c.pools[k].size \in Nat /\ c.pools[k].minSize \in Nat /\ c.pools[k].name \in STRING
    BY <1>2, CephFields
  <2>3. \A k \in DOMAIN c.pools :
           q[k] \in PoolSpecs /\ q[k].size >= 1 /\ q[k].minSize >= 1
    <3> TAKE k \in DOMAIN c.pools
    <3> DEFINE size == CrdDefault(c.pools[k].size, 3)
               minSize == CrdDefault(c.pools[k].minSize, 2)
    <3>1. /\ q[k] = [name |-> c.pools[k].name, size |-> size, minSize |-> minSize]
          /\ q[k].size = size /\ q[k].minSize = minSize
      OBVIOUS
    <3>2. size \in Nat /\ size >= 1 /\ minSize \in Nat /\ minSize >= 1
      BY <2>1 DEF CrdDefault
    <3> HIDE DEF q, size, minSize
    <3> QED
      BY <2>1, <3>1, <3>2 DEF PoolSpecs
  <2>4. q \in Seq(PoolSpecs) /\ DOMAIN q = DOMAIN c.pools
    <3>1. DOMAIN c.pools = 1..Len(c.pools) /\ Len(c.pools) \in Nat
      BY <2>1
    <3>2. q \in [1..Len(c.pools) -> PoolSpecs]
      BY <2>3, <3>1
    <3> QED
      BY <3>1, <3>2
  <2> DEFINE d == CephDefaults(c)
  <2>5. /\ d.mon = CrdDefault(c.mon, 3) /\ d.mgr = CrdDefault(c.mgr, 2)
        /\ d.osds = CrdDefault(c.osds, 1) /\ d.pools = q
        /\ d = [mon |-> d.mon, mgr |-> d.mgr, osds |-> d.osds, pools |-> d.pools]
    BY DEF CephDefaults
  <2> HIDE DEF q, d
  <2>6. d.mon \in Nat /\ d.mgr \in Nat /\ d.osds \in Nat
        /\ d.mon >= 1 /\ d.mgr >= 1 /\ d.osds >= 1
    <3>1. c.mon \in Nat /\ c.mgr \in Nat /\ c.osds \in Nat
      BY <2>1
    <3>2. /\ d.mon = CrdDefault(c.mon, 3) /\ d.mgr = CrdDefault(c.mgr, 2)
          /\ d.osds = CrdDefault(c.osds, 1)
      BY <2>5
    <3> HIDE DEF c
    <3>3. d.mon \in Nat /\ d.mon >= 1
      BY <3>1, <3>2 DEF CrdDefault
    <3>4. d.mgr \in Nat /\ d.mgr >= 1
      BY <3>1, <3>2 DEF CrdDefault
    <3>5. d.osds \in Nat /\ d.osds >= 1
      BY <3>1, <3>2 DEF CrdDefault
    <3> QED
      BY <3>3, <3>4, <3>5
  <2>7. d \in CephSpecs
    BY <2>4, <2>5, <2>6 DEF CephSpecs
  <2>8. CrdDefaults(s) = [s EXCEPT !.ceph = d]
    BY <1>2 DEF CrdDefaults, d
  <2>9. CrdDefaults(s) \in Admitted /\ CrdDefaults(s).ceph = d
    BY <2>7, <2>8 DEF Admitted
  <2> QED
    BY <2>3, <2>4, <2>5, <2>6, <2>9 DEF Filled
<1> QED
  BY <1>1, <1>2

LEMMA InvInductive ==
    /\ Init => Inv
    /\ Inv /\ [Next]_vars => Inv'
<1>1. Init => Inv
  BY AdmissionAssumption DEF Init, Inv
<1>2. ASSUME Inv, [Next]_vars PROVE Inv'
  <2>1. CASE Store
    <3>1. raw \in Admitted
      BY <1>2, AdmissionAssumption DEF Inv
    <3>2. CrdDefaults(raw) \in Admitted /\ Filled(CrdDefaults(raw))
      BY <3>1, DefaultsFill
    <3> QED
      BY <1>2, <2>1, <3>2 DEF Store, Inv
  <2>2. CASE Validate
    BY <1>2, <2>2 DEF Validate, Inv
  <2>3. CASE UNCHANGED vars
    BY <1>2, <2>3 DEF vars, Inv
  <2> QED
    BY <1>2, <2>1, <2>2, <2>3 DEF Next
<1> QED
  BY <1>1, <1>2

------------------------------------------------------------------------------
(* Counts.                                                                  *)

\* The monitors: an odd number that fits.
LEMMA MonCount ==
    ASSUME NEW s \in Admitted, s.ceph # Nil
    PROVE  LET want == IF s.ceph.mon = 0 THEN 3 ELSE s.ceph.mon
               m    == EffectiveMonCount(s)
           IN  /\ m \in 1..s.nodes /\ m % 2 = 1 /\ m <= want
               /\ \A n \in 1..s.nodes : (n % 2 = 1 /\ n <= want) => n <= m
<1> DEFINE want == IF s.ceph.mon = 0 THEN 3 ELSE s.ceph.mon
           c == minInt32(want, s.nodes)
           m == EffectiveMonCount(s)
<1>1. s.nodes \in Nat \ {0} /\ s.ceph.mon \in Nat
  BY CephFields
<1>2. want \in Nat \ {0}
  BY <1>1
<1>3. c \in Nat \ {0} /\ c <= want /\ c <= s.nodes /\ (c = want \/ c = s.nodes)
  BY <1>1, <1>2 DEF minInt32
<1>4. clampCount(s.ceph.mon, 3, s.nodes) = c
  BY <1>1, <1>2, <1>3 DEF clampCount, maxInt32, minInt32
<1>5. m = maxInt32(IF c % 2 = 0 THEN c - 1 ELSE c, 1)
  BY <1>4 DEF EffectiveMonCount
<1> HIDE DEF c, want, m
<1>6. m = IF c % 2 = 0 THEN c - 1 ELSE c
  BY <1>3, <1>5 DEF maxInt32
<1>7. m \in Nat /\ m >= 1 /\ m <= c /\ m % 2 = 1 /\ c <= m + 1
  BY <1>3, <1>6
<1>8. ASSUME NEW n \in 1..s.nodes, n % 2 = 1, n <= want PROVE n <= m
  BY <1>1, <1>2, <1>3, <1>6, <1>8
<1> QED
  BY <1>1, <1>2, <1>3, <1>7, <1>8 DEF want, m

LEMMA MgrCount ==
    ASSUME NEW s \in Admitted, s.ceph # Nil
    PROVE  EffectiveMgrCount(s) \in 1..s.nodes
<1>1. s.nodes \in Nat \ {0} /\ s.ceph.mgr \in Nat
  BY CephFields
<1> QED
  BY <1>1 DEF EffectiveMgrCount, clampCount, maxInt32, minInt32

\* Of the odd counts that fit the nodes and the request EffectiveMonCount is
\* the largest, for any node count and any request.
THEOREM MonCountIsLargest == Spec => []MonCountIsLargestOddFit
<1>1. ASSUME Inv PROVE MonCountIsLargestOddFit
  <2>1. spec \in Admitted
    BY <1>1 DEF Inv
  <2> QED
    BY <2>1, MonCount DEF MonCountIsLargestOddFit
<1> QED
  BY <1>1, InvInductive, PTL DEF Spec

------------------------------------------------------------------------------
(* The plan.                                                                *)

\* Where each task of the plan is.
LEMMA PlanShape ==
    ASSUME NEW s \in Admitted, s.ceph # Nil
    PROVE  LET M == EffectiveMonCount(s)
               G == EffectiveMgrCount(s)
               N == s.nodes
               plan == CephPlan(s)
           IN  /\ M \in 1..N /\ G \in 1..N /\ N \in Nat \ {0}
               /\ DOMAIN plan = 1..(2 + M + G + N) /\ Len(plan) = 2 + M + G + N
               /\ plan[1] = Task("ceph-init", 0)
               /\ \A k \in 2..(1 + M) : plan[k] = Task("ceph-mon", k - 2)
               /\ \A k \in (2 + M)..(1 + M + G) : plan[k] = Task("ceph-mgr", k - 2 - M)
               /\ \A k \in (2 + M + G)..(1 + M + G + N) :
                     plan[k] = Task("ceph-osd", k - 2 - M - G)
               /\ plan[2 + M + G + N] = Task("ceph-pool", 0)
<1> DEFINE M == EffectiveMonCount(s)
           G == EffectiveMgrCount(s)
           N == s.nodes
           plan == CephPlan(s)
<1>1. N \in Nat \ {0} /\ M \in 1..N /\ G \in 1..N
  BY CephFields, MonCount, MgrCount
<1>2. PlanLen(s) = 2 + M + G + N
  BY DEF PlanLen
<1>3. plan = [k \in 1..(2 + M + G + N) |-> PlanTask(s, k)]
  BY <1>2 DEF CephPlan
<1>4. \A k : PlanTask(s, k) =
             IF k = 1 THEN Task("ceph-init", 0)
             ELSE IF k <= 1 + M THEN Task("ceph-mon", k - 2)
             ELSE IF k <= 1 + M + G THEN Task("ceph-mgr", k - 2 - M)
             ELSE IF k <= 1 + M + G + N THEN Task("ceph-osd", k - 2 - M - G)
             ELSE Task("ceph-pool", 0)
  BY DEF PlanTask
<1> HIDE DEF M, G, N, plan
<1>5. DOMAIN plan = 1..(2 + M + G + N) /\ Len(plan) = 2 + M + G + N
  BY <1>1, <1>3
<1>6. \A k \in 1..(2 + M + G + N) : plan[k] = PlanTask(s, k)
  BY <1>3
<1>7. /\ plan[1] = Task("ceph-init", 0)
      /\ plan[2 + M + G + N] = Task("ceph-pool", 0)
  BY <1>1, <1>4, <1>6
<1>8. ASSUME NEW k \in 2..(1 + M) PROVE plan[k] = Task("ceph-mon", k - 2)
  BY <1>1, <1>4, <1>6
<1>9. ASSUME NEW k \in (2 + M)..(1 + M + G) PROVE plan[k] = Task("ceph-mgr", k - 2 - M)
  BY <1>1, <1>4, <1>6
<1>10. ASSUME NEW k \in (2 + M + G)..(1 + M + G + N)
       PROVE  plan[k] = Task("ceph-osd", k - 2 - M - G)
  BY <1>1, <1>4, <1>6
<1> QED
  BY <1>1, <1>5, <1>7, <1>8, <1>9, <1>10 DEF M, G, N, plan

LEMMA Ranks ==
    /\ Rank("ceph-init") = 1 /\ Rank("ceph-mon") = 2 /\ Rank("ceph-mgr") = 3
    /\ Rank("ceph-osd") = 4 /\ Rank("ceph-pool") = 5
BY DEF Rank

\* A position of the plan is in one of its five stretches.
LEMMA PlanRegions ==
    ASSUME NEW M \in Nat, NEW G \in Nat, NEW N \in Nat, NEW k \in 1..(2 + M + G + N)
    PROVE  \/ k = 1 \/ k \in 2..(1 + M) \/ k \in (2 + M)..(1 + M + G)
           \/ k \in (2 + M + G)..(1 + M + G + N) \/ k = 2 + M + G + N
OBVIOUS

\* Tasks keep the order of their ranks, and within a step that of the ordinals.
LEMMA PlanOrder ==
    ASSUME NEW s \in Admitted, s.ceph # Nil,
           NEW i \in DOMAIN CephPlan(s), NEW j \in DOMAIN CephPlan(s), i < j
    PROVE  /\ Rank(CephPlan(s)[i].step) <= Rank(CephPlan(s)[j].step)
           /\ CephPlan(s)[i] # CephPlan(s)[j]
<1> DEFINE M == EffectiveMonCount(s)
           G == EffectiveMgrCount(s)
           N == s.nodes
           plan == CephPlan(s)
           At(k, r, o) == Rank(plan[k].step) = r /\ plan[k].ordinal = o
<1>1. /\ M \in 1..N /\ G \in 1..N /\ N \in Nat \ {0}
      /\ DOMAIN plan = 1..(2 + M + G + N)
      /\ plan[1] = Task("ceph-init", 0)
      /\ \A k \in 2..(1 + M) : plan[k] = Task("ceph-mon", k - 2)
      /\ \A k \in (2 + M)..(1 + M + G) : plan[k] = Task("ceph-mgr", k - 2 - M)
      /\ \A k \in (2 + M + G)..(1 + M + G + N) : plan[k] = Task("ceph-osd", k - 2 - M - G)
      /\ plan[2 + M + G + N] = Task("ceph-pool", 0)
  BY PlanShape
<1> HIDE DEF M, G, N, plan
<1>2. \A st, o : Task(st, o).step = st /\ Task(st, o).ordinal = o
  BY DEF Task
<1>3. /\ At(1, 1, 0)
      /\ \A k \in 2..(1 + M) : At(k, 2, k - 2)
      /\ \A k \in (2 + M)..(1 + M + G) : At(k, 3, k - 2 - M)
      /\ \A k \in (2 + M + G)..(1 + M + G + N) : At(k, 4, k - 2 - M - G)
      /\ At(2 + M + G + N, 5, 0)
  BY <1>1, <1>2, Ranks
<1> DEFINE Pos(k, r, o) ==
              \/ k = 1 /\ r = 1 /\ o = 0
              \/ 2 <= k /\ k <= 1 + M /\ r = 2 /\ o = k - 2
              \/ 2 + M <= k /\ k <= 1 + M + G /\ r = 3 /\ o = k - 2 - M
              \/ 2 + M + G <= k /\ k <= 1 + M + G + N /\ r = 4 /\ o = k - 2 - M - G
              \/ k = 2 + M + G + N /\ r = 5 /\ o = 0
<1>4. ASSUME NEW k \in DOMAIN plan
      PROVE  k \in Int /\ \E r \in 1..5, o \in Int : At(k, r, o) /\ Pos(k, r, o)
  <2>1. k \in Int /\ 1 <= k /\ k <= 2 + M + G + N
    BY <1>1
  <2>2. CASE k = 1
    BY <1>3, <2>2
  <2>3. CASE k \in 2..(1 + M)
    <3>1. At(k, 2, k - 2) /\ k - 2 \in Int /\ Pos(k, 2, k - 2)
      BY <1>1, <1>3, <2>1, <2>3
    <3> QED
      BY <2>1, <3>1
  <2>4. CASE k \in (2 + M)..(1 + M + G)
    <3>1. At(k, 3, k - 2 - M) /\ k - 2 - M \in Int /\ Pos(k, 3, k - 2 - M)
      BY <1>1, <1>3, <2>1, <2>4
    <3> QED
      BY <2>1, <3>1
  <2>5. CASE k \in (2 + M + G)..(1 + M + G + N)
    <3>1. At(k, 4, k - 2 - M - G) /\ k - 2 - M - G \in Int /\ Pos(k, 4, k - 2 - M - G)
      BY <1>1, <1>3, <2>1, <2>5
    <3> QED
      BY <2>1, <3>1
  <2>6. CASE k = 2 + M + G + N
    BY <1>3, <2>1, <2>6
  <2> QED
    <3>1. k \in 1..(2 + M + G + N) /\ M \in Nat /\ G \in Nat /\ N \in Nat
      BY <1>1
    <3> QED
      BY <2>2, <2>3, <2>4, <2>5, <2>6, <3>1, PlanRegions
<1>5. i \in DOMAIN plan /\ j \in DOMAIN plan
  BY DEF plan
<1>6. PICK ri \in 1..5, oi \in Int : At(i, ri, oi) /\ Pos(i, ri, oi)
  BY <1>4, <1>5
<1>7. PICK rj \in 1..5, oj \in Int : At(j, rj, oj) /\ Pos(j, rj, oj)
  BY <1>4, <1>5
<1>8. ri <= rj /\ (ri # rj \/ oi # oj)
  <2>1. i \in Int /\ j \in Int /\ i < j
    BY <1>4, <1>5
  <2> HIDE DEF At
  <2> QED
    BY <1>1, <1>6, <1>7, <2>1
<1>9. /\ Rank(plan[i].step) <= Rank(plan[j].step)
      /\ Rank(plan[i].step) # Rank(plan[j].step) \/ plan[i].ordinal # plan[j].ordinal
  BY <1>6, <1>7, <1>8
<1> QED
  BY <1>9 DEF plan

\* For any node count and any daemon counts the plan of an accepted spec is
\* in the order of its dependencies, without repetition, on pods that exist,
\* with OSDs on every node and the pools last.
THEOREM PlanIsOrdered == Spec => []PlanRespectsDependencies
<1>1. ASSUME Inv, Accepted PROVE PlanRespectsDependencies
  <2>1. spec \in Admitted /\ spec.ceph # Nil
    BY <1>1 DEF Inv, Accepted
  <2> DEFINE M == EffectiveMonCount(spec)
             G == EffectiveMgrCount(spec)
             N == spec.nodes
             plan == CephPlan(spec)
  <2>2. /\ M \in 1..N /\ G \in 1..N /\ N \in Nat \ {0}
        /\ DOMAIN plan = 1..(2 + M + G + N) /\ Len(plan) = 2 + M + G + N
        /\ plan[1] = Task("ceph-init", 0)
        /\ \A k \in 2..(1 + M) : plan[k] = Task("ceph-mon", k - 2)
        /\ \A k \in (2 + M)..(1 + M + G) : plan[k] = Task("ceph-mgr", k - 2 - M)
        /\ \A k \in (2 + M + G)..(1 + M + G + N) : plan[k] = Task("ceph-osd", k - 2 - M - G)
        /\ plan[2 + M + G + N] = Task("ceph-pool", 0)
    BY <2>1, PlanShape
  <2>3. \A i, j \in DOMAIN plan :
            i < j => Rank(plan[i].step) <= Rank(plan[j].step) /\ plan[i] # plan[j]
    BY <2>1, PlanOrder
  <2> HIDE DEF M, G, N, plan
  <2>4. \A st, o : Task(st, o).ordinal = o
    BY DEF Task
  <2>5. ASSUME NEW k \in DOMAIN plan PROVE plan[k].ordinal \in 0..(N - 1)
    <3>1. \/ k = 1 \/ k \in 2..(1 + M) \/ k \in (2 + M)..(1 + M + G)
          \/ k \in (2 + M + G)..(1 + M + G + N) \/ k = 2 + M + G + N
      BY <2>2
    <3> QED
      BY <2>2, <2>4, <3>1
  <2>6. ASSUME NEW n \in 0..(N - 1) PROVE \E i \in DOMAIN plan : plan[i] = Task("ceph-osd", n)
    <3>1. /\ n + 2 + M + G \in (2 + M + G)..(1 + M + G + N)
          /\ n + 2 + M + G \in DOMAIN plan
          /\ (n + 2 + M + G) - 2 - M - G = n
      BY <2>2
    <3> QED
      BY <2>2, <3>1
  <2>7. plan[2] = Task("ceph-mon", 0) /\ 2 \in DOMAIN plan
    <3>1. 2 \in 2..(1 + M) /\ 2 - 2 = 0 /\ 2 \in DOMAIN plan
      BY <2>2
    <3> QED
      BY <2>2, <3>1
  <2>8. plan[Len(plan)] = Task("ceph-pool", 0)
    BY <2>2
  <2> QED
    BY <2>3, <2>5, <2>6, <2>7, <2>8 DEF PlanRespectsDependencies, N, plan
<1>2. Inv => PlanRespectsDependencies
  BY <1>1 DEF PlanRespectsDependencies
<1> QED
  BY <1>2, InvInductive, PTL DEF Spec

------------------------------------------------------------------------------
(* Pools and the status line.                                               *)

LEMMA ExpectedCount ==
    ASSUME NEW s \in Admitted, s.ceph # Nil, Filled(s)
    PROVE  /\ ExpectedOSDs(s) = s.nodes * s.ceph.osds
           /\ ExpectedOSDs(s) \in Nat /\ ExpectedOSDs(s) >= 1
<1>1. s.nodes \in Nat /\ s.nodes >= 1 /\ s.ceph.osds \in Nat /\ s.ceph.osds >= 1
  BY CephFields DEF Filled
<1>2. ExpectedOSDs(s) = s.nodes * s.ceph.osds
  BY <1>1 DEF ExpectedOSDs, maxInt32
<1>3. \A a, b \in Nat : (a >= 1 /\ b >= 1) => a * b \in Nat /\ a * b >= 1
  OBVIOUS
<1> QED
  BY <1>1, <1>2, <1>3

\* The plan has one OSD task for each node.
LEMMA OsdTasks ==
    ASSUME NEW s \in Admitted, s.ceph # Nil
    PROVE  Cardinality({k \in DOMAIN CephPlan(s) : CephPlan(s)[k].step = "ceph-osd"}) = s.nodes
<1> DEFINE M == EffectiveMonCount(s)
           G == EffectiveMgrCount(s)
           N == s.nodes
           plan == CephPlan(s)
<1>1. /\ M \in 1..N /\ G \in 1..N /\ N \in Nat \ {0}
      /\ DOMAIN plan = 1..(2 + M + G + N)
      /\ plan[1] = Task("ceph-init", 0)
      /\ \A k \in 2..(1 + M) : plan[k] = Task("ceph-mon", k - 2)
      /\ \A k \in (2 + M)..(1 + M + G) : plan[k] = Task("ceph-mgr", k - 2 - M)
      /\ \A k \in (2 + M + G)..(1 + M + G + N) : plan[k] = Task("ceph-osd", k - 2 - M - G)
      /\ plan[2 + M + G + N] = Task("ceph-pool", 0)
  BY PlanShape
<1> HIDE DEF M, G, N, plan
<1>2. \A st, o : Task(st, o).step = st
  BY DEF Task
<1>3. ASSUME NEW k \in DOMAIN plan
      PROVE  plan[k].step = "ceph-osd" <=> k \in (2 + M + G)..(1 + M + G + N)
  <2>1. \/ k = 1 \/ k \in 2..(1 + M) \/ k \in (2 + M)..(1 + M + G)
        \/ k \in (2 + M + G)..(1 + M + G + N) \/ k = 2 + M + G + N
    <3>1. k \in 1..(2 + M + G + N) /\ M \in Nat /\ G \in Nat /\ N \in Nat
      BY <1>1
    <3> QED
      BY <3>1, PlanRegions
  <2>2. CASE k \in (2 + M + G)..(1 + M + G + N)
    BY <1>1, <1>2, <2>2
  <2>3. CASE k \notin (2 + M + G)..(1 + M + G + N)
    BY <1>1, <1>2, <2>1, <2>3
  <2> QED
    BY <2>2, <2>3
<1>4. (2 + M + G)..(1 + M + G + N) \subseteq DOMAIN plan
  BY <1>1
<1>5. {k \in DOMAIN plan : plan[k].step = "ceph-osd"} = (2 + M + G)..(1 + M + G + N)
  BY <1>3, <1>4
<1>6. Cardinality((2 + M + G)..(1 + M + G + N)) = N
  <2>1. 2 + M + G \in Int /\ 1 + M + G + N \in Int /\ ~(2 + M + G > 1 + M + G + N)
        /\ (1 + M + G + N) - (2 + M + G) + 1 = N
    BY <1>1
  <2> QED
    BY <2>1, FS_Interval
<1> QED
  BY <1>5, <1>6 DEF plan, N

\* With the CRD's defaults filled in, effectivePools changes no named pool.
LEMMA PoolsKept ==
    ASSUME NEW s \in Admitted, s.ceph # Nil, Filled(s), s.ceph.pools # <<>>
    PROVE  /\ DOMAIN effectivePools(s) = DOMAIN s.ceph.pools
           /\ \A k \in DOMAIN s.ceph.pools :
                 /\ effectivePools(s)[k].size = s.ceph.pools[k].size
                 /\ effectivePools(s)[k].minSize = s.ceph.pools[k].minSize
<1>1. effectivePools(s) = [k \in DOMAIN s.ceph.pools |-> PoolWithDefaults(s.ceph.pools[k])]
  BY DEF effectivePools
<1>2. ASSUME NEW k \in DOMAIN s.ceph.pools
      PROVE  /\ PoolWithDefaults(s.ceph.pools[k]).size = s.ceph.pools[k].size
             /\ PoolWithDefaults(s.ceph.pools[k]).minSize = s.ceph.pools[k].minSize
  <2>1. /\ s.ceph.pools[k].size \in Nat /\ s.ceph.pools[k].size >= 1
        /\ s.ceph.pools[k].minSize \in Nat /\ s.ceph.pools[k].minSize >= 1
    BY CephFields DEF Filled
  <2> QED
    BY <2>1 DEF PoolWithDefaults
<1> QED
  BY <1>1, <1>2

\* The default pool fits whatever OSDs there are.
LEMMA DefaultPoolFits ==
    ASSUME NEW s \in Admitted, s.ceph # Nil, Filled(s), s.ceph.pools = <<>>
    PROVE  /\ DOMAIN effectivePools(s) = {1}
           /\ 1 <= effectivePools(s)[1].minSize
           /\ effectivePools(s)[1].minSize <= effectivePools(s)[1].size
           /\ effectivePools(s)[1].size <= ExpectedOSDs(s)
<1>1. effectivePools(s) = <<DefaultPool(s)>>
  BY DEF effectivePools
<1>2. ExpectedOSDs(s) \in Nat /\ ExpectedOSDs(s) >= 1
  BY ExpectedCount
<1> DEFINE size == minInt32(3, ExpectedOSDs(s))
<1>3. size \in Nat /\ size >= 1 /\ size <= ExpectedOSDs(s)
  BY <1>2 DEF minInt32
<1>4. DefaultPool(s).size = size /\ DefaultPool(s).minSize = maxInt32(size - 1, 1)
  BY DEF DefaultPool
<1> HIDE DEF size
<1>5. 1 <= maxInt32(size - 1, 1) /\ maxInt32(size - 1, 1) <= size
  BY <1>3 DEF maxInt32
<1>6. DOMAIN <<DefaultPool(s)>> = {1} /\ <<DefaultPool(s)>>[1] = DefaultPool(s)
  OBVIOUS
<1> QED
  BY <1>1, <1>3, <1>4, <1>5, <1>6

\* What is accepted can converge: no pool, named or defaulted, asks for more
\* replicas than the plan makes OSDs, for any number of pools and nodes.
THEOREM AcceptedPoolsFit == Spec => []AcceptedPoolsFitTheOSDs
<1>1. ASSUME Inv, Accepted PROVE AcceptedPoolsFitTheOSDs
  <2>1. /\ spec \in Admitted /\ spec.ceph # Nil /\ Filled(spec) /\ ValidateCeph(spec)
    BY <1>1 DEF Inv, Accepted
  <2>2. Cardinality({k \in DOMAIN CephPlan(spec) : CephPlan(spec)[k].step = "ceph-osd"})
            * spec.ceph.osds = ExpectedOSDs(spec)
    BY <2>1, OsdTasks, ExpectedCount
  <2>3. ASSUME NEW k \in DOMAIN effectivePools(spec)
        PROVE  /\ 1 <= effectivePools(spec)[k].minSize
               /\ effectivePools(spec)[k].minSize <= effectivePools(spec)[k].size
               /\ effectivePools(spec)[k].size <= ExpectedOSDs(spec)
    <3>1. CASE spec.ceph.pools = <<>>
      BY <2>1, <2>3, <3>1, DefaultPoolFits
    <3>2. CASE spec.ceph.pools # <<>>
      <4>1. /\ k \in DOMAIN spec.ceph.pools
            /\ effectivePools(spec)[k].minSize = spec.ceph.pools[k].minSize
        BY <2>1, <2>3, <3>2, PoolsKept
      <4>2. spec.ceph.pools[k].minSize \in Nat /\ spec.ceph.pools[k].minSize >= 1
        BY <2>1, <4>1, CephFields DEF Filled
      <4>3. /\ effectivePools(spec)[k].minSize <= effectivePools(spec)[k].size
            /\ effectivePools(spec)[k].size <= ExpectedOSDs(spec)
        BY <2>1, <2>3 DEF ValidateCeph
      <4> QED
        BY <4>1, <4>2, <4>3
    <3> QED
      BY <3>1, <3>2
  <2> QED
    BY <2>2, <2>3 DEF AcceptedPoolsFitTheOSDs
<1>2. Inv => AcceptedPoolsFitTheOSDs
  BY <1>1 DEF AcceptedPoolsFitTheOSDs
<1> QED
  BY <1>2, InvInductive, PTL DEF Spec

\* A Ceph section with nothing in it is accepted, for any node count.
THEOREM DefaultsAreAccepted == Spec => []AllDefaultsAccepted
<1>1. ASSUME Inv, verdict = "rejected", raw.ceph # Nil, raw.ceph.mon = 0,
             raw.ceph.pools = <<>>
      PROVE  FALSE
  <2>1. raw \in Admitted
    BY <1>1, AdmissionAssumption DEF Inv
  <2>2. spec = CrdDefaults(raw) /\ spec \in Admitted /\ Filled(spec) /\ ~ValidateCeph(spec)
    BY <1>1 DEF Inv
  <2>3. spec = [raw EXCEPT !.ceph = CephDefaults(raw.ceph)]
    BY <1>1, <2>2 DEF CrdDefaults
  <2>4. spec.ceph = CephDefaults(raw.ceph)
    BY <2>1, <2>3 DEF Admitted
  <2>5. spec.ceph.mon = 3
    BY <1>1, <2>4 DEF CephDefaults, CrdDefault
  <2>6. spec.ceph.pools = <<>>
    <3>1. DOMAIN raw.ceph.pools = {}
      BY <1>1
    <3>2. DOMAIN spec.ceph.pools = DOMAIN raw.ceph.pools
      BY <2>4 DEF CephDefaults
    <3>3. spec.ceph # Nil
      BY <2>2 DEF ValidateCeph
    <3>4. spec.ceph.pools \in Seq(PoolSpecs)
      BY <2>2, <3>3, CephFields
    <3> QED
      BY <3>1, <3>2, <3>4, EmptyDomain
  <2>7. spec.ceph # Nil
    BY <2>2 DEF ValidateCeph
  <2>8. /\ DOMAIN effectivePools(spec) = {1}
        /\ effectivePools(spec)[1].minSize <= effectivePools(spec)[1].size
        /\ effectivePools(spec)[1].size <= ExpectedOSDs(spec)
    BY <2>2, <2>6, <2>7, DefaultPoolFits
  <2> QED
    BY <2>2, <2>5, <2>8 DEF ValidateCeph
<1>2. Inv => AllDefaultsAccepted
  BY <1>1 DEF AllDefaultsAccepted
<1> QED
  BY <1>2, InvInductive, PTL DEF Spec

\* Ceph is called usable only on a line that names a health other than an
\* error and as many OSDs up as the spec asks for, whatever else it lacks.
THEOREM UsableOnlyWithEveryOSD == Spec => []UsableMeansEveryOSDUp
<1>1. ASSUME Inv, Accepted, CephUsable(ParseCephStatus(spec, line))
      PROVE  /\ {"health", "osds_up"} \subseteq DOMAIN line
             /\ line.health \in {"HEALTH_OK", "HEALTH_WARN", "UNKNOWN"}
             /\ line.osds_up >= spec.nodes * spec.ceph.osds
  <2>1. /\ spec \in Admitted /\ spec.ceph # Nil /\ Filled(spec) /\ line \in StatusLines
    BY <1>1 DEF Inv, Accepted
  <2>2. /\ ExpectedOSDs(spec) = spec.nodes * spec.ceph.osds
        /\ ExpectedOSDs(spec) \in Nat /\ ExpectedOSDs(spec) >= 1
    BY <2>1, ExpectedCount
  <2>3. /\ "health" \in DOMAIN line
        /\ line.health \notin {"HEALTH_ERR", "UNREACHABLE", "UNINITIALIZED"}
    BY <1>1 DEF CephUsable, ParseCephStatus
  <2>4. (IF "osds_up" \in DOMAIN line THEN line.osds_up ELSE 0) >= ExpectedOSDs(spec)
    BY <1>1 DEF CephUsable, ParseCephStatus
  <2>5. "osds_up" \in DOMAIN line
    BY <2>2, <2>4
  <2>6. line.health \in HealthWords
    BY <2>1, <2>3, AdmissionAssumption
  <2> QED
    BY <2>2, <2>3, <2>4, <2>5, <2>6 DEF HealthWords
<1>2. Inv => UsableMeansEveryOSDUp
  BY <1>1 DEF UsableMeansEveryOSDUp
<1> QED
  BY <1>2, InvInductive, PTL DEF Spec
=============================================================================
