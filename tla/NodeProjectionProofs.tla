------------------------ MODULE NodeProjectionProofs ------------------------
(***************************************************************************)
(* Proofs about NodeProjection for every set of specs, pods and facts,     *)
(* every number of nodes, and any number of changes and failures.          *)
(***************************************************************************)
EXTENDS NodeProjection, TLAPS

Cond == [ok : BOOLEAN, since : 0..MaxTime]

------------------------------------------------------------------------------
(* Lemmas about the operators the steps are built from.                     *)

\* A function from some condition types to conditions is a list of conditions,
\* and conversely.
LEMMA CondsIntro ==
    ASSUME NEW S \in SUBSET CondTypes, NEW f \in [S -> Cond]
    PROVE  f \in Conds
BY DEF Conds, Cond

LEMMA CondsElim ==
    ASSUME NEW f \in Conds
    PROVE  /\ DOMAIN f \in SUBSET CondTypes
           /\ f \in [DOMAIN f -> Cond]
BY DEF Conds, Cond

\* A line of the inventory has the fields ParseInventory fills in.
LEMMA InventoryLineType ==
    ASSUME NEW f \in Facts, NEW sources
    PROVE  InventoryLine(f, sources) \in LineType \cup {Nil}
<1>1. /\ f.nodeid \in Nat /\ f.mon \in BOOLEAN /\ f.mgr \in BOOLEAN
      /\ f.up \in Nat /\ f.total \in Nat
  BY WorldAssumption
<1> QED
  BY <1>1 DEF InventoryLine, LineType

LEMMA InventoryType ==
    ASSUME NEW f \in [Ordinals -> Facts], NEW p, NEW sources
    PROVE  Inventory(f, p, sources) \in [Ordinals -> LineType \cup {Nil}]
BY InventoryLineType DEF Inventory

\* An object that was just created, and its status.
LEMMA NewNodeType == /\ NewNode \in NodeType
                     /\ NewNode.status = EmptyStatus
                     /\ EmptyStatus.observedAt = 0
                     /\ DOMAIN EmptyStatus.conds = {}
<1>1. [c \in {} |-> Nil] \in Conds
  <2>1. {} \in SUBSET CondTypes /\ [c \in {} |-> Nil] \in [{} -> Cond]
    OBVIOUS
  <2> QED
    BY <2>1, CondsIntro
<1>2. 0 \in 0..MaxTime
  BY BoundsAssumption
<1>3. EmptyStatus \in StatusType
  BY <1>1, <1>2 DEF EmptyStatus, StatusType
<1> QED
  BY <1>3 DEF NewNode, NodeType, EmptyStatus

\* ProxmoxNodeFor builds a status the CRD admits, all of it dated t.
LEMMA DesiredShape ==
    ASSUME NEW s \in Specs, NEW p \in Pods \cup {Nil},
           NEW l \in LineType \cup {Nil}, NEW t \in 0..MaxTime
    PROVE  LET d == ProxmoxNodeFor(s, p, l, t)
           IN  /\ d \in StatusType
               /\ d.observedAt = t
               /\ \A c \in DOMAIN d.conds : d.conds[c].since = t
<1> DEFINE d == ProxmoxNodeFor(s, p, l, t)
           facts == IF l = Nil THEN NoLine ELSE l
           inClu == facts.nodeid > 0
           expect == maxInt32(s.ceph.osds, 1)
           S == CondTypes \ (IF s.ceph = Nil THEN {"CephOSDsUp"} ELSE {})
           ok == [c \in S |->
                     IF c = "PodReady" THEN p # Nil /\ p.ready
                     ELSE IF c = "ClusterMember" THEN inClu
                     ELSE facts.up >= expect]
           conds == [c \in DOMAIN ok |-> [ok |-> ok[c], since |-> t]]
<1>1. facts \in LineType
  BY DEF NoLine, LineType
<1>2. s.ceph # Nil => expect \in Nat
  BY WorldAssumption DEF maxInt32
<1>3. p # Nil => /\ p.ready \in BOOLEAN
                 /\ p.phase \in {"Pending", "Running", "Failed", "Succeeded", "Unknown"}
  BY WorldAssumption
<1>4. nodePhase(p, inClu, facts.online)
        \in {"", "Pending", "Starting", "Joining", "Ready", "Offline", "Failed"}
  BY <1>3 DEF nodePhase
<1>5. ok \in [S -> BOOLEAN]
  <2> SUFFICES ASSUME NEW c \in S
               PROVE  (IF c = "PodReady" THEN p # Nil /\ p.ready
                       ELSE IF c = "ClusterMember" THEN inClu
                       ELSE facts.up >= expect) \in BOOLEAN
    BY Zenon
  <2>1. (p # Nil /\ p.ready) \in BOOLEAN
    BY Zenon
  <2>2. inClu \in BOOLEAN
    BY <1>1 DEF LineType
  <2>3. (facts.up >= expect) \in BOOLEAN
    <3> HIDE DEF facts, expect
    <3> QED
      OBVIOUS
  <2> QED
    BY <2>1, <2>2, <2>3, Zenon
<1>6. conds \in [S -> Cond] /\ S \in SUBSET CondTypes
  BY <1>5 DEF Cond
<1>7. conds \in Conds
  <2> HIDE DEF conds, S
  <2> QED
    BY <1>6, CondsIntro
<1>8. \A c \in DOMAIN conds : conds[c].since = t
  OBVIOUS
<1>9. d = [phase |-> nodePhase(p, inClu, facts.online),
           inCluster |-> inClu, online |-> facts.online, nodeid |-> facts.nodeid,
           pod |-> p,
           ceph |-> IF s.ceph = Nil THEN Nil
                    ELSE [mon |-> facts.mon, mgr |-> facts.mgr, up |-> facts.up,
                          total |-> facts.total, devices |-> expect],
           conds |-> conds, observedAt |-> t]
  BY DEF ProxmoxNodeFor
<1>10. /\ inClu \in BOOLEAN /\ facts.online \in BOOLEAN /\ facts.nodeid \in Nat
       /\ facts.mon \in BOOLEAN /\ facts.mgr \in BOOLEAN
       /\ facts.up \in Nat /\ facts.total \in Nat
  BY <1>1 DEF LineType
<1> HIDE DEF d, facts, inClu, expect, conds
<1>11. d \in StatusType
  <2> DEFINE ceph == IF s.ceph = Nil THEN Nil
                     ELSE [mon |-> facts.mon, mgr |-> facts.mgr, up |-> facts.up,
                           total |-> facts.total, devices |-> expect]
             phase == nodePhase(p, inClu, facts.online)
  <2>1. ceph \in [mon : BOOLEAN, mgr : BOOLEAN, up : Nat, total : Nat, devices : Nat]
                 \cup {Nil}
    BY <1>2, <1>10
  <2>2. d = [phase |-> phase, inCluster |-> inClu, online |-> facts.online,
             nodeid |-> facts.nodeid, pod |-> p, ceph |-> ceph, conds |-> conds,
             observedAt |-> t]
    BY <1>9
  <2>3. phase \in {"", "Pending", "Starting", "Joining", "Ready", "Offline", "Failed"}
    BY <1>4
  <2> HIDE DEF ceph, phase
  <2> QED
    BY <1>7, <1>10, <2>1, <2>2, <2>3 DEF StatusType
<1>12. d.observedAt = t /\ d.conds = conds
  BY <1>9
<1> QED
  BY <1>8, <1>11, <1>12 DEF d

\* The merge: the desired status, each condition that has not flipped as it
\* was stored.
LEMMA MergeShape ==
    ASSUME NEW e \in StatusType, NEW d \in StatusType
    PROVE  LET m == MergedTimes(e, d)
           IN  /\ m \in StatusType
               /\ m.observedAt = d.observedAt
               /\ DOMAIN m.conds = DOMAIN d.conds
               /\ \A c \in DOMAIN m.conds :
                     IF c \in DOMAIN e.conds /\ e.conds[c].ok = d.conds[c].ok
                     THEN m.conds[c] = e.conds[c] ELSE m.conds[c] = d.conds[c]
<1> DEFINE m == MergedTimes(e, d)
           f == [c \in DOMAIN d.conds |->
                   IF c \in DOMAIN e.conds /\ e.conds[c].ok = d.conds[c].ok
                   THEN e.conds[c] ELSE d.conds[c]]
<1>1. e.conds \in Conds /\ d.conds \in Conds
  BY DEF StatusType
<1>2. /\ DOMAIN d.conds \in SUBSET CondTypes
      /\ d.conds \in [DOMAIN d.conds -> Cond]
      /\ e.conds \in [DOMAIN e.conds -> Cond]
  BY <1>1, CondsElim
<1>3. f \in [DOMAIN d.conds -> Cond]
  BY <1>2
<1>4. f \in Conds
  <2> HIDE DEF f
  <2> QED
    BY <1>2, <1>3, CondsIntro
<1>5. m = [d EXCEPT !.conds = f]
  BY DEF MergedTimes
<1> HIDE DEF m
<1>6. m.observedAt = d.observedAt /\ m.conds = f
  BY <1>5 DEF StatusType
<1>7. m \in StatusType
  <2> HIDE DEF f
  <2> QED
    BY <1>4, <1>5 DEF StatusType
<1> QED
  BY <1>6, <1>7 DEF m

------------------------------------------------------------------------------
(* What a step can do to an object.                                         *)

\* m is what a pass that began at time t stores over the status st.
Supersedes(m, st, t) ==
    /\ m \in StatusType
    /\ m.observedAt = t
    /\ \A c \in DOMAIN m.conds :
          IF c \in DOMAIN st.conds /\ st.conds[c].ok = m.conds[c].ok
          THEN m.conds[c] = st.conds[c] ELSE m.conds[c].since = t
    /\ ~nodeStatusEquivalent(st, m)

\* Object i is left alone, deleted, created without status, edited in its
\* metadata or its phase, or given a status by a pass.
NodeChange(i) ==
    \/ node'[i] = node[i]
    \/ node'[i] = Nil
    \/ node[i] = Nil /\ node'[i] = NewNode
    \/ /\ node[i] \in NodeType
       /\ \/ \E dr \in SUBSET {"labels", "annotations"} : node'[i] = [node[i] EXCEPT !.drift = dr]
          \/ /\ node[i].status.phase # "Failed"
             /\ node'[i] = [node[i] EXCEPT !.status.phase = "Failed"]
          \/ \E m : /\ Supersedes(m, node[i].status, now)
                    /\ node'[i] = [node[i] EXCEPT !.status = m]

\* A status that the merge finds different is stored only over the copy the
\* merge was made with, and supersedes it.
LEMMA WriteEffect ==
    ASSUME TypeOK, pc \in {"upsert", "write"}, k < cl.nodes,
           NEW ex \in NodeType, WriteStatus(ex)
    PROVE  /\ k \in Ordinals
           /\ \/ node' = node
              \/ /\ node[k] = ex
                 /\ \E m : /\ Supersedes(m, ex.status, now)
                           /\ node' = [node EXCEPT ![k] = [ex EXCEPT !.status = m]]
<1> DEFINE d == Desired
           m == MergedTimes(ex.status, d)
<1>1. /\ cl \in Specs /\ k \in Nat /\ now \in 0..MaxTime
      /\ pods \in [Ordinals -> Pods \cup {Nil}]
      /\ inv \in [Ordinals -> LineType \cup {Nil}]
      /\ node \in [Ordinals -> NodeType \cup {Nil}]
  BY DEF TypeOK
<1>2. k \in Ordinals
  BY <1>1, BoundsAssumption, WorldAssumption DEF Ordinals
<1>3. /\ d \in StatusType
      /\ d.observedAt = now
      /\ \A c \in DOMAIN d.conds : d.conds[c].since = now
  BY <1>1, <1>2, DesiredShape DEF Desired
<1>4. ex.status \in StatusType
  BY DEF NodeType
<1> HIDE DEF d
<1>5. /\ m \in StatusType
      /\ m.observedAt = now
      /\ DOMAIN m.conds = DOMAIN d.conds
      /\ \A c \in DOMAIN m.conds :
            IF c \in DOMAIN ex.status.conds /\ ex.status.conds[c].ok = d.conds[c].ok
            THEN m.conds[c] = ex.status.conds[c] ELSE m.conds[c] = d.conds[c]
  BY <1>3, <1>4, MergeShape
<1> HIDE DEF m
<1>6. \A c \in DOMAIN m.conds :
         IF c \in DOMAIN ex.status.conds /\ ex.status.conds[c].ok = m.conds[c].ok
         THEN m.conds[c] = ex.status.conds[c] ELSE m.conds[c].since = now
  BY <1>3, <1>5
<1>7. \/ node' = node
      \/ /\ node[k] = ex
         /\ ~nodeStatusEquivalent(ex.status, m)
         /\ node' = [node EXCEPT ![k].status = m]
  BY DEF WriteStatus, MergeNodeStatus, m, d
<1>8. CASE node' = node
  BY <1>2, <1>8
<1>9. CASE /\ node[k] = ex
           /\ ~nodeStatusEquivalent(ex.status, m)
           /\ node' = [node EXCEPT ![k].status = m]
  <2>1. Supersedes(m, ex.status, now)
    BY <1>5, <1>6, <1>9 DEF Supersedes
  <2>2. node' = [node EXCEPT ![k] = [ex EXCEPT !.status = m]]
    BY <1>9
  <2> QED
    BY <1>2, <1>9, <2>1, <2>2
<1> QED
  BY <1>7, <1>8, <1>9

\* Every step changes each object in one of the ways of NodeChange.
LEMMA StepChanges ==
    ASSUME TypeOK, [Next]_vars
    PROVE  \A i \in Ordinals : NodeChange(i)
<1> SUFFICES ASSUME NEW i \in Ordinals
             PROVE  NodeChange(i)
  OBVIOUS
<1>0. node \in [Ordinals -> NodeType \cup {Nil}] /\ nodeCache \in [Ordinals -> NodeType \cup {Nil}]
  BY DEF TypeOK
<1>1. CASE node' = node
  BY <1>1 DEF NodeChange
<1>2. ASSUME NEW ex \in NodeType, pc \in {"upsert", "write"}, k < cl.nodes, WriteStatus(ex)
      PROVE  NodeChange(i)
  <2>1. k \in Ordinals
    BY <1>2, WriteEffect
  <2>2. CASE node[k] = ex /\ \E m : /\ Supersedes(m, ex.status, now)
                                    /\ node' = [node EXCEPT ![k] = [ex EXCEPT !.status = m]]
    <3>1. PICK m : /\ Supersedes(m, ex.status, now)
                   /\ node' = [node EXCEPT ![k] = [ex EXCEPT !.status = m]]
      BY <2>2
    <3>2. CASE i = k
      <4>1. node'[i] = [ex EXCEPT !.status = m] /\ node[i] = ex
        BY <1>0, <2>2, <3>1, <3>2
      <4> QED
        BY <1>2, <3>1, <4>1 DEF NodeChange
    <3>3. CASE i # k
      BY <1>0, <3>1, <3>3 DEF NodeChange
    <3> QED
      BY <3>2, <3>3
  <2> QED
    BY <1>1, <1>2, <2>2, WriteEffect
<1>3. CASE createNode
  <2>1. CASE node[k] = Nil /\ node' = [node EXCEPT ![k] = NewNode]
    <3>1. CASE i = k
      BY <1>0, <2>1, <3>1 DEF NodeChange
    <3>2. CASE i # k
      BY <1>0, <2>1, <3>2 DEF NodeChange
    <3> QED
      BY <3>1, <3>2
  <2> QED
    BY <1>1, <1>3, <2>1 DEF createNode
<1>4. CASE patchNode
  <2> DEFINE patched == [node[k] EXCEPT !.drift = @ \ nodeCache[k].drift]
  <2>1. CASE node[k] # Nil /\ node' = [node EXCEPT ![k] = patched]
    <3>1. CASE i = k
      <4>1. node[i] \in NodeType /\ node'[i] = [node[i] EXCEPT !.drift = @ \ nodeCache[k].drift]
        BY <1>0, <2>1, <3>1
      <4>2. node[i].drift \ nodeCache[k].drift \in SUBSET {"labels", "annotations"}
        BY <4>1 DEF NodeType
      <4> QED
        BY <4>1, <4>2 DEF NodeChange
    <3>2. CASE i # k
      BY <1>0, <2>1, <3>2 DEF NodeChange
    <3> QED
      BY <3>1, <3>2
  <2> QED
    BY <1>1, <1>4, <2>1 DEF patchNode
<1>5. CASE updateNode
  <2>1. CASE Upserting /\ nodeCache[k] # Nil /\ WriteStatus(nodeCache[k])
    <3>1. pc = "upsert" /\ k < cl.nodes
      BY <2>1 DEF Upserting
    <3>2. nodeCache[k] \in NodeType
      <4>1. k \in Ordinals
        BY <3>1, BoundsAssumption, WorldAssumption DEF TypeOK, Ordinals
      <4> QED
        BY <1>0, <2>1, <4>1
    <3> QED
      BY <1>2, <2>1, <3>1, <3>2
  <2>2. CASE pc = "write" /\ WriteStatus(cur)
    <3>1. cur \in NodeType /\ k < cl.nodes
      BY <2>2 DEF TypeOK
    <3> QED
      BY <1>2, <2>2, <3>1
  <2> QED
    BY <1>5, <2>1, <2>2 DEF updateNode
<1>6. CASE prune
  <2>1. PICK gone : node' = [j \in Ordinals |-> IF j \in gone THEN Nil ELSE node[j]]
    BY <1>6 DEF prune
  <2> QED
    BY <2>1 DEF NodeChange
<1>7. ASSUME NEW j \in Ordinals, UserEditsNode(j)
      PROVE  NodeChange(i)
  <2>0. node[j] \in NodeType
    BY <1>0, <1>7 DEF UserEditsNode
  <2>1. CASE i # j
    BY <1>0, <1>7, <2>1 DEF UserEditsNode, NodeChange
  <2>2. CASE i = j
    <3>1. ASSUME NEW part \in {"labels", "annotations"},
                 node' = [node EXCEPT ![j].drift = @ \cup {part}]
          PROVE  NodeChange(i)
      <4>1. node[i].drift \cup {part} \in SUBSET {"labels", "annotations"}
        BY <2>0, <2>2 DEF NodeType
      <4>2. node'[i] = [node[i] EXCEPT !.drift = @ \cup {part}]
        BY <1>0, <2>2, <3>1
      <4> QED
        BY <2>0, <2>2, <4>1, <4>2 DEF NodeChange
    <3>2. CASE /\ node[j].status.phase # "Failed"
               /\ node' = [node EXCEPT ![j].status.phase = "Failed"]
      BY <1>0, <2>0, <2>2, <3>2 DEF NodeChange
    <3>3. CASE node' = [node EXCEPT ![j] = Nil]
      BY <1>0, <2>2, <3>3 DEF NodeChange
    <3> QED
      BY <1>7, <3>1, <3>2, <3>3 DEF UserEditsNode
  <2> QED
    BY <2>1, <2>2
<1>8. CASE Begin \/ listPods \/ upsertFails \/ OperatorCrash \/ UserEditsCluster
  BY <1>1, <1>8 DEF Begin, listPods, upsertFails, OperatorCrash, UserEditsCluster
<1>9. ASSUME NEW j \in Ordinals, NodeCacheSync(j) \/ PodChanges(j) \/ FactChanges(j)
      PROVE  NodeChange(i)
  BY <1>1, <1>9 DEF NodeCacheSync, PodChanges, FactChanges
<1>10. CASE UNCHANGED vars
  BY <1>1, <1>10 DEF vars
<1> QED
  BY <1>3, <1>4, <1>5, <1>6, <1>7, <1>8, <1>9, <1>10 DEF Next, Pass, World

------------------------------------------------------------------------------
(* Types.                                                                   *)

\* An object after a step is still an object, or is gone.
LEMMA NodeTypeKept ==
    ASSUME TypeOK, [Next]_vars
    PROVE  \A i \in Ordinals : node'[i] \in NodeType \cup {Nil}
<1> SUFFICES ASSUME NEW i \in Ordinals
             PROVE  node'[i] \in NodeType \cup {Nil}
  OBVIOUS
<1>1. node[i] \in NodeType \cup {Nil}
  BY DEF TypeOK
<1>2. NodeChange(i)
  BY StepChanges
<1>3. ASSUME node[i] \in NodeType,
             NEW dr \in SUBSET {"labels", "annotations"}, node'[i] = [node[i] EXCEPT !.drift = dr]
      PROVE  node'[i] \in NodeType
  BY <1>3 DEF NodeType
<1>4. CASE node[i] \in NodeType /\ node'[i] = [node[i] EXCEPT !.status.phase = "Failed"]
  <2>1. node[i].status \in StatusType
    BY <1>4 DEF NodeType
  <2>2. [node[i].status EXCEPT !.phase = "Failed"] \in StatusType
    BY <2>1 DEF StatusType
  <2> QED
    BY <1>4, <2>2 DEF NodeType
<1>5. ASSUME node[i] \in NodeType, NEW m, Supersedes(m, node[i].status, now),
             node'[i] = [node[i] EXCEPT !.status = m]
      PROVE  node'[i] \in NodeType
  BY <1>5 DEF Supersedes, NodeType
<1> QED
  BY <1>1, <1>2, <1>3, <1>4, <1>5, NewNodeType DEF NodeChange

\* TypeOK is inductive.
LEMMA TypeInit == Init => TypeOK
<1> SUFFICES ASSUME Init
             PROVE  TypeOK
  OBVIOUS
<1>1. PICK w \in Worlds : pod = w.pod /\ fact = w.fact
  BY DEF Init
<1>2. pod \in [Ordinals -> Pods \cup {Nil}] /\ fact \in [Ordinals -> Facts]
  BY <1>1, WorldAssumption DEF Ordinals
<1> QED
  BY <1>2, BoundsAssumption DEF Init, TypeOK

LEMMA TypeStep == TypeOK /\ [Next]_vars => TypeOK'
<1> SUFFICES ASSUME TypeOK, [Next]_vars
             PROVE  TypeOK'
  OBVIOUS
<1> USE BoundsAssumption
<1>0. /\ spec \in Specs
      /\ \A s \in Specs : s.nodes \in 1..MaxNodes
      /\ cl \in Specs => cl.nodes \in 1..MaxNodes
  BY WorldAssumption DEF TypeOK
<1>1. node' \in [Ordinals -> NodeType \cup {Nil}]
  <2>1. \A i \in Ordinals : node'[i] \in NodeType \cup {Nil}
    BY NodeTypeKept
  <2>2. node' = [i \in Ordinals |-> node'[i]]
    BY DEF TypeOK, Next, Pass, World, vars, Begin, listPods, createNode, patchNode, updateNode,
           WriteStatus, upsertFails, prune, OperatorCrash, NodeCacheSync, UserEditsCluster,
           PodChanges, FactChanges, UserEditsNode
  <2> QED
    BY <2>1, <2>2
<1>2. CASE Begin
  <2>1. inv' \in [Ordinals -> LineType \cup {Nil}]
    BY <1>2, InventoryType DEF Begin, TypeOK
  <2>2. upsets' \in 0..MaxUpsets
    BY <1>2 DEF Begin, Upset, TypeOK
  <2>3. now' \in 0..MaxTime
    BY <1>2 DEF Begin, TypeOK
  <2> QED
    BY <1>1, <1>2, <2>1, <2>2, <2>3 DEF Begin, TypeOK, worldVars
<1>3. CASE listPods
  BY <1>1, <1>3 DEF listPods, End, Upset, TypeOK, worldVars
<1>4. ASSUME NextOrdinal, cl \in Specs, k < cl.nodes, pc \in {"upsert", "write"},
             upsets' \in 0..MaxUpsets
      PROVE  TypeOK'
  <2>1. k' \in 0..MaxNodes
    BY <1>0, <1>4 DEF NextOrdinal, TypeOK
  <2> QED
    BY <1>1, <1>4, <2>1 DEF NextOrdinal, TypeOK, worldVars
<1>5. ASSUME NEW ob \in NodeType, AtStatus(ob), Upserting
      PROVE  TypeOK'
  BY <1>1, <1>5 DEF AtStatus, Upserting, TypeOK, worldVars
<1>6. ASSUME Upserting
      PROVE  pc = "upsert" /\ cl \in Specs /\ k < cl.nodes /\ k \in Ordinals
  BY <1>0, <1>6 DEF Upserting, TypeOK, Ordinals
<1>7. ASSUME pc = "write"
      PROVE  cl \in Specs /\ k < cl.nodes /\ k \in Ordinals /\ cur \in NodeType
  BY <1>0, <1>7 DEF TypeOK, Ordinals
<1>8. upsets \in 0..MaxUpsets
  BY DEF TypeOK
<1>9. CASE createNode
  <2>1. CASE NextOrdinal /\ UNCHANGED upsets
    BY <1>4, <1>6, <1>8, <1>9, <2>1 DEF createNode
  <2>2. CASE AtStatus(NewNode)
    BY <1>5, <1>9, <2>2, NewNodeType DEF createNode
  <2> QED
    BY <1>9, <2>1, <2>2 DEF createNode
<1>10. CASE patchNode
  <2> DEFINE patched == [node[k] EXCEPT !.drift = @ \ nodeCache[k].drift]
  <2>1. CASE NextOrdinal /\ UNCHANGED upsets
    BY <1>4, <1>6, <1>8, <1>10, <2>1 DEF patchNode
  <2>2. CASE node[k] # Nil /\ AtStatus(patched)
    <3>1. node[k] \in NodeType
      BY <1>6, <1>10, <2>2 DEF patchNode, TypeOK
    <3>2. patched \in NodeType
      BY <3>1 DEF NodeType
    <3> HIDE DEF patched
    <3> QED
      BY <1>5, <1>10, <2>2, <3>2 DEF patchNode
  <2> QED
    BY <1>10, <2>1, <2>2 DEF patchNode
<1>11. CASE updateNode
  <2>1. NextOrdinal /\ UNCHANGED upsets /\ (Upserting \/ pc = "write")
    BY <1>11 DEF updateNode, WriteStatus
  <2> QED
    BY <1>4, <1>6, <1>7, <1>8, <2>1
<1>12. CASE upsertFails
  <2>1. upsets' \in 0..MaxUpsets
    BY <1>8, <1>12 DEF upsertFails, Upset
  <2> QED
    BY <1>4, <1>6, <1>7, <1>12, <2>1 DEF upsertFails
<1>13. CASE prune
  <2>1. upsets' \in 0..MaxUpsets
    BY <1>8, <1>13 DEF prune, Upset
  <2> QED
    BY <1>1, <1>13, <2>1 DEF prune, End, TypeOK, worldVars
<1>14. CASE OperatorCrash
  BY <1>1, <1>14 DEF OperatorCrash, Upset, End, TypeOK, worldVars
<1>15. ASSUME NEW i \in Ordinals, NodeCacheSync(i)
       PROVE  TypeOK'
  BY <1>1, <1>15 DEF NodeCacheSync, TypeOK, worldVars, passVars
<1>16. CASE UserEditsCluster
  BY <1>1, <1>16 DEF UserEditsCluster, Upset, TypeOK, passVars
<1>17. ASSUME NEW i \in Ordinals, PodChanges(i)
       PROVE  TypeOK'
  BY <1>1, <1>17 DEF PodChanges, Upset, TypeOK, passVars
<1>18. ASSUME NEW i \in Ordinals, FactChanges(i)
       PROVE  TypeOK'
  BY <1>1, <1>18 DEF FactChanges, Upset, TypeOK, passVars
<1>19. ASSUME NEW i \in Ordinals, UserEditsNode(i)
       PROVE  TypeOK'
  BY <1>1, <1>19 DEF UserEditsNode, Upset, TypeOK, passVars, worldVars
<1>20. CASE UNCHANGED vars
  BY <1>20 DEF vars, worldVars, passVars, TypeOK
<1> QED
  BY <1>2, <1>3, <1>9, <1>10, <1>11, <1>12, <1>13, <1>14, <1>15, <1>16, <1>17, <1>18, <1>19, <1>20
  DEF Next, Pass, World

\* Every stored, cached and returned object has the fields and values the CRD
\* admits, and a pass in its loop has everything the loop reads.
THEOREM ProjectionTypeCorrect == Spec => []TypeOK
BY TypeInit, TypeStep, PTL DEF Spec

------------------------------------------------------------------------------
(* Times.                                                                   *)

\* The clock of the passes does not run backwards.
LEMMA NowMonotone ==
    ASSUME TypeOK, [Next]_vars
    PROVE  now' \in Nat /\ now \in Nat /\ now <= now'
<1>1. now \in 0..MaxTime
  BY DEF TypeOK
<1>2. CASE Begin
  BY <1>1, <1>2, BoundsAssumption DEF Begin
<1>3. CASE now' = now
  BY <1>1, <1>3
<1> QED
  BY <1>2, <1>3 DEF Next, Pass, World, vars, passVars, listPods, createNode, patchNode, updateNode,
     WriteStatus, NextOrdinal, AtStatus, upsertFails, prune, OperatorCrash, NodeCacheSync,
     UserEditsCluster, PodChanges, FactChanges, UserEditsNode

\* One step keeps the two kinds of time of an object consistent.
LEMMA ObservedStep ==
    ASSUME TypeOK, TransitionsObserved, [Next]_vars
    PROVE  TransitionsObserved'
<1> SUFFICES ASSUME NEW i \in Ordinals, node'[i] # Nil
             PROVE  Observed(node'[i]) /\ node'[i].status.observedAt <= now'
  BY DEF TransitionsObserved, Observed
<1>1. now' \in Nat /\ now \in Nat /\ now <= now'
  BY NowMonotone
<1>2. node[i] # Nil => /\ node[i] \in NodeType
                       /\ Observed(node[i])
                       /\ node[i].status.observedAt <= now
  BY DEF TransitionsObserved, TypeOK
<1>3. ASSUME NEW ob \in NodeType
      PROVE  /\ ob.status \in StatusType /\ ob.status.observedAt \in Nat
             /\ \A c \in DOMAIN ob.status.conds : ob.status.conds[c].since \in Nat
  <2>1. ob.status \in StatusType
    BY <1>3 DEF NodeType
  <2>2. ob.status.conds \in Conds /\ ob.status.observedAt \in 0..MaxTime
    BY <2>1 DEF StatusType
  <2>3. ob.status.conds \in [DOMAIN ob.status.conds -> Cond]
    BY <2>2, CondsElim
  <2> QED
    BY <2>1, <2>2, <2>3, BoundsAssumption DEF Cond
<1>4. CASE node'[i] = node[i]
  BY <1>1, <1>2, <1>3, <1>4
<1>5. CASE node'[i] = NewNode
  BY <1>1, <1>5, NewNodeType DEF Observed
<1>6. CASE /\ node[i] \in NodeType /\ node[i] # Nil
           /\ node'[i].status.observedAt = node[i].status.observedAt
           /\ node'[i].status.conds = node[i].status.conds
  BY <1>1, <1>2, <1>3, <1>6 DEF Observed
<1>7. ASSUME node[i] \in NodeType, node[i] # Nil, NEW m, Supersedes(m, node[i].status, now),
             node'[i] = [node[i] EXCEPT !.status = m]
      PROVE  Observed(node'[i]) /\ node'[i].status.observedAt <= now'
  <2>1. node'[i].status = m /\ m.observedAt = now
    BY <1>7 DEF NodeType, Supersedes
  <2>2. \A c \in DOMAIN m.conds : m.conds[c].since <= now
    BY <1>1, <1>2, <1>3, <1>7 DEF Supersedes, Observed
  <2> QED
    BY <1>1, <2>1, <2>2 DEF Observed
<1>8. ASSUME node[i] \in NodeType, NEW dr, node'[i] = [node[i] EXCEPT !.drift = dr]
      PROVE  node'[i].status = node[i].status
  BY <1>8 DEF NodeType
<1>9. CASE node[i] \in NodeType /\ node'[i] = [node[i] EXCEPT !.status.phase = "Failed"]
  <2>1. /\ node'[i].status.observedAt = node[i].status.observedAt
        /\ node'[i].status.conds = node[i].status.conds
    <3> DEFINE failed == [node[i].status EXCEPT !.phase = "Failed"]
    <3>1. node'[i] = [node[i] EXCEPT !.status = failed]
      BY <1>9
    <3>2. node[i].status \in StatusType
      BY <1>9 DEF NodeType
    <3>3. failed.observedAt = node[i].status.observedAt /\ failed.conds = node[i].status.conds
      BY <3>2 DEF StatusType
    <3> HIDE DEF failed
    <3>4. node'[i].status = failed
      BY <1>9, <3>1 DEF NodeType
    <3> QED
      BY <3>3, <3>4
  <2> QED
    BY <1>6, <1>9, <2>1, NilAssumption
<1>10. NodeChange(i)
  BY StepChanges
<1> QED
  BY <1>4, <1>5, <1>6, <1>7, <1>8, <1>9, <1>10, NilAssumption DEF NodeChange

\* No condition claims to have flipped after its object was last observed,
\* and nothing was observed in the future.
THEOREM TransitionsWereObserved == Spec => []TransitionsObserved
<1>1. Init => TransitionsObserved
  BY DEF Init, TransitionsObserved
<1> QED
  BY <1>1, TypeInit, TypeStep, ObservedStep, PTL DEF Spec

\* What a step that leaves an object in place does to its times and content.
LEMMA HonestStep ==
    ASSUME TypeOK, [Next]_vars, NEW i \in Ordinals, Kept(i)
    PROVE  /\ \A c \in DOMAIN node[i].status.conds \cap DOMAIN node'[i].status.conds :
                IF node[i].status.conds[c].ok = node'[i].status.conds[c].ok
                THEN node'[i].status.conds[c].since = node[i].status.conds[c].since
                ELSE node'[i].status.conds[c].since = now
           /\ (/\ node'[i].drift = node[i].drift
               /\ nodeStatusEquivalent(node'[i].status, node[i].status)) => node'[i] = node[i]
<1>1. node[i] \in NodeType /\ node[i] # Nil /\ node'[i] # Nil
  BY DEF Kept, TypeOK
<1>2. NodeChange(i)
  BY StepChanges
<1>3. CASE node'[i] = node[i]
  BY <1>3
<1>4. ASSUME NEW dr, node'[i] = [node[i] EXCEPT !.drift = dr]
      PROVE  /\ node'[i].status = node[i].status
             /\ node'[i].drift = node[i].drift => node'[i] = node[i]
  BY <1>1, <1>4 DEF NodeType
<1>5. CASE /\ node[i].status.phase # "Failed"
           /\ node'[i] = [node[i] EXCEPT !.status.phase = "Failed"]
  <2>1. node[i].status \in StatusType
    BY <1>1 DEF NodeType
  <2>2. node'[i].status = [node[i].status EXCEPT !.phase = "Failed"]
    BY <1>1, <1>5 DEF NodeType
  <2>3. node'[i].status.conds = node[i].status.conds /\ node'[i].status.phase = "Failed"
    BY <2>1, <2>2 DEF StatusType
  <2>4. Timeless(node'[i].status).phase = "Failed"
    BY <2>1, <2>2 DEF StatusType, Timeless
  <2>5. Timeless(node[i].status).phase # "Failed"
    BY <1>5, <2>1 DEF StatusType, Timeless
  <2> QED
    BY <2>3, <2>4, <2>5 DEF nodeStatusEquivalent
<1>6. ASSUME NEW m, Supersedes(m, node[i].status, now), node'[i] = [node[i] EXCEPT !.status = m]
      PROVE  /\ node'[i].status = m
             /\ ~nodeStatusEquivalent(node'[i].status, node[i].status)
  BY <1>1, <1>6 DEF NodeType, Supersedes, nodeStatusEquivalent
<1>7. ASSUME NEW m, Supersedes(m, node[i].status, now), node'[i] = [node[i] EXCEPT !.status = m]
      PROVE  \A c \in DOMAIN node[i].status.conds \cap DOMAIN m.conds :
                IF node[i].status.conds[c].ok = m.conds[c].ok
                THEN m.conds[c].since = node[i].status.conds[c].since
                ELSE m.conds[c].since = now
  BY <1>7 DEF Supersedes
<1>8. CASE \E dr \in SUBSET {"labels", "annotations"} : node'[i] = [node[i] EXCEPT !.drift = dr]
  BY <1>4, <1>8
<1>9. CASE \E m : /\ Supersedes(m, node[i].status, now)
                  /\ node'[i] = [node[i] EXCEPT !.status = m]
  BY <1>6, <1>7, <1>9
<1> QED
  BY <1>1, <1>2, <1>3, <1>5, <1>8, <1>9 DEF NodeChange

\* lastTransitionTime moves only with its condition, whatever the pass that
\* writes it had cached.
THEOREM TransitionTimesAreHonest == Spec => TransitionTimesHonest
<1>1. TypeOK /\ [Next]_vars =>
        [\A i \in Ordinals : Kept(i) =>
           LET old == node[i].status.conds
               new == node'[i].status.conds
           IN  \A c \in DOMAIN old \cap DOMAIN new :
                 IF old[c].ok = new[c].ok THEN new[c].since = old[c].since
                                          ELSE new[c].since = now]_vars
  BY HonestStep
<1> QED
  BY <1>1, TypeInit, TypeStep, PTL DEF Spec, TransitionTimesHonest

\* No pass, and nobody else in the model, rewrites an object for its
\* timestamps alone.
THEOREM NoWriteIsIdle == Spec => NoIdleWrites
<1>1. TypeOK /\ [Next]_vars =>
        [\A i \in Ordinals :
           (/\ Kept(i)
            /\ node'[i].drift = node[i].drift
            /\ nodeStatusEquivalent(node'[i].status, node[i].status)) => node'[i] = node[i]]_vars
  BY HonestStep
<1> QED
  BY <1>1, TypeInit, TypeStep, PTL DEF Spec, NoIdleWrites
=============================================================================
