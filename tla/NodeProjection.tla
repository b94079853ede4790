--------------------------- MODULE NodeProjection ---------------------------
(***************************************************************************)
(* The ProxmoxNode objects: reconcileNodes, which every pass that gets     *)
(* past its StatefulSet runs on its way out, and the functions of          *)
(* internal/resources/node.go.                                             *)
(*                                                                         *)
(* A pass asks node 0 for the facts Proxmox and Ceph know of every node,   *)
(* lists the pods, writes one object per node and prunes the others.  It   *)
(* reads the objects through an informer cache and a write from a stale    *)
(* copy is refused; errors are logged and the loop goes on.                *)
(*                                                                         *)
(*   spec             the cluster's [nodes, ceph], as in CephPlan          *)
(*   pod, fact        the pods; what Corosync and Ceph know of each node   *)
(*   node, nodeCache  the ProxmoxNode objects in the API server / cache    *)
(*   pc, k, now       the pass: where it is, the ordinal it is at, and the *)
(*                    time at which it (or the last one) began             *)
(*   cl, inv, pods    what the pass works from: spec, inventory and pods   *)
(*   cur              the object a create or a patch has returned          *)
(*   upsets           how often the world or a failure has acted (a bound) *)
(***************************************************************************)
EXTENDS CephPlan

CONSTANTS Specs,       \* the specs a user may store
          Pods,        \* the pods a node may have: [phase, ready, host]
          Facts,       \* what may be known of a node: [nodeid, mon, mgr, up, total]
          Worlds,      \* the pods and facts the operator may meet first: [pod, fact]
          MaxNodes,    \* the largest spec.nodes
          MaxTime,     \* bound: the clock, in the seconds metav1.Time resolves
          MaxUpsets    \* bound: changes of the spec, the pods, the facts and the
                       \* objects, failed calls and crashes, taken together

ASSUME BoundsAssumption ==
    MaxNodes \in Nat \ {0} /\ MaxTime \in Nat /\ MaxUpsets \in Nat

ASSUME WorldAssumption ==
    /\ \A s \in Specs : /\ s.nodes \in 1..MaxNodes
                        /\ s.ceph # Nil => s.ceph.osds \in Nat
    /\ \A p \in Pods : /\ p.phase \in {"Pending", "Running", "Failed", "Succeeded", "Unknown"}
                       /\ p.ready \in BOOLEAN
    /\ \A f \in Facts : /\ f.nodeid \in Nat /\ f.mon \in BOOLEAN /\ f.mgr \in BOOLEAN
                        /\ f.up \in Nat /\ f.total \in Nat
    /\ \A w \in Worlds : /\ w.pod \in [0..(MaxNodes - 1) -> Pods \cup {Nil}]
                         /\ w.fact \in [0..(MaxNodes - 1) -> Facts]

VARIABLES spec, pod, fact, node, nodeCache, pc, k, now, cl, inv, pods, cur,
          upsets

worldVars == <<spec, pod, fact>>
passVars  == <<pc, k, now, cl, inv, pods, cur>>
vars == <<worldVars, node, nodeCache, passVars, upsets>>

Ordinals == 0..(MaxNodes - 1)

------------------------------------------------------------------------------
(* The objects.  drift is the part of the metadata that differs from what    *)
(* the operator would write; conds maps a condition type to its status and   *)
(* its lastTransitionTime.  The status field pod stands for podName, podIP,  *)
(* kubernetesNode and the message of PodReady.                               *)

CondTypes == {"PodReady", "ClusterMember", "CephOSDsUp"}

EmptyStatus == [phase |-> "", inCluster |-> FALSE, online |-> FALSE, nodeid |-> 0,
                pod |-> Nil, ceph |-> Nil, conds |-> [c \in {} |-> Nil],
                observedAt |-> 0]

NewNode == [drift |-> {}, status |-> EmptyStatus]

\* The values the fields of a stored object may have, the phases as in the
\* enumeration of the CRD.
Conds == UNION {[S -> [ok : BOOLEAN, since : 0..MaxTime]] : S \in SUBSET CondTypes}

StatusType == [phase : {"", "Pending", "Starting", "Joining", "Ready", "Offline", "Failed"},
               inCluster : BOOLEAN, online : BOOLEAN, nodeid : Nat,
               pod : Pods \cup {Nil},
               ceph : [mon : BOOLEAN, mgr : BOOLEAN, up : Nat, total : Nat, devices : Nat]
                      \cup {Nil},
               conds : Conds, observedAt : 0..MaxTime]

NodeType == [drift : SUBSET {"labels", "annotations"}, status : StatusType]

ASSUME NilAssumption == Nil \notin NodeType

\* What the inventory tells of a node.
LineType == [nodeid : Nat, online : BOOLEAN, mon : BOOLEAN, mgr : BOOLEAN, up : Nat, total : Nat]

\* One line of cluster-inventory.sh, as ParseInventory reads it back: sources
\* is which of `pvecm nodes` and `ceph -s` answer on node 0.  A node that
\* neither Corosync, nor the monitor map, nor the CRUSH tree names has no line.
InventoryLine(f, sources) ==
    LET corosync == "corosync" \in sources
        ceph     == "ceph" \in sources
        nodeid   == IF corosync THEN f.nodeid ELSE 0
    IN  IF nodeid > 0 \/ (ceph /\ (f.mon \/ f.total > 0))
        THEN [nodeid |-> nodeid, online |-> nodeid > 0,
              mon |-> ceph /\ f.mon, mgr |-> ceph /\ f.mgr,
              up |-> IF ceph THEN f.up ELSE 0, total |-> IF ceph THEN f.total ELSE 0]
        ELSE Nil

\* What a node without a line counts as: the zero values.
NoLine == [nodeid |-> 0, online |-> FALSE, mon |-> FALSE, mgr |-> FALSE,
           up |-> 0, total |-> 0]

\* Mutant of nodePhase: the pod's own phase shows through, which is not one
\* of the values the CRD admits.
Mutant_nodePhasePodPhase(p, inCluster, online) ==
    IF p = Nil THEN "Pending"
    ELSE IF ~p.ready THEN p.phase
    ELSE IF ~inCluster THEN "Joining" ELSE IF ~online THEN "Offline" ELSE "Ready"

\* Running and Unknown fall through the switch.
nodePhase(p, inCluster, online) ==
    IF p = Nil THEN "Pending"
    ELSE CASE p.phase = "Pending" -> "Pending"
           [] p.phase \in {"Failed", "Succeeded"} -> "Failed"
           [] OTHER -> IF ~p.ready THEN "Starting"
                       ELSE IF ~inCluster THEN "Joining"
                       ELSE IF ~online THEN "Offline" ELSE "Ready"

\* The status of the desired object: pod p and inventory line l, at time t.
\* Every condition is dated t, provisionally.
ProxmoxNodeFor(s, p, l, t) ==
    LET facts  == IF l = Nil THEN NoLine ELSE l
        inClu  == facts.nodeid > 0
        expect == maxInt32(s.ceph.osds, 1)
        ok     == [c \in CondTypes \ (IF s.ceph = Nil THEN {"CephOSDsUp"} ELSE {}) |->
                     IF c = "PodReady" THEN p # Nil /\ p.ready
                     ELSE IF c = "ClusterMember" THEN inClu
                     ELSE facts.up >= expect]
    IN  [phase |-> nodePhase(p, inClu, facts.online),
         inCluster |-> inClu, online |-> facts.online, nodeid |-> facts.nodeid,
         pod |-> p,
         ceph |-> IF s.ceph = Nil THEN Nil
                  ELSE [mon |-> facts.mon, mgr |-> facts.mgr, up |-> facts.up,
                        total |-> facts.total, devices |-> expect],
         conds |-> [c \in DOMAIN ok |-> [ok |-> ok[c], since |-> t]],
         observedAt |-> t]

\* A status without its timestamps.
Timeless(st) == [st EXCEPT !.observedAt = 0,
                           !.conds = [c \in DOMAIN @ |-> @[c].ok]]

nodeStatusEquivalent(a, b) == Timeless(a) = Timeless(b)

\* The desired status with the transition time of every condition that has
\* not flipped carried over.
MergedTimes(existing, desired) ==
    [desired EXCEPT !.conds =
        [c \in DOMAIN desired.conds |->
            IF c \in DOMAIN existing.conds /\ existing.conds[c].ok = desired.conds[c].ok
            THEN existing.conds[c] ELSE desired.conds[c]]]

\* Mutant of MergeNodeStatus: a new observedAt counts as a change.
Mutant_MergeNodeStatusDeepEqual(existing, desired) ==
    LET merged == MergedTimes(existing, desired)
    IN  [status |-> merged, changed |-> existing # merged]

\* Mutant of MergeNodeStatus: observedAt is carried over like the other times.
Mutant_MergeNodeStatusKeepsObservedAt(existing, desired) ==
    LET merged == MergedTimes(existing, desired)
    IN  [status  |-> [merged EXCEPT !.observedAt = existing.observedAt],
         changed |-> ~nodeStatusEquivalent(existing, merged)]

\* The status to store, and whether storing it is worth a write: timestamps
\* alone are not, and then observedAt stays.
MergeNodeStatus(existing, desired) ==
    LET merged  == MergedTimes(existing, desired)
        changed == ~nodeStatusEquivalent(existing, merged)
    IN  [status  |-> IF changed THEN merged
                     ELSE [merged EXCEPT !.observedAt = existing.observedAt],
         changed |-> changed]

------------------------------------------------------------------------------
\* The operator meets a cluster and has projected nothing yet.
Init ==
    /\ spec \in Specs
    /\ \E w \in Worlds : pod = w.pod /\ fact = w.fact
    /\ node = [i \in Ordinals |-> Nil]
    /\ nodeCache = node
    /\ pc = "idle" /\ k = 0 /\ now = 0
    /\ cl = Nil /\ inv = Nil /\ pods = Nil /\ cur = Nil
    /\ upsets = 0

\* One of the bounded number of changes and failures.
Upset == upsets < MaxUpsets /\ upsets' = upsets + 1

\* The exec reaches a running container only; a failed exec is an inventory
\* without a line.
AllSources == {"corosync", "ceph"}
ExecOk(p) == p # Nil /\ p.phase = "Running"
Inventory(f, p, sources) ==
    [i \in Ordinals |-> InventoryLine(f[i], IF ExecOk(p) THEN sources ELSE {})]

\* A pass reaches its deferred call: it takes the time, and asks node 0.
Begin ==
    /\ pc = "idle"
    /\ now' \in now..MaxTime
    /\ cl' = spec
    /\ \/ /\ inv' = Inventory(fact, pod[0], AllSources)
          /\ UNCHANGED upsets
       \/ /\ Upset
          /\ \E sources \in SUBSET AllSources \ {AllSources} :
                inv' = Inventory(fact, pod[0], sources)
    /\ pc' = "list"
    /\ UNCHANGED <<worldVars, node, nodeCache, k, pods, cur>>

\* The pass is over, and forgets what it worked from.
End ==
    /\ pc' = "idle" /\ k' = 0
    /\ cl' = Nil /\ inv' = Nil /\ pods' = Nil /\ cur' = Nil

listPods ==
    /\ pc = "list"
    /\ \/ /\ pods' = pod /\ pc' = "upsert"
          /\ UNCHANGED <<k, cl, inv, cur, upsets>>
       \/ Upset /\ End
    /\ UNCHANGED <<worldVars, now, node, nodeCache>>

Desired == ProxmoxNodeFor(cl, pods[k], inv[k], now)

NextOrdinal ==
    /\ pc' = "upsert" /\ k' = k + 1 /\ cur' = Nil
    /\ UNCHANGED <<worldVars, nodeCache, now, cl, inv, pods>>

\* The second call of a node: it is at the object the first one returned.
AtStatus(obj) ==
    /\ pc' = "write" /\ cur' = obj
    /\ UNCHANGED <<worldVars, nodeCache, k, now, cl, inv, pods, upsets>>

Upserting == pc = "upsert" /\ k < cl.nodes

\* The cache has no object: create one, without a status, which is a
\* subresource.  If it exists after all the error is logged.
createNode ==
    /\ Upserting /\ nodeCache[k] = Nil
    /\ IF node[k] = Nil
       THEN node' = [node EXCEPT ![k] = NewNode] /\ AtStatus(NewNode)
       ELSE NextOrdinal /\ UNCHANGED <<node, upsets>>

\* The metadata of the cached object is not the desired one: patch what
\* differs in the cached copy.  The answer is the object as it is now stored.
patchNode ==
    /\ Upserting /\ nodeCache[k] # Nil /\ nodeCache[k].drift # {}
    /\ IF node[k] # Nil
       THEN LET patched == [node[k] EXCEPT !.drift = @ \ nodeCache[k].drift]
            IN  node' = [node EXCEPT ![k] = patched] /\ AtStatus(patched)
       ELSE NextOrdinal /\ UNCHANGED <<node, upsets>>

\* Mutant of WriteStatus: a write that does not look at the resourceVersion.
Mutant_WriteStatusUnconditional(existing) ==
    LET merge == MergeNodeStatus(existing.status, Desired)
    IN  /\ node' = IF merge.changed /\ node[k] # Nil
                   THEN [node EXCEPT ![k].status = merge.status] ELSE node
        /\ NextOrdinal /\ UNCHANGED upsets

\* Merge with the copy in hand and write if that changes it; the write is
\* refused unless the copy is the stored object.  After a create the copy has
\* no status and the merge is the desired status itself.
WriteStatus(existing) ==
    LET merge == MergeNodeStatus(existing.status, Desired)
    IN  /\ node' = IF merge.changed /\ node[k] = existing
                   THEN [node EXCEPT ![k].status = merge.status] ELSE node
        /\ NextOrdinal /\ UNCHANGED upsets

updateNode ==
    \/ Upserting /\ nodeCache[k] # Nil /\ nodeCache[k].drift = {} /\ WriteStatus(nodeCache[k])
    \/ pc = "write" /\ WriteStatus(cur)

\* A call of upsertNode fails: the error is logged and the loop goes on.
upsertFails ==
    /\ Upserting \/ pc = "write"
    /\ Upset /\ NextOrdinal /\ UNCHANGED node

\* Mutant of Stale: the first object too many is kept.
Mutant_StaleOffByOne == {i \in Ordinals : nodeCache[i] # Nil /\ i > cl.nodes}

\* The objects in the cached list that no node of the spec stands behind.
Stale == {i \in Ordinals : nodeCache[i] # Nil /\ i >= cl.nodes}

\* Delete them by name; failures are logged.  The list itself may fail, which
\* is the same as every deletion failing.
prune ==
    /\ pc = "upsert" /\ k >= cl.nodes
    /\ \E gone \in SUBSET Stale :
         /\ node' = [i \in Ordinals |-> IF i \in gone THEN Nil ELSE node[i]]
         /\ IF gone = Stale THEN UNCHANGED upsets ELSE Upset
    /\ End
    /\ UNCHANGED <<worldVars, nodeCache, now>>

\* The operator restarts with a full cache.
OperatorCrash ==
    /\ pc # "idle" /\ Upset /\ End
    /\ nodeCache' = node
    /\ UNCHANGED <<worldVars, now, node>>

\* The informer delivers the current version of an object.
NodeCacheSync(i) ==
    /\ nodeCache[i] # node[i]
    /\ nodeCache' = [nodeCache EXCEPT ![i] = node[i]]
    /\ UNCHANGED <<worldVars, node, passVars, upsets>>

------------------------------------------------------------------------------
(* The world: users, Kubernetes, Proxmox and Ceph.                           *)

UserEditsCluster ==
    /\ Upset
    /\ spec' \in Specs \ {spec}
    /\ UNCHANGED <<pod, fact, node, nodeCache, passVars>>

PodChanges(i) ==
    /\ Upset
    /\ \E p \in Pods \cup {Nil} : p # pod[i] /\ pod' = [pod EXCEPT ![i] = p]
    /\ UNCHANGED <<spec, fact, node, nodeCache, passVars>>

FactChanges(i) ==
    /\ Upset
    /\ \E f \in Facts \ {fact[i]} : fact' = [fact EXCEPT ![i] = f]
    /\ UNCHANGED <<spec, pod, node, nodeCache, passVars>>

\* A user edits an object: its labels or annotations (not the label the
\* objects are listed by), or the phase in its status; or deletes it.
UserEditsNode(i) ==
    /\ Upset
    /\ node[i] # Nil
    /\ \/ \E part \in {"labels", "annotations"} \ node[i].drift :
             node' = [node EXCEPT ![i].drift = @ \cup {part}]
       \/ node[i].status.phase # "Failed" /\ node' = [node EXCEPT ![i].status.phase = "Failed"]
       \/ node' = [node EXCEPT ![i] = Nil]
    /\ UNCHANGED <<worldVars, nodeCache, passVars>>

------------------------------------------------------------------------------
Pass == \/ Begin \/ listPods \/ createNode \/ patchNode \/ updateNode
        \/ upsertFails \/ prune

World == \/ UserEditsCluster
         \/ \E i \in Ordinals : PodChanges(i) \/ FactChanges(i) \/ UserEditsNode(i)

Next == \/ Pass
        \/ OperatorCrash
        \/ \E i \in Ordinals : NodeCacheSync(i)
        \/ World

Spec == Init /\ [][Next]_vars

\* The worker keeps making passes (each ends in a requeue or an error that is
\* retried) and the watch keeps delivering.
FairSpec ==
    /\ Spec
    /\ WF_vars(Pass)
    /\ \A i \in Ordinals : WF_vars(NodeCacheSync(i))

------------------------------------------------------------------------------
(* Properties.                                                               *)

TypeOK ==
    /\ spec \in Specs
    /\ pod \in [Ordinals -> Pods \cup {Nil}]
    /\ fact \in [Ordinals -> Facts]
    /\ node \in [Ordinals -> NodeType \cup {Nil}]
    /\ nodeCache \in [Ordinals -> NodeType \cup {Nil}]
    /\ pc \in {"idle", "list", "upsert", "write"}
    /\ k \in 0..MaxNodes
    /\ now \in 0..MaxTime
    /\ cl \in IF pc = "idle" THEN {Nil} ELSE Specs
    /\ inv \in IF pc = "idle" THEN {Nil} ELSE [Ordinals -> LineType \cup {Nil}]
    /\ pods \in IF pc \in {"upsert", "write"} THEN [Ordinals -> Pods \cup {Nil}] ELSE {Nil}
    /\ cur \in IF pc = "write" THEN NodeType ELSE {Nil}
    /\ pc = "write" => k < cl.nodes
    /\ upsets \in 0..MaxUpsets

\* The steps that leave object i in place.
Kept(i) == node[i] # Nil /\ node'[i] # Nil

\* lastTransitionTime means what it says: as long as an object lives, the time
\* of a stored condition moves only when its status flips, and then to the
\* time of the pass that saw it, although every pass builds its status afresh
\* and merges it with a copy that may be stale (MergeNodeStatus, upsertNode).
TransitionTimesHonest ==
    [][\A i \in Ordinals : Kept(i) =>
         LET old == node[i].status.conds
             new == node'[i].status.conds
         IN  \A c \in DOMAIN old \cap DOMAIN new :
               IF old[c].ok = new[c].ok THEN new[c].since = old[c].since
                                        ELSE new[c].since = now]_vars

\* No write for nothing: a stored object that changes, changes in something
\* other than its timestamps ("each object is patched only when its content
\* actually changed").
NoIdleWrites ==
    [][\A i \in Ordinals :
         (/\ Kept(i)
          /\ node'[i].drift = node[i].drift
          /\ nodeStatusEquivalent(node'[i].status, node[i].status)) => node'[i] = node[i]]_vars

\* No condition of an object claims to have flipped after the object was last
\* observed, and nothing was observed in the future: the two kinds of time in
\* a status, one carried over and one fresh, stay consistent.
Observed(obj) == \A c \in DOMAIN obj.status.conds :
                     obj.status.conds[c].since <= obj.status.observedAt

TransitionsObserved ==
    \A i \in Ordinals : node[i] # Nil =>
        Observed(node[i]) /\ node[i].status.observedAt <= now

\* The status of node i is what a pass that fails at nothing would find.
Current(i) ==
    /\ node[i] # Nil
    /\ node[i].drift = {}
    /\ nodeStatusEquivalent(node[i].status,
          ProxmoxNodeFor(spec, pod[i], Inventory(fact, pod[0], AllSources)[i], now))

\* The projection converges: once the world has stopped changing and nothing
\* fails, there is exactly one object per node of the spec, with the metadata
\* the operator gives it and a status that tells the state of the node,
\* whatever was created without status, refused, edited or left over before.
ProjectionConverges ==
    <>[](\A i \in Ordinals : IF i < spec.nodes THEN Current(i) ELSE node[i] = Nil)

\* "InCluster is true when this node appears as a member in `pvecm nodes`"
\* (proxmoxnode_types.go): an object that says its node is a member does not
\* come to deny it while Corosync lists the node.
NodesLeaveOnlyWhenUnlisted ==
    [][\A i \in Ordinals : (Kept(i) /\ node[i].status.inCluster /\ fact[i].nodeid > 0)
         => node'[i].status.inCluster]_vars
=============================================================================
