# multiprox in TLA+

multiprox runs Proxmox VE clusters in containers. A Kubernetes operator
(`kubernetes/operator`) turns a `ProxmoxCluster` object into a StatefulSet whose
pods are Proxmox nodes, forms the Proxmox cluster by running scripts in the pods,
builds a Ceph cluster inside it, and reports what it did in the object's status.
A second deployment (`docker/`) does the same with docker compose and shell
scripts. This directory models both, checks them with TLC and proves their safety properties
with TLAPS.

## 1. The system

| part | state | operations | interacts with |
|---|---|---|---|
| spec derivation (`internal/resources/ceph.go`, `effectivePools` in `configmap.go`) | none (pure) | defaults, capped counts, effective pools, `ValidateCeph`, `CephPlan`, `ParseCephStatus`, `CephUsable` | called by the reconcile loop and by the script renderer |
| reconcile loop (`controllers/proxmoxcluster_controller.go`) | the in-memory copy of the object, the step, the loop counter; informer caches; the work queue | `Reconcile` steps 1–11, `reconcileCeph`, `reconcileDelete`, finalizer and status writes | API server (cached reads, optimistic writes), pods (exec) |
| pod exec (`internal/exec/exec.go`) | none | `Run`: stream a command, return output or an error | a script that may outlive the call |
| owned resources (`statefulset.go`, `configmap.go`, `service.go`) | StatefulSet, ConfigMap, two Services | create or merge-patch | the StatefulSet controller, the kubelet |
| rendered scripts (`configmap.go`) | Proxmox membership (pmxcfs), `ceph.conf`, Ceph daemons, pools; `/var/lib/ceph` in the container | `cluster-init`, `cluster-join`, `ceph-init/-mon/-mgr/-osd/-pool/-status` | Corosync, Ceph |
| ProxmoxNode projection (`node.go`, `reconcileNodes`) | one object per node | upsert, prune | written after every pass, read by nobody |
| operator process (`main.go`, `SetupWithManager`) | the work queue, timers, informer caches | leader election, one worker for all clusters, restart | API server (watches), garbage collector |
| docker formation (`docker/Makefile`, `cluster-init.sh`, `cluster-join.sh`) | containers, volumes, the compose overlays | scale, up, cluster-full, restart, down, clean, force-clean | Corosync, pmxcfs, sshd of pve1 |
| docker teardown (`stop-guests`, `rbd-unmap-retry.sh`) | guests, RBD devices, unmap loops in the containers | stop, unmap with retries, compose down | the kernel, the OSDs that go away |
| docker OSDs (`setup-loop-osds.sh`, `ceph-osd-create.sh`, `ceph-reattach.sh`) | backing files, loop devices, units, daemons | set up, create, reattach | docker compose, systemd, Ceph |
| guest bridge, generators, packaging | – | – | not modelled, section 7 |

What is hard in this code:

- **Stale reads.** Every `Get` is answered by an informer cache. `updateStatus`
  re-reads through that cache and replaces the *whole* status by the one computed
  from the copy the pass began with.
- **Crashes and failed calls between a script and the status that records it.** The
  operator keeps no other record of progress than the status conditions.
- **Scripts that outlive their exec call**, and are started again beside themselves.
- **Edits and deletions while a pass is under way.**
- **Status conditions used as a program counter**: they select the step a pass takes,
  some are never cleared, and they describe a spec that may have changed since.
- **Pods and containers that are replaced**: some of the state a script tests survives on a
  volume, in another node or on the host, some does not.
- **Names that are used again**: a cluster is deleted and created under its name while the
  objects its predecessor owned still exist; every write goes by name.
- **One worker for all clusters**, fed by watches and timers.
- **Commands that succeed without effect** (a key copied into a read-only pmxcfs), **timeouts
  that kill the client and not the work**, and a user who runs everything again.

The properties that make each part correct are listed in section 4; the hazards, each
at its line, in `PROJECT.json`.

## 2. Modules

| module | models |
|---|---|
| `CephPlan` | the pure functions of `ceph.go` and `effectivePools` |
| `SpecAdmission` | a submitted spec: CRD defaults, then `ValidateCeph`; extends `CephPlan` |
| `ClusterFormation` | abstract: node 0 founds, nodes join, a count is reported |
| `ClusterReconcile` | the reconcile loop and its world; extends `CephPlan`, instantiates `ClusterFormation` |
| `ClusterReconcileProofs` | the theorems about `ClusterReconcile` |
| `NodeProjection` | the ProxmoxNode objects; extends `CephPlan` |
| `NodeProjectionProofs` | the theorems about `NodeProjection` |
| `SpecAdmissionProofs` | the theorems about `SpecAdmission` |
| `CephBuildProofs` | `ReadyMeansCephBuilt`, for `ClusterReconcile`; extends `ClusterReconcileProofs` |
| `OperatorManager` | the operator process with several clusters, and the lives of a name |
| `OperatorManagerProofs` | the theorems about `OperatorManager` |
| `DockerFormation` | the docker deployment's formation; instantiates `ClusterFormation` |
| `DockerTeardown` | `make down` on a docker cluster with guests on RBD |
| `DockerOsds` | the OSDs of the docker deployment |
| `DockerFormationProofs`, `DockerTeardownProofs`, `DockerOsdsProofs` | the theorems about these three |
| `MC...` | the finite instances TLC checks |

Definitions named `Mutant_...` are deliberately wrong versions of the definition that
follows them. Substituting one must break the property it is paired with in
`PROJECT.json`; they are used nowhere else.

### ClusterReconcile and the code

| variable | code |
|---|---|
| `obj` | the ProxmoxCluster in the API server: `gen` (metadata.generation), `spec`, `deleting` (deletionTimestamp), `fin` (the finalizer), `status` |
| `cache` | the informer's copy of it |
| `queued` | the key is in the work queue |
| `pc`, `mem`, `k` | the pass: step, its `cluster` variable, the loop variable of the join loop or the position in the plan |
| `sts`, `stsCache` | the StatefulSet (replicas, readyReplicas, `CEPH_OSDS_PER_NODE`, OSD claim templates) and the informer's copy |
| `cm`, `mnt` | the spec the ConfigMap was rendered from; the spec the mounted scripts were rendered from |
| `pod` | each pod absent, running or ready |
| `pve` | members of the Proxmox cluster, `ceph.conf`, monitors, managers, OSDs, pools; `monDir`, `mgrDir`, `osdUp` are the daemons whose `/var/lib/ceph` data still exists |
| `orphans` | scripts running in a pod with no pass waiting for them |

`status.conditions` is the set of conditions that are True, because the code asks only
`IsStatusConditionTrue`. `pc` takes the name of the next status write where a step
ends in one (`PhaseOf` lists the twelve writes and their phases); the write is a step of its
own, since anything can happen between a script and the write.

| action | code |
|---|---|
| `Fetch` | steps 1–2, and step 3 (`Validated`) when nothing has to be written before it |
| `addFinalizer`, `removeFinalizer` | the functions of that name, `reconcileDelete` |
| `EnsureOwned` | steps 4–6: `ensureService`, `ensureConfigMap`, `ensureStatefulSet` |
| `Gate` | step 7, and the choice between steps 8 to 11 |
| `updateStatus` | the function, and what the pass does after it |
| `clusterInit`, `clusterJoin`, `allNodesJoined` | steps 8 and 9 |
| `cephPlanStep`, `cephStatus` | `reconcileCeph` |
| `APIError` | a refused or failed call, returned as an error and so requeued |
| `CacheSync`, `StatefulSetCacheSync` | watch events (`SetupWithManager`) |
| `KubeletSync`, `PodCreated`, `PodBecomesReady`, `PodRemoved`, `StatefulSetStatus`, `GarbageCollect` | Kubernetes |
| `UserEdits`, `UserDeletes` | users |
| `PodFails`, `OperatorCrash`, `OrphanRuns` | failures |

A script is a task: `CanX` says when it can exit 0, `Done` what it has then done, and
`Partial` what it may have done when it is cut short. `ExecErr` covers a script that
fails and a call that fails while the script runs on (`orphans`).

### NodeProjection and the code

`reconcileNodes` is deferred in `Reconcile` and runs on every way out of a pass that got
past its StatefulSet. No step of the loop reads what it writes, so it is a module of its
own, with the pass reduced to the spec and the time it works from.

| variable | code |
|---|---|
| `spec`, `pod`, `fact` | the cluster's spec; the pods; what Corosync and Ceph know of each node |
| `node`, `nodeCache` | the ProxmoxNode objects (`drift`: the metadata that is not as the operator writes it) and the informer's copies |
| `pc`, `k`, `now`, `cl`, `inv`, `pods` | the pass: step, ordinal, `now`, `cluster`, `inventory`, `podsByName` |
| `cur` | the object a create or a patch has returned, before the status call |

| action | code |
|---|---|
| `Begin` | the time and the one exec of `cluster-inventory.sh`; a failed exec, or a `pvecm` or `ceph` that does not answer, leaves out what it would have told |
| `listPods` | the list of the pods |
| `createNode`, `patchNode`, `updateNode` | the three branches of `upsertNode`; the status call after a create or a patch is a step of its own |
| `upsertFails` | an error of `upsertNode`, logged; the loop goes on |
| `prune` | the list and the deletions |
| `NodeCacheSync`, `OperatorCrash` | the watch; a restart |
| `UserEditsCluster`, `PodChanges`, `FactChanges`, `UserEditsNode` | the world |

`InventoryLine` is the script and `ParseInventory` together: which nodes get a line, and
what the fields that were not known read as. `spec` and `pod` are read directly: reading an older
copy is the same as the change coming after the read. The clock is taken
not to run backwards. Users are taken not to remove the label
`multiprox.io/cluster`, by which the prune finds the objects.

### OperatorManager and the code

A pass of `ClusterReconcile` is reduced to what it does to objects in the API server; what is
added is everything around it: the queue, the other clusters, and the end and the return of
a name. The UID, which `ClusterReconcile` does without, tells incarnations apart.

| variable | code |
|---|---|
| `obj`, `cache` | the ProxmoxClusters (`seen`: status.observedGeneration) and the informer's copies |
| `res`, `resCache` | per cluster and kind the owned object: `owner` (the UID in its controller reference), `data` (what the operator patches), `fixed` (what only its creation sets) |
| `queue`, `again`, `timer` | the work queue, the keys woken during their own pass, `RequeueAfter` and back-off |
| `pass` | per key, the step and the copy of the object |
| `born`, `buried` | UIDs handed out; UIDs whose finalizer the operator has removed |

| action | code |
|---|---|
| `Fetch`, `notFound` | the worker takes a key; steps 1 and 2 |
| `addFinalizer`, `removeFinalizer` | the functions, `reconcileDelete`: both work on what the cache holds under the name by then |
| `ensure` | `ensureService`, `ensureConfigMap`, `ensureStatefulSet` in the order of the pass: create, or patch with the difference to the cached copy; the owner reference is never patched |
| `reportInvalid`, `updateStatus` | step 3; the status write of steps 7–11 |
| `reconcileNodes` | the deferred projection, and the return with a requeue |
| `APIError`, `OperatorRestarts` | a failed call; a restart or a change of leader |
| `CacheSync`, `OwnedCacheSync`, `TimerFires` | `For` and `Owns` of `SetupWithManager` (ProxmoxNodes are in neither); timers |
| `GarbageCollect`, `UserCreates`, `UserEdits`, `UserDeletes` | Kubernetes and users |

### The docker modules and the code

`DockerFormation`. `compose` is the number of nodes the compose files define (the overlay of
`make scale` replaces the earlier one), `ctr` the containers, `vol` the cluster each node's volumes hold, `active`, `live`,
`writable` pve-cluster, Corosync and a writable pmxcfs on pve1, `keys` the nodes pve1 lets in, `make` the
`make cluster-full` under way, `claim` the node count of its last "Cluster fully formed". The steps
`init.guard` to `init.install` are `cluster-init.sh`, `join.guard` to `join.quorum` are
`cluster-join.sh`, each with its loop and bound (`Patience`); `Fails` is the `|| exit 1` of the
Makefile. `Scale`, `Up`, `Recreate` (`make up` after a rebuild), `Restart`, `Down`, `Clean` and
`ForceClean` are the targets; `Interrupt` is Ctrl-C.

`DockerTeardown`. `at`, `here`, `guest` are where `make stop-guests` is in its two loops,
`dev` and `settle` the RBD devices of the host, `home` the node whose guest has each, `loop[n]` the unmap loop
inside container n with the shim's attempt, `elapsed` the time the `timeout 60` has run, in units of the shim's delay.
The devices are not a node's own: uevents reach every container, and a udev rule and a trigger at boot
make a node in its `/dev` for each of them (`Dockerfile:214-216, 253-259, 277`), so every loop (`Makefile:146`) goes
through the devices of all nodes. A guest is stopped in its own container only. `Attempt` is one
turn of the shim; `PctStopTimesOut` and `ExecTimesOut` are the timeouts, after which `LateStop`, `LateUnmap` and
`Attempt` go on in the container. `slow` records which devices were not freed in time, those of guests beyond
`NODES` among them.

`DockerOsds`. `disk`, `linked`, `overlay` are the host: what each backing file holds, its loop
device and link, the Ceph overlay; `made`, `mapped`, `ctr`, `units` the containers, whether they were
created with the device, run, and have the OSD's units enabled; `fenced` where LVM sees the node's own device only;
`reattach` the boot service. To the code its ends are one, exit 0; the model's `gaveup` (no ceph.conf in time) and
`failed` (the activation failed) only record what happened.
`CephDevices` is `make ceph-devices`, `Boots` the entrypoint, whose fence may fail with a warning, `OsdCreate` the
fence and pass 2 of `ceph-osd-create.sh`, `ReattachWaits` and
`Activate` are `ceph-reattach.sh`, `Up`, `Rebuild`, `Restart`, `Down`, `Clean`, `CephDevicesClean` the targets, `Reboot` the host.

### Abstractions

- *One cached version.* The cache holds one older version of the object and jumps to
  the current one. A watch delivers the versions in between one by one, but the
  operator's writes succeed only when the cache is current, and a pass that reads an
  intermediate version is one whose cache was synchronised earlier and not again.
- *The ConfigMap* is written in `ClusterReconcile` as if its informer never lagged. The code compares with the
  cached copy (`ensureConfigMap`) and may take a pass too many to write it; the mounted scripts, which lag it by any
  time there, show the same. In `OperatorManager` the comparison is with the cached copy.
- *One mount.* All pods see the same version of the scripts, which lags the ConfigMap.
  The environment of a pod is that of the StatefulSet's template.
- *Membership* is the node list in pmxcfs. It is on the cluster-data volume and
  survives the replacement of a pod; nothing in the code removes a node.
- *`pveceph mon create`* on a host that is in the monitor map but has lost its directory
  is taken to fail. It is an external command; no property depends on the choice.
- *`HEALTH_ERR`* in a reachable Ceph cluster counts as a failure of the environment and
  is bounded like the others.
- *Services* hold no state a step reads. A pass that fails at the services is
  `APIError` at `ensure`.
- *One worker.* `max-concurrent-reconciles` is parsed in `main.go` and passed to nobody, so
  the default of one worker applies (`Workers` in `OperatorManager`). Leader election is taken to work.
- *`ClusterReconcile` has one cluster and one incarnation*; `OperatorManager` has several of both and
  in return does not look into the scripts.
- *Patches* in `OperatorManager` carry the whole `data` of a kind: the fields the operator owns all
  derive from one spec, so they differ together.
- *Docker formation.* `pvecm create` and `pvecm add` are external and atomic: a node either has the
  cluster's configuration or not; `add` then waits for the quorum with the new node. The base file has
  `BaseNodes` nodes (3 in the repository, 1 in the runs).
- *Docker teardown.* Guests are there when `make down` starts and none is started during it. The moment
  compose takes the containers, all OSDs are gone. Every guest has one device. All containers see the same
  devices from the start; a device another container has unmapped meanwhile costs a loop no delay. Time passes
  in the second loop of `stop-guests` and after it, not while guests are being stopped.
- *Docker OSDs.* One disk per node; `ceph-osd-create.sh` treats its devices one by one and
  independently. `make ceph-devices-clean` is run with the containers down. `ceph-volume lvm activate --all` is
  external: where the fence of this boot failed it may fail at any time, elsewhere as one of the bounded mishaps, and
  it may or may not have enabled the units. That without the fence it might reach for the
  volumes of another node is left out; the source says it "scans other nodes' volume groups and fails".
  An enabled unit may start its OSD but is not relied on, since it scans LVM as the service does.

## 3. Runs

| run | instance | checks |
|---|---|---|
| `spec_admission` | 1–5 nodes, monCount 0–6, mgrCount 0/1/3, 0–2 OSDs per node, up to two pools of size 0–4 and minSize 0–3 (0 = left out), whole and broken status lines | `MonCountIsLargestOddFit`, `AcceptedPoolsFitTheOSDs`, `PlanRespectsDependencies`, `AllDefaultsAccepted`, `UsableMeansEveryOSDUp` |
| `plain` | no Ceph, 1↔2 nodes, one edit or deletion, one failure, with fairness | `TypeOK`, `JoinedNodesAreMembers`, `ImplementsFormation`, `NothingProvisionedAfterRemoval`, `PlainClusterSettles`, `DeletionCompletes` |
| `ceph_live` | Ceph on one node, a pool added, or the spec invalid or mended, one failure, with fairness | `ReadyMeansCephBuilt`, `CephClusterBecomesReady`, `InvalidSpecReported` |
| `node_projection` | 1 node without Ceph or 2 with, nothing or everything running, two changes or failures, with fairness | `TypeOK`, `TransitionsObserved`, `TransitionTimesHonest`, `NoIdleWrites`, `ProjectionConverges` |
| `operator_manager` | two clusters: one edited, deleted or re-created (two operations), the other with an invalid spec that only events wake; one failure; the StatefulSet and the ProxmoxNodes; with fairness | `TypeOK`, `NoPassForTheBuried`, `QuietMeansSettled`, `FinalizerGuardsTheLiving`, `ClustersSettle` |
| `docker_formation` | one base node, scaled to three or not, three mishaps, loops of two polls, with fairness | `TypeOK`, `AddOnlyWithTrust`, `FormationBetweenTeardowns`, `RetriesConverge` |
| `docker_teardown` | two nodes, three devices of guests on either, NODES 1 or 2, three attempts of the shim in a timeout of three delays, devices busy for up to three, with fairness | `TypeOK`, `LeftMappedHasCause`, `DownIsReached`, `ShimsEnd` |
| `docker_osds` | two nodes, four mishaps, two polls, with fairness | `TypeOK`, `OsdsHaveAStarter`, `OsdDataKept`, `OsdsComeBack` |
| `scale_up`, `scale_down`, `node_membership`, `docker_half_old` | the smallest instance that shows the disagreement | one documented claim each, refuted (section 6) |

Why these bounds are enough to be interesting: two nodes are the least with which
there is a join, a partial join, a scale-up, a scale-down and a lost quorum. One edit
or deletion falls between any two steps of a pass; one failure, in a run that also has cache
lag and conflicts without bound, is a crash, a lost pod, a script left running or a failed
call at any step. Boundaries of the counts (odd and even, below and above
the node count, size against OSD count) all occur in `spec_admission`. The proofs of
section 5 hold for every value of these bounds.

In `node_projection` two changes or failures fall at any two steps: an
object edited twice behind the cache, a crash between a create and its status and an edit
of the spec, a failed inventory and the recovery from it; two points in time are enough to tell a time that was carried over
from a fresh one.

In `operator_manager` two operations are a deletion and a re-creation, or an edit and a deletion,
each at any step of a pass and before or after any delivery or collection; the second
cluster shows whether a key that wakes itself for ever keeps another from its pass. The StatefulSet
stands for the ensured objects, being the only one with a part that only its creation sets; the
proofs have all of them. In the docker runs two polls tell a loop that sees its
condition from one that gives up; three nodes are the least with which a join fails between two
others, and with three mishaps a teardown, a rebuild and an interruption
meet; the shim's retries equal the budget of the exec as they do in the code (30 × 2 s, 60 s),
and a device may be busy for as long as both; three devices are a fast one before and one after a slow one of another
node; four mishaps are a failed creation or activation, a reboot, a rebuild and a teardown.

Deadlock is not checked where the system may really stop: a deleted cluster, or one whose invalid spec
has been reported, has nothing left to do, the docker deployment rests when its user does, and a
teardown ends.

**Fairness.** `FairSpec` assumes weak fairness of the worker as a whole, of the watches, the kubelets, the
StatefulSet controller and the garbage collector, each of which is a loop that keeps
running. Users, failures and scripts left running are under no obligation. `TimelySpec`
adds a timing assumption: from some point on a pass does not begin before the watch
has delivered the last write. Requeues are 15 seconds to two minutes apart
(`requeueShort` to `requeueLong`) and failed passes back off exponentially, while a watch
event takes milliseconds; but nothing in the code enforces it. Without it the race between
the last status write and the pass that the requeue starts could be lost every time, and
the object would alternate between two statuses.
`FairSpec` of `OperatorManager` assumes that the worker goes on while there are keys, that passes end,
timers fire, the watch on the clusters delivers, and so do the other watches and the garbage collector between them. That a pass ends is an
assumption about its scripts: `exec.Run` has no timeout of its own, but every loop in the rendered scripts is
bounded. No timing assumption is needed there, because no pass in this module undoes what another reported.
The docker modules assume that pve-cluster and the reattach service run, that scripts and `timeout` go on, and, for
`RetriesConverge` and `OsdsComeBack`, a user who repeats `make up`, `make cluster-full` and
`make ceph-devices` as the Makefile and the scripts tell them to; strong fairness of `Up` and `Retry`
says that this user is not for ever overtaken by another target. Guests and the kernel owe nothing in `DockerTeardown`.
`FairSpec` of `NodeProjection` assumes weak fairness of the passes, which every requeue starts
again, and of the delivery of each object; it needs no timing assumption, because a pass whose
write was refused leaves the stored object alone.

## 4. Properties

- `JoinedNodesAreMembers`: the status never claims a node that is not a member.
- `ImplementsFormation`: `ClusterReconcile` refines `ClusterFormation` with the members
  and the reported count as the abstract state.
- `NothingProvisionedAfterRemoval`: after the object is gone and its StatefulSet
  collected, no pass brings one back.
- `ReadyMeansCephBuilt`: Ready with observedGeneration equal to the generation means the
  Ceph cluster *of that generation* was built, whatever was edited meanwhile.
- `PlainClusterSettles`, `CephClusterBecomesReady`, `InvalidSpecReported`,
  `DeletionCompletes`: after the last edit and failure the status converges. With
  Ceph every pass writes ConfiguringCeph first and its own writes wake the next pass, so the
  status keeps alternating and the property is "again and again".
  `CephClusterBecomesReady` is about clusters none of whose pods that held a monitor or
  an OSD was replaced; for the others see section 6.
- `TransitionTimesHonest`, `TransitionsObserved`: the timestamps of a ProxmoxNode mean what
  Kubernetes says they mean, although each pass builds them anew and merges with a cached
  copy.
- `NoIdleWrites`, `ProjectionConverges`: the comparison that saves writes neither writes for
  nothing nor leaves a difference standing; objects without status, edited, left over or
  deleted are repaired.
- `QuietMeansSettled`: no cluster is forgotten. `Reconcile` returns without a requeue in three places (not found,
  deleted, invalid spec) and relies on a later event there, and on `RequeueAfter` everywhere else. The property is
  that these choices fit together: whenever nothing is queued, running or due for a cluster and its cached copy is
  the stored one, either it is gone with all it owned, or its spec is invalid and reported at this generation. Events of
  owned objects are not counted on, so a cluster that is Ready has to be requeued: the ProxmoxNodes of an
  earlier incarnation go without anybody being told. It is the safety half of `ClustersSettle`.
- `NoPassForTheBuried`, `FinalizerGuardsTheLiving`: the finalizer protocol across incarnations of a
  name. The code checks neither UID nor deletion mark when it writes; that this is harmless follows
  from what a pass's copy and the cache can be, not from any one line.
- `ClustersSettle`: what a new incarnation found of the old one and patched as its own is collected
  and made again, with its own claim templates; ProxmoxNodes nobody watches come back; nobody starves.
- `FormationBetweenTeardowns`: the docker deployment grows its cluster as `ClusterFormation` says,
  the abstract specification the operator implements too, and "Cluster fully formed" covers no
  node that is not in it. The run has one scale; the theorem holds as long as no `make scale` drops a
  node that has a cluster on its volumes (`DropsNoMember`). When one does,
  `docker_half_old` refutes the last part, `FullyFormedIsOneCluster`. How the membership itself
  changes needs no such assumption (`MembersGrowOrGo`, section 5).
- `AddOnlyWithTrust`, `RetriesConverge`: the race with a pmxcfs that is not yet writable is
  survived, and no sequence of mishaps leaves a state from which repeating the targets does not lead out.
- `LeftMappedHasCause`, `DownIsReached`, `ShimsEnd`: the teardown gives every device the time it
  promises, blames a device left mapped on one that was too slow, and ends. "Or one before it", of whatever node,
  is needed: one device may use up the timeout of every loop. If no covered node has a container nothing is promised.
- `OsdDataKept`, `OsdsHaveAStarter`, `OsdsComeBack`: no script run again destroys an OSD, an OSD that
  is down has the reattach service of its boot still to come, and OSDs survive reboots and
  rebuilds, unless the service gave up on pmxcfs or its activation failed; units alone are not counted on.
- The five of `SpecAdmission`: an accepted spec can converge, its plan is ordered and fits
  its pods, and Ceph counts as usable only when it is.

## 5. Proofs

`ClusterReconcileProofs` proves, for every set of specs, every number of nodes, OSDs,
edits and failures:

| theorem | states |
|---|---|
| `TypeCorrect` | `Spec => []TypeOK` |
| `ReportedNodesAreMembers` | `Spec => []JoinedNodesAreMembers` |
| `RefinesFormation` | `Spec => ImplementsFormation` |
| `NothingProvisioned` | `Spec => NothingProvisionedAfterRemoval` |

`NodeProjectionProofs` proves, for every number of nodes, all specs, pods and facts, and any number of
changes and failures:

| theorem | states |
|---|---|
| `ProjectionTypeCorrect` | `Spec => []TypeOK` |
| `TransitionsWereObserved` | `Spec => []TransitionsObserved` |
| `TransitionTimesAreHonest` | `Spec => TransitionTimesHonest` |
| `NoWriteIsIdle` | `Spec => NoIdleWrites` |

`SpecAdmissionProofs` proves the five properties of `SpecAdmission`
(`MonCountIsLargest`, `AcceptedPoolsFit`, `PlanIsOrdered`, `DefaultsAreAccepted`, `UsableOnlyWithEveryOSD`), for
every spec the CRD admits and every status line; `CephBuildProofs` proves `ReadyIsBuilt`
(`Spec => []ReadyMeansCephBuilt`) for `ClusterReconcile`; `OperatorManagerProofs` proves, for any
clusters, owned kinds, specs, user operations and failures:

| theorem | states |
|---|---|
| `TypeCorrect` | `Spec => []TypeOK` |
| `QuietClustersAreSettled` | `Spec => []QuietMeansSettled` |
| `NoPassForBuriedObjects` | `Spec => []NoPassForTheBuried` |
| `FinalizerKept` | `Spec => FinalizerGuardsTheLiving` |

The three docker modules are proved for any number of nodes, any patience of the loops, and any number of
mishaps; `DockerTeardown` for any number of devices, retries, timeout and kernel delay as well:

| module | theorem | states |
|---|---|---|
| `DockerFormationProofs` | `FormationTypeCorrect` | `Spec => []TypeOK` |
| | `AddsAreTrusted` | `Spec => []AddOnlyWithTrust` |
| | `MembershipGrows` | `Spec => MembersGrowOrGo` |
| | `FormationHolds` | `Spec /\ DropsNoMember => FormationBetweenTeardowns` |
| | `OneClusterUnlessDropped` | `Spec /\ DropsNoMember => []FullyFormedIsOneCluster` |
| | `FormationOfOneScale` | `Spec => FormationBetweenTeardowns` when `Scales` has one element at most |
| `DockerTeardownProofs` | `TeardownTypeCorrect` | `Spec => []TypeOK` |
| | `LeftMappedHasACause` | `Spec => []LeftMappedHasCause` |
| `DockerOsdsProofs` | `OsdsTypeCorrect` | `Spec => []TypeOK` |
| | `OsdDataIsKept` | `Spec => OsdDataKept` |
| | `OsdsAreNotForgotten` | `Spec => []OsdsHaveAStarter` |

*Assumptions of `ClusterReconcileProofs`* and `CephBuildProofs`: `BoundsAssumption` (the bounds are numbers, at least one node),
`SpecsAssumption` (what the CRD validates: nodes at least 1, counts not negative, all
within the declared maxima) and `NilAssumption` (nil is not an object).

*Argument.* `JoinedNodesAreMembers` speaks of the stored object and is not inductive: the
next write comes from the pass's copy, which came from the cache. `IInv` therefore says
that *every* copy (stored, cached, in memory) is truthful (`CopiesTruthful`), that a
pass is at a step only with the conditions that select it and, in the join loop, with the
nodes below `k` joined (`PassConsistent`), and that the cluster, and any script still running
that could create one, is on node 0 (`FoundedOnZero`). Truth of a claim is preserved
because no step removes a member (`TruthfulMonotone`). One lemma per action shows `IInv`
preserved; the two theorems on membership follow. For the refinement, `MemberStep` shows that a step adds
at most one member, to a cluster that exists or on node 0, and then does not touch the object.

`NothingProvisioned` rests on a second invariant, `FinalizerHeld`: a pass beyond the
finalizer steps runs under a *stored* finalizer, and a finalizer seen in the cache is
stored unless the object is gone, in which case the cached copy is already marked
deleted. Only the worker removes the finalizer and it does one thing at a time, so an object
cannot vanish under a pass that is about to create a StatefulSet.

*`NodeProjection`.* The assumptions are the types of specs, pods and facts (`WorldAssumption`,
`BoundsAssumption`) and that nil is not an object (`NilAssumption`). `DesiredShape` and `MergeShape` say what `ProxmoxNodeFor` and the merge
return; `WriteEffect` that a status is stored only over the copy it was merged
with; `StepChanges` lists the ways in which any step can change an object. `TypeOK` is inductive; `TransitionsObserved` is
inductive relative to it, because a write that goes through was merged with the stored object, so nothing need
be said of the cache; the two action properties follow from `TypeOK` and
`StepChanges`.

*`ReadyMeansCephBuilt`* is not inductive for three reasons, each a part of `BuildInv`. The status is
compared with the generation of the stored object, but was computed from an older copy:
`GenerationsName` says that a copy of the present generation has the present spec. The pass that
writes Ready relies on tasks it ran many steps ago: `PassBuilds` says what the tasks before its
counter have left (`Walked`), and that it reports only what is built. And pods, scripts cut short
and scripts left running change the state meanwhile: the `...Keeps` lemmas say that no step forgets
what was built (`BuiltKept`, `WalkedKept`). That enough OSDs were created comes from the
status poll, which counts running ones; `OsdsCreated` says those were created. `BuildInv` is proved
on top of `IInv`, which supplies the membership.

*`SpecAdmission`*: `Inv` relates the stored spec to the submitted one and the verdict to
`ValidateCeph`; the rest is arithmetic on the plan (`PlanShape`: which task is at
which position; `OsdTasks`: there is one OSD task per node). The assumption is `AdmissionAssumption`, what
the schema admits.

*`OperatorManager`*: type correctness uses an invariant on the queue (`WorkInv`: a
key waits at most once, and not during its own pass). `NoPassForBuriedObjects` and `FinalizerKept` use `LivesSound`: UIDs in
copies are ones handed out, and a buried UID is no longer stored (`UIDsKnown`); the cache knows of a
deletion before the finalizer goes, the store still has what the cache knows, and a finalizer is only
on an object the cache has seen (`DeletionSeen`); a pass that ensures anything does so for an object
not yet buried, and while a pass removes a finalizer any other object under the name has none
(`PassSound`). `QuietMeansSettled` is not inductive, because whether a pass may return without a requeue depends on
the copy it began with. `RestsSound` adds that a pass not woken again goes by what the cache holds now
(`PassUpToDate`), that what is being deleted has its finalizer and a cached copy is never ahead of the stored object
(`CopyKept`), so that no edit makes the two equal by chance, and that a cluster left alone is `Reported`. It says
nothing of owned objects: `Quiet` has nothing left to collect, and that is enough. TLC checked it first. Assumptions: `ManagerAssumption`, `NilAssumption`.

*`DockerFormation`.* `TypeOK` is not inductive: that the number of clusters stays within its bound needs
that only a teardown, a mishap, makes room for another (`VolumesOK`), and that a loop stays within its
patience that it leaves at the bound (`MakeOK`). `FormationSteps` lists what a step can do to the members and the claim:
nothing, found, join, report, or wipe. A founded cluster has one member because its identity is fresh; that
gives `MembershipGrows` with no further invariant. That the *claim* is right is different: "fully formed" is printed
for nodes the script handled many steps ago, and a node counts as handled when its Corosync runs, in whatever
cluster. `OneCluster` (every volume holds pve1's cluster or none, and the files define the nodes that have one)
and `Handled` (the nodes before the script's are members, and it joins only nodes of the overlay) close that
gap. `OneCluster` is exactly what a scale-down breaks: `make clean` then leaves a volume behind. Hence
the hypothesis `DropsNoMember`, which `OneScaleStep` discharges for a user with one scale. No step of another
process touches the members while make runs (`MembersStay`). Assumption: `DockerAssumption`.

*`DockerTeardown`.* The invariant is a budget. `InTime` says of each container's loop and each device that is not slow
that the flush it still needs fits in the attempts the shim has left on it and in the time the docker exec has left, and
that the loop does not pass it while it is mapped; `PastFast` that a loop whose time is over has passed every device
before the first slow one. The loop of any one covered container is enough to have every such device unmapped
(`Covered`), whatever the other loops do to the same devices. A device found mapped at the end is thus slow, or comes
after a slow one, which is the property. TLC checked the invariant on the instance of `docker_teardown`. Assumption: `TeardownAssumption`.

*`DockerOsds`.* `OsdDataKept` follows from `TypeOK` step by step. `OsdsHaveAStarter` is inductive relative to
`TypeOK`: each step that takes a daemon away either takes the container or starts the service anew in it, the
service ends only by starting the daemon, when there is no OSD to start, by giving up or with a failed activation, and a new Ceph cluster has no OSDs
(`NoOsdOfTheNext`, because its identity is fresh). It is the safety half of `OsdsComeBack`.
Assumption: `OsdsAssumption`.

*Only model-checked*: the liveness properties `PlainClusterSettles`, `DeletionCompletes`,
`CephClusterBecomesReady`, `InvalidSpecReported`, `ProjectionConverges`, `ClustersSettle`, `RetriesConverge`,
`DownIsReached`, `ShimsEnd` and `OsdsComeBack`, since fairness is outside the prover's reach. Every other property of a
passing run is a theorem. The four runs of section 6 are counterexamples and have nothing to prove.

## 6. Where code and documentation disagree

Each is a run that ends in a counterexample; `PROJECT.json` quotes both sides.

| run | what happens |
|---|---|
| `scale_up` | `AllNodesJoined` is never cleared, so added nodes are never joined and the cluster is Ready |
| `scale_down` | Ready and QuorumHealthy are reported without asking Corosync; removed nodes keep their votes |
| `node_membership` | one failed inventory exec is recorded as every node having left the cluster |
| `docker_half_old` | `make clean` leaves the volumes of nodes outside the present overlay; scaled back in, such a node is still in the old cluster and make reports the new one fully formed |

The following were observed while modelling and have no run.

- `status.ceph` is assigned in `reconcileCeph` and cleared nowhere; `proxmoxcluster_types.go:321-322` says
  "Nil when spec.ceph is unset".
- Raising `osdsPerNode` on a running cluster does have an effect, against `kubernetes/README.md:372-373`: the
  expected count follows the spec (`ceph.go:120`), the claims cannot, and the cluster is never Ready again.
- `ceph-mon.sh` says it "skips if this host already appears in the mon map" (`configmap.go:402`) and tests a
  directory that is on no volume (`configmap.go:413`, `statefulset.go:161-175`): in a replaced pod it goes on
  to create a monitor for a host that has one.
- A pool of size 1 without a minSize is rejected for the CRD's default of 2, against "Only reject what is
  unambiguously the user's own mistake" (`ceph.go:179`).
- `stop-guests` covers `NODES` nodes (3 unless set), `make down` takes every node of the overlay, so on a
  scaled cluster "Guests and their RBD devices MUST be unwound before the OSDs serving them go away" and "`down`
  and `clean` always run this first" (`docker/Makefile:119-131`) hold for the first three nodes only. What is more, each of
  the three unmap loops tries the devices of the other nodes too, and 30 attempts at one that is still mounted there
  use up the 60 s of the exec: devices after it, of covered nodes, may stay mapped.
- `ceph-reattach.sh:122-126` tests the activation in an `if` with an empty body, so its status is lost, and the oneshot service then counts as
  started; a failed fence is a warning (`entrypoint.sh:79-83`). An OSD that was not activated stays down until the
  next boot, and `ceph-osd-create` skips its disk as one that already hosts an OSD.
- When `/etc/pve` is not writable within 90 s, or `cluster-init` is interrupted after `pvecm create`,
  datacenter.cfg is never installed: a second run stops at the guard (`cluster-init.sh:33-37`).
- The header of `rbd-unmap-retry.sh` (lines 32-35) says genuine failures fail "just after the timeout rather
  than immediately"; the code and the comment at 77-82 report them at once.
- `make ceph-osd` after `ceph-volume` failed half way skips the disk as one that "already hosts an OSD".

Smaller ones: a monCount above the node count is capped and not rejected, as
`kubernetes/README.md:333` and `proxmoxcluster_types.go:213-214` have it; the comment on `ObservedAt` in
`proxmoxnode_types.go:159-163` (an old value means the operator has not run) contradicts `MergeNodeStatus`, which
advances it only with another change, as `kubernetes/README.md:183-188` says; the node phase `Offline` cannot occur, since the inventory sets
`online` for exactly the nodes with a nodeid; a pass that began from a stale copy can write
`ClusterInitialized` away again (harmless, the scripts skip what exists);
the phase `Degraded` is declared and never set; `docker/scripts/cluster-join.sh` states that `pvecm add` has no
`--password` option, which the operator's `cluster-join.sh` passes.

## 7. Not modelled

- *Guest bridge* (`setup-bridge.sh`): one sequential run before systemd on a new network namespace; there is
  no order of steps to explore.
- *Compose generators, Dockerfile, Helm chart, manifests, RBAC*: text without state.
- *`ceph-fs-create.sh`, `rbd-mknod.sh`*, the start of mon, mgr and mds in `ceph-reattach.sh` and the LVM filter:
  sequences of external commands, idempotent by the tools they call. Of the filter only whether it was set is
  modelled (`fenced`).
- *Claims that survive a deletion* and are bound again by a cluster of the same name with other
  templates: what the StatefulSet controller and the storage driver then do is not in this repository.
- *Two copies of one script interleaved step by step*: a script left running takes effect at once, at any later time.
- *Generated deep copies, health checks, metrics, log output, condition messages.*

## 8. Plan

Done, in this order: `CephPlan` and `SpecAdmission`, `ClusterReconcile` with `ClusterFormation`,
`NodeProjection`, `OperatorManager`, the docker modules, and the proofs named in
section 5. Every safety property of a passing run is now a theorem. What is left: the replaced pod whose
monitor directory is gone, which no property covers (hazard `configmap.go:413`), and lemmas on the scripts of `ClusterReconcile` shared by
the two proof modules about it.
