--------------------------- MODULE DockerFormation ---------------------------
(***************************************************************************)
(* The Docker deployment: a user drives `make` targets, which drive        *)
(* docker compose and, inside the containers, cluster-init.sh and          *)
(* cluster-join.sh.  Node 1 is pve1.  What a node keeps on its volumes     *)
(* survives its container; pmxcfs on pve1 accepts writes only once its own *)
(* callback has seen the quorum; the scripts poll with bounded patience.   *)
(***************************************************************************)
EXTENDS Naturals, FiniteSets

CONSTANTS BaseNodes,    \* the nodes docker-compose.yml defines (3)
          MaxNodes,     \* the largest cluster the user scales to
          Scales,       \* the node counts `make scale` is called with
          Patience,     \* the polls of a wait loop (30, 45) before it gives up
          MaxMishaps    \* bounds disruptions: restarts, Ctrl-C, teardowns, ...

ASSUME DockerAssumption ==
    /\ BaseNodes \in Nat \ {0} /\ MaxNodes \in Nat /\ BaseNodes <= MaxNodes
    /\ Scales \subseteq (BaseNodes + 1)..MaxNodes
    /\ Patience \in Nat \ {0} /\ MaxMishaps \in Nat

Node == 1..MaxNodes

VARIABLES compose,      \* the nodes the compose files define: 1..compose
          ctr,          \* the nodes whose container runs
          vol,          \* the cluster a node's volumes hold, 0 for none
          founded,      \* how many clusters were ever created
          active,       \* the nodes whose pve-cluster service is active
          live,         \* the nodes whose Corosync runs
          writable,     \* pmxcfs on pve1 accepts writes
          keys,         \* the nodes whose SSH key pve1 accepts
          dc,           \* datacenter.cfg is in /etc/pve
          make,         \* the `make cluster-full` under way
          claim,        \* NODES of the last "Cluster fully formed", 0 for none
          mishaps

nodeVars == <<ctr, vol, founded, active, live, writable, keys, dc>>
vars == <<compose, nodeVars, make, claim, mishaps>>

Places == {"idle", "init.guard", "init.wait", "init.create", "init.probe",
           "init.install", "join.guard", "join.wait", "join.ssh", "join.seed",
           "join.add", "join.quorum", "status"}

Idle == [at |-> "idle", node |-> 1, nodes |-> 0, tries |-> 0]

TypeOK ==
    /\ compose \in BaseNodes..MaxNodes
    /\ ctr \subseteq Node /\ active \subseteq ctr /\ live \subseteq active
    /\ founded \in 0..(MaxMishaps + 1)
    /\ vol \in [Node -> 0..founded]
    /\ writable \in BOOLEAN /\ dc \in BOOLEAN
    /\ keys \subseteq Node
    /\ make \in [at : Places, node : Node, nodes : 0..MaxNodes, tries : 0..Patience]
    /\ claim \in 0..MaxNodes
    /\ mishaps \in 0..MaxMishaps

Init ==
    /\ compose = BaseNodes
    /\ ctr = {} /\ active = {} /\ live = {} /\ keys = {}
    /\ vol = [n \in Node |-> 0] /\ founded = 0
    /\ writable = FALSE /\ dc = FALSE
    /\ make = Idle /\ claim = 0 /\ mishaps = 0

\* The nodes of pve1's cluster, and whether they have a quorum.
Members == IF vol[1] = 0 THEN {} ELSE {n \in Node : vol[n] = vol[1]}
Quorate == 2 * Cardinality(Members \cap live) > Cardinality(Members)

\* pmxcfs takes writes on a standalone node and in a quorate cluster.
MayWrite == 1 \in active /\ (vol[1] = 0 \/ Quorate)

Mishap == mishaps < MaxMishaps /\ mishaps' = mishaps + 1

------------------------------------------------------------------------------
\* The services of the nodes (external).

PveClusterStarts(n) ==
    /\ n \in ctr \ active
    /\ active' = active \cup {n}
    /\ UNCHANGED <<compose, ctr, vol, founded, live, writable, keys, dc, make, claim, mishaps>>

CorosyncStarts(n) ==
    /\ n \in active \ live /\ vol[n] # 0
    /\ live' = live \cup {n}
    /\ UNCHANGED <<compose, ctr, vol, founded, active, writable, keys, dc, make, claim, mishaps>>

\* The CPG callback through which pmxcfs learns of a quorum, or of its loss.
PmxcfsFollows ==
    /\ writable # MayWrite
    /\ writable' = MayWrite
    /\ UNCHANGED <<compose, ctr, vol, founded, active, live, keys, dc, make, claim, mishaps>>

------------------------------------------------------------------------------
\* make scale, up, restart, down, clean, force-clean: the user runs one at a
\* time.

\* Mutant of Stopped: Corosync is taken to outlive its container.
Mutant_StoppedKeepsCorosync(S) ==
    /\ active' = active \ S /\ live' = live
    /\ writable' = (writable /\ 1 \notin S)

Stopped(S) ==
    /\ active' = active \ S /\ live' = live \ S
    /\ writable' = (writable /\ 1 \notin S)

\* The overlay of gen-scale.sh replaces the earlier one.
Scale(k) ==
    /\ make = Idle /\ k # compose /\ Mishap
    /\ compose' = k
    /\ UNCHANGED <<nodeVars, make, claim>>

\* compose up -d: what the files define and is not running.
Up ==
    /\ make = Idle /\ ~(1..compose \subseteq ctr)
    /\ ctr' = ctr \cup 1..compose
    /\ UNCHANGED <<compose, vol, founded, active, live, writable, keys, dc, make, claim, mishaps>>

\* compose up -d after a rebuild recreates the containers: the key pairs in
\* /root/.ssh are on the container filesystem.
Recreate ==
    /\ make = Idle /\ Mishap
    /\ ctr' = ctr \cup 1..compose
    /\ keys' = keys \ 1..compose
    /\ Stopped(1..compose)
    /\ UNCHANGED <<compose, vol, founded, dc, make, claim>>

\* compose down, without --remove-orphans: only what the files define.
Down ==
    /\ make = Idle /\ ctr # {} /\ Mishap
    /\ ctr' = ctr \ 1..compose
    /\ keys' = keys \ 1..compose
    /\ Stopped(1..compose)
    /\ UNCHANGED <<compose, vol, founded, dc, make, claim>>

\* The volumes of S are removed, with every container.
Wiped(S) ==
    /\ ctr' = {} /\ active' = {} /\ live' = {} /\ keys' = {}
    /\ writable' = FALSE /\ dc' = FALSE
    /\ vol' = [n \in Node |-> IF n \in S THEN 0 ELSE vol[n]]
    /\ claim' = 0

\* compose down -v --remove-orphans: every container of the project, and the
\* volumes the files define.
Clean ==
    /\ make = Idle /\ Mishap
    /\ Wiped(1..compose)
    /\ UNCHANGED <<compose, founded, make>>

\* By name: every multiprox-pve container and every pveN volume.
ForceClean ==
    /\ make = Idle /\ Mishap
    /\ Wiped(Node)
    /\ UNCHANGED <<compose, founded, make>>

\* A container restarts (make restart, a crash, the host): the script that runs
\* in it ends with it, and make with the script.
Restart(n) ==
    /\ n \in ctr /\ Mishap
    /\ Stopped({n})
    /\ make' = IF make.node = n THEN Idle ELSE make
    /\ UNCHANGED <<compose, ctr, vol, founded, keys, dc, claim>>

\* The user interrupts make.
Interrupt ==
    /\ make # Idle /\ Mishap
    /\ make' = Idle
    /\ UNCHANGED <<compose, nodeVars, claim>>

------------------------------------------------------------------------------
\* make cluster-full NODES=k: cluster-init on pve1, then cluster-join on the
\* others in turn, stopping at the first failure.

At(place) == make.at = place
Goto(place) == make' = [make EXCEPT !.at = place, !.tries = 0]
\* The script of this node ended well: on to the next node.
Passed ==
    make' = IF make.node < make.nodes
            THEN [make EXCEPT !.at = "join.guard", !.node = @ + 1, !.tries = 0]
            ELSE [make EXCEPT !.at = "status", !.tries = 0]

\* Mutant of Fails: the loop over the nodes goes on after an error.
Mutant_FailsGoesOn == Passed

\* `|| exit 1`: make stops.
Fails == make' = Idle

\* One more poll, up to the bound.
Poll(onTimeout) ==
    IF make.tries + 1 = Patience THEN onTimeout
    ELSE make' = [make EXCEPT !.tries = @ + 1]

\* pvecm status succeeds where Corosync runs.
HasCluster(n) == n \in live

ClusterFull(k) ==
    /\ make = Idle
    /\ make' = [at |-> "init.guard", node |-> 1, nodes |-> k, tries |-> 0]
    /\ UNCHANGED <<compose, nodeVars, claim, mishaps>>

\* docker compose exec fails where no container runs, and for a service the
\* files do not define.
CanExec(n) == n \in ctr /\ n <= compose

\* A node that is in a cluster needs nothing.
Guard(here, next) ==
    /\ At(here)
    /\ \/ ~CanExec(make.node) /\ Fails
       \/ CanExec(make.node) /\ HasCluster(make.node) /\ Passed
       \/ CanExec(make.node) /\ ~HasCluster(make.node) /\ Goto(next)
    /\ UNCHANGED <<compose, nodeVars, claim, mishaps>>

\* Mutant of JoinGuard: a node that is in a cluster is joined again.
Mutant_JoinGuardAlways ==
    /\ At("join.guard")
    /\ IF CanExec(make.node) THEN Goto("join.wait") ELSE Fails
    /\ UNCHANGED <<compose, nodeVars, claim, mishaps>>

InitGuard == Guard("init.guard", "init.wait")
JoinGuard == Guard("join.guard", "join.wait")

\* A loop that waits for a condition and fails when its patience ends.
Await(here, condition, next) ==
    /\ At(here)
    /\ IF condition THEN Goto(next) ELSE Poll(Fails)
    /\ UNCHANGED <<compose, nodeVars, claim, mishaps>>

InitWait == Await("init.wait", 1 \in active, "init.create")
JoinWait == Await("join.wait", make.node \in active, "join.ssh")
JoinSsh  == Await("join.ssh", 1 \in ctr, "join.seed")

\* pvecm create (external) refuses a node that has a cluster configuration and
\* returns before Corosync has formed a membership.
InitCreate ==
    /\ At("init.create")
    /\ IF vol[1] # 0
       THEN Fails /\ UNCHANGED nodeVars
       ELSE /\ founded' = founded + 1
            /\ vol' = [vol EXCEPT ![1] = founded + 1]
            /\ writable' = FALSE
            /\ Goto("init.probe")
            /\ UNCHANGED <<ctr, active, live, keys, dc>>
    /\ UNCHANGED <<compose, claim, mishaps>>

\* Polls with a real write, and goes on with a warning when none succeeds.
InitProbe ==
    /\ At("init.probe")
    /\ IF writable THEN Goto("init.install") ELSE Poll(Goto("init.install"))
    /\ UNCHANGED <<compose, nodeVars, claim, mishaps>>

\* The copy fails on a read-only /etc/pve, with a warning; pvecm status closes
\* the script and decides its exit.
InitInstall ==
    /\ At("init.install")
    /\ dc' = (dc \/ writable)
    /\ IF HasCluster(1) THEN Passed ELSE Fails
    /\ UNCHANGED <<compose, ctr, vol, founded, active, live, writable, keys, claim, mishaps>>

\* Mutant of JoinSeed: the copy's exit status is taken for trust.
Mutant_JoinSeedTrusts ==
    /\ At("join.seed")
    /\ keys' = IF writable THEN keys \cup {make.node} ELSE keys
    /\ Goto("join.add")
    /\ UNCHANGED <<compose, ctr, vol, founded, active, live, writable, dc, claim, mishaps>>

\* ssh-copy-id, which cannot tell a write that did not land, then the real
\* test: can this node log in with its key?
JoinSeed ==
    /\ At("join.seed")
    /\ keys' = IF writable THEN keys \cup {make.node} ELSE keys
    /\ IF make.node \in keys' /\ 1 \in ctr THEN Goto("join.add") ELSE Poll(Fails)
    /\ UNCHANGED <<compose, ctr, vol, founded, active, live, writable, dc, claim, mishaps>>

\* pvecm add (external) needs a quorate cluster on pve1, which must let this
\* node in, and a node without a configuration.
JoinAdd ==
    /\ At("join.add")
    /\ IF vol[make.node] = 0 /\ Members # {} /\ writable /\ make.node \in keys
       THEN vol' = [vol EXCEPT ![make.node] = vol[1]] /\ Goto("join.quorum")
       ELSE UNCHANGED vol /\ Fails
    /\ UNCHANGED <<compose, ctr, founded, active, live, writable, keys, dc, claim, mishaps>>

\* It then waits until the node is up in a quorate cluster.
JoinQuorum ==
    /\ At("join.quorum")
    /\ make.node \in live /\ Quorate
    /\ Passed
    /\ UNCHANGED <<compose, nodeVars, claim, mishaps>>

\* "Cluster fully formed", then pvecm status on pve1.
Status ==
    /\ At("status")
    /\ claim' = make.nodes
    /\ make' = Idle
    /\ UNCHANGED <<compose, nodeVars, mishaps>>

Cluster == InitGuard \/ InitWait \/ InitCreate \/ InitProbe \/ InitInstall
           \/ JoinGuard \/ JoinWait \/ JoinSsh \/ JoinSeed \/ JoinAdd \/ JoinQuorum
           \/ Status

Services == (\E n \in Node : PveClusterStarts(n) \/ CorosyncStarts(n)) \/ PmxcfsFollows

Next ==
    \/ Services
    \/ \E k \in Scales : Scale(k)
    \/ Up \/ Recreate \/ Down \/ Clean \/ ForceClean
    \/ \E n \in Node : Restart(n)
    \/ Interrupt
    \/ \E k \in Node : ClusterFull(k)
    \/ Cluster

Spec == Init /\ [][Next]_vars

\* Services start, scripts run, and the user repeats `make up` and
\* `make cluster-full` for the nodes the files define until it reports success.
Retry == claim # compose /\ ClusterFull(compose)

Fairness ==
    /\ WF_vars(PmxcfsFollows) /\ WF_vars(Cluster)
    /\ \A n \in Node : WF_vars(PveClusterStarts(n)) /\ WF_vars(CorosyncStarts(n))
    /\ SF_vars(Up) /\ SF_vars(Retry)

FairSpec == Spec /\ Fairness

------------------------------------------------------------------------------
\* What the two deployments of this repository share: until a teardown wipes
\* it, the cluster grows as ClusterFormation says, and "Cluster fully formed"
\* covers no node that is not in pve1's cluster.  Every step is a step of
\* ClusterFormation or puts it back to its initial state.
Formation == INSTANCE ClusterFormation
    WITH Node <- 0..(MaxNodes - 1), Count <- 0..MaxNodes,
         member <- {n - 1 : n \in Members}, claim <- claim

FormationBetweenTeardowns == [][Formation!Next \/ (Formation!Init)']_<<Members, claim>>

\* cluster-join hands over to pvecm add, which dies with "unable to copy ssh
\* ID" otherwise, only once pve1 really accepts the node's key: a copy made
\* while /etc/pve is read-only is not mistaken for one that landed.
AddOnlyWithTrust == At("join.add") => make.node \in keys

\* Whatever went wrong before (a slow quorum, Ctrl-C, restarted or recreated
\* containers, a teardown), repeating `make up` and `make cluster-full` brings
\* every node the files define into pve1's cluster, for good.
RetriesConverge == <>[](1..compose \subseteq Members)

\* The README of the repository: after `make clean` "all cluster state and VM
\* configs are gone", so that "Cluster fully formed" is about one cluster, and
\* not the "half-old cluster" the Makefile describes.
FullyFormedIsOneCluster == 1..claim \subseteq Members
=============================================================================
