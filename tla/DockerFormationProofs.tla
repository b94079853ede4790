----------------------- MODULE DockerFormationProofs -----------------------
(***************************************************************************)
(* Proofs about DockerFormation, for any number of base nodes, any largest *)
(* cluster, any scales, any patience of the scripts and any number of      *)
(* disruptions.                                                            *)
(***************************************************************************)
EXTENDS DockerFormation, TLAPS

------------------------------------------------------------------------------
(* Types.                                                                   *)

\* TypeOK by what the steps write: the script, the volumes, what runs.
MakeOK ==
    /\ make \in [at : Places, node : Node, nodes : 0..MaxNodes, tries : 0..Patience]
    /\ make.tries < Patience

\* Only a teardown, which is a mishap, makes room for another cluster.
VolumesOK ==
    /\ founded \in Nat /\ vol \in [Node -> 0..founded]
    /\ mishaps \in 0..MaxMishaps
    /\ vol[1] = 0 => founded <= mishaps
    /\ vol[1] # 0 => founded <= mishaps + 1

RunsOK ==
    /\ compose \in BaseNodes..MaxNodes /\ claim \in 0..MaxNodes
    /\ ctr \subseteq Node /\ active \subseteq ctr /\ live \subseteq active
    /\ writable \in BOOLEAN /\ dc \in BOOLEAN /\ keys \subseteq Node

TypeInv == MakeOK /\ VolumesOK /\ RunsOK

LEMMA TypeInvTypes == TypeInv => TypeOK
<1> SUFFICES ASSUME TypeInv PROVE TypeOK
  OBVIOUS
<1>1. founded \in 0..(MaxMishaps + 1)
  BY DockerAssumption DEF TypeInv, VolumesOK
<1> QED
  BY <1>1, Zenon DEF TypeInv, MakeOK, VolumesOK, RunsOK, TypeOK

LEMMA Nodes ==
    /\ 1 \in Node /\ Node \subseteq Nat /\ 1..MaxNodes = Node
    /\ \A c \in BaseNodes..MaxNodes : c \in Nat /\ 1 \in 1..c /\ 1..c \subseteq Node
    /\ Scales \subseteq BaseNodes..MaxNodes
BY DockerAssumption DEF Node

LEMMA IdleOK == MakeOK /\ make' = Idle => MakeOK'
BY DockerAssumption, Nodes DEF MakeOK, Idle, Places

LEMMA InitTypeInv == Init => TypeInv
<1> SUFFICES ASSUME Init PROVE TypeInv
  OBVIOUS
<1>1. MakeOK
  BY DockerAssumption, Nodes DEF Init, MakeOK, Idle, Places
<1>2. VolumesOK
  BY DockerAssumption, Nodes DEF Init, VolumesOK
<1>3. RunsOK
  <2>1. compose \in BaseNodes..MaxNodes /\ claim \in 0..MaxNodes
    BY DockerAssumption DEF Init
  <2> QED
    BY <2>1, Zenon DEF Init, RunsOK
<1> QED
  BY <1>1, <1>2, <1>3 DEF TypeInv

\* The ways in which the scripts move on.
LEMMA MakeMoves ==
    ASSUME MakeOK
    PROVE  /\ \A p \in Places : Goto(p) => MakeOK'
           /\ Passed => MakeOK'
           /\ Fails => MakeOK'
           /\ UNCHANGED make => MakeOK'
           /\ make.tries + 1 # Patience /\ make' = [make EXCEPT !.tries = @ + 1] => MakeOK'
<1> DEFINE Makes == [at : Places, node : Node, nodes : 0..MaxNodes, tries : 0..Patience]
<1>0. make \in Makes /\ 0 \in 0..Patience /\ 0 < Patience
  BY DockerAssumption DEF MakeOK
<1>a. ASSUME NEW p \in Places, NEW n \in Node, make' = [make EXCEPT !.at = p, !.node = n, !.tries = 0]
      PROVE  MakeOK'
  BY <1>0, <1>a DEF MakeOK
<1>b. ASSUME NEW p \in Places, make' = [make EXCEPT !.at = p, !.tries = 0] PROVE MakeOK'
  BY <1>0, <1>b DEF MakeOK
<1>1. ASSUME NEW p \in Places, Goto(p) PROVE MakeOK'
  BY <1>1, <1>b DEF Goto
<1>2. ASSUME Passed PROVE MakeOK'
  <2>1. CASE make.node < make.nodes
    <3>1. make.node + 1 \in Node /\ "join.guard" \in Places
      BY <2>1, DockerAssumption DEF MakeOK, Node, Places
    <3>2. make' = [make EXCEPT !.at = "join.guard", !.node = @ + 1, !.tries = 0]
      BY <1>2, <2>1 DEF Passed
    <3> QED
      BY <3>1, <3>2, <1>a
  <2>2. CASE ~(make.node < make.nodes)
    <3>1. make' = [make EXCEPT !.at = "status", !.tries = 0] /\ "status" \in Places
      BY <1>2, <2>2 DEF Passed, Places
    <3> QED
      BY <3>1, <1>b
  <2> QED
    BY <2>1, <2>2
<1>3. Fails => MakeOK'
  BY IdleOK DEF Fails
<1>4. UNCHANGED make => MakeOK'
  BY DEF MakeOK
<1>5. ASSUME make.tries + 1 # Patience, make' = [make EXCEPT !.tries = @ + 1]
      PROVE  MakeOK'
  <2>1. make.tries + 1 \in 0..Patience /\ make.tries + 1 < Patience
    BY <1>5, DockerAssumption DEF MakeOK
  <2> QED
    BY <1>5, <2>1 DEF MakeOK
<1> QED
  BY <1>1, <1>2, <1>3, <1>4, <1>5

LEMMA MakeStep ==
    ASSUME TypeInv, [Next]_vars
    PROVE  MakeOK'
<1> USE DEF TypeInv
<1>1. CASE Cluster
  <2>1. {"init.wait", "init.create", "init.probe", "init.install", "join.wait",
         "join.ssh", "join.seed", "join.add", "join.quorum"} \subseteq Places
    BY DEF Places
  <2>2. CASE InitGuard \/ JoinGuard
    BY <2>1, <2>2, MakeMoves DEF InitGuard, JoinGuard, Guard
  <2>3. CASE InitWait \/ JoinWait \/ JoinSsh
    BY <2>1, <2>3, MakeMoves DEF InitWait, JoinWait, JoinSsh, Await, Poll
  <2>4. CASE InitCreate
    BY <2>1, <2>4, MakeMoves DEF InitCreate
  <2>5. CASE InitProbe
    BY <2>1, <2>5, MakeMoves DEF InitProbe, Poll
  <2>6. CASE InitInstall
    BY <2>1, <2>6, MakeMoves DEF InitInstall
  <2>7. CASE JoinSeed
    BY <2>1, <2>7, MakeMoves DEF JoinSeed, Poll
  <2>8. CASE JoinAdd
    BY <2>1, <2>8, MakeMoves DEF JoinAdd
  <2>9. CASE JoinQuorum
    BY <2>9, MakeMoves DEF JoinQuorum
  <2>10. CASE Status
    BY <2>10, IdleOK DEF Status
  <2> QED
    BY <1>1, <2>2, <2>3, <2>4, <2>5, <2>6, <2>7, <2>8, <2>9, <2>10 DEF Cluster
<1>2. ASSUME NEW k \in Node, ClusterFull(k) PROVE MakeOK'
  <2>1. k \in 0..MaxNodes /\ "init.guard" \in Places
    BY DEF Node, Places
  <2> QED
    BY <1>2, <2>1, Nodes, DockerAssumption DEF ClusterFull, MakeOK
<1>3. CASE make' = Idle \/ UNCHANGED make
  BY <1>3, IdleOK, MakeMoves
<1>4. ASSUME ~Cluster, ~(\E k \in Node : ClusterFull(k)) PROVE make' = Idle \/ UNCHANGED make
  BY <1>4 DEF Next, Services, PveClusterStarts, CorosyncStarts, PmxcfsFollows, Scale, Up,
              Recreate, Down, Clean, ForceClean, Restart, Interrupt, vars
<1> QED
  BY <1>1, <1>2, <1>3, <1>4

\* The counters and the volumes.  What any step does to them: nothing, a
\* teardown, a new cluster on pve1, or one node that joins it.
WipedNodes(S) == vol' = [n \in Node |-> IF n \in S THEN 0 ELSE vol[n]]

LEMMA VolumeSteps ==
    ASSUME [Next]_vars
    PROVE  \/ UNCHANGED <<vol, founded>> /\ (UNCHANGED mishaps \/ Mishap)
           \/ Clean
           \/ ForceClean
           \/ InitCreate /\ vol[1] = 0
           \/ JoinAdd
BY DEF Next, Services, Cluster, PveClusterStarts, CorosyncStarts, PmxcfsFollows, Scale, Up,
       Recreate, Down, Restart, Interrupt, ClusterFull, InitGuard, JoinGuard, Guard, InitWait,
       JoinWait, JoinSsh, Await, InitCreate, InitProbe, InitInstall, JoinSeed, JoinQuorum, Status,
       nodeVars, vars

LEMMA VolumesStep ==
    ASSUME TypeInv, [Next]_vars
    PROVE  VolumesOK'
<1> USE DEF TypeInv
<1>1. CASE UNCHANGED <<vol, founded>> /\ (UNCHANGED mishaps \/ Mishap)
  BY <1>1, DockerAssumption DEF VolumesOK, Mishap
<1>2. CASE Clean \/ ForceClean
  <2>1. /\ 1..compose \subseteq Node /\ 1 \in 1..compose /\ 1 \in Node
        /\ WipedNodes(1..compose) \/ WipedNodes(Node)
    BY <1>2, Nodes DEF Clean, ForceClean, Wiped, WipedNodes, RunsOK
  <2>2. vol' \in [Node -> 0..founded] /\ vol'[1] = 0
    BY <2>1 DEF WipedNodes, VolumesOK
  <2>3. founded' = founded /\ mishaps' \in 0..MaxMishaps /\ mishaps' = mishaps + 1
    BY <1>2, DockerAssumption DEF Clean, ForceClean, Mishap, VolumesOK
  <2> QED
    BY <2>2, <2>3 DEF VolumesOK
<1>3. CASE InitCreate /\ vol[1] = 0
  <2>1. founded' = founded + 1 /\ vol' = [vol EXCEPT ![1] = founded + 1] /\ UNCHANGED mishaps
    BY <1>3 DEF InitCreate
  <2>2. 0..founded \subseteq 0..founded' /\ founded + 1 \in 0..founded'
    BY <2>1 DEF VolumesOK
  <2>3. vol' \in [Node -> 0..founded'] /\ vol'[1] = founded + 1
    BY <2>1, <2>2, Nodes DEF VolumesOK
  <2> QED
    BY <1>3, <2>1, <2>3 DEF VolumesOK
<1>4. CASE JoinAdd
  <2>1. UNCHANGED <<founded, mishaps>>
    BY <1>4 DEF JoinAdd
  <2>2. vol' = vol \/ (vol[1] # 0 /\ vol[make.node] = 0 /\ vol' = [vol EXCEPT ![make.node] = vol[1]])
    BY <1>4 DEF JoinAdd, Members
  <2>3. vol' \in [Node -> 0..founded] /\ vol'[1] = vol[1]
    BY <2>2, Nodes DEF VolumesOK, MakeOK
  <2> QED
    BY <2>1, <2>3 DEF VolumesOK
<1> QED
  BY <1>1, <1>2, <1>3, <1>4, VolumeSteps

LEMMA RunsStep ==
    ASSUME TypeInv, [Next]_vars
    PROVE  RunsOK'
<1> USE DEF TypeInv
<1>1. CASE Services
  <2>1. MayWrite \in BOOLEAN
    BY DEF MayWrite
  <2>2. CASE PmxcfsFollows
    BY <2>1, <2>2, Zenon DEF PmxcfsFollows, RunsOK
  <2>3. ASSUME NEW n \in Node, PveClusterStarts(n) \/ CorosyncStarts(n) PROVE RunsOK'
    BY <2>3 DEF PveClusterStarts, CorosyncStarts, RunsOK
  <2> QED
    BY <1>1, <2>2, <2>3 DEF Services
<1>2. ASSUME NEW k \in Scales, Scale(k) PROVE RunsOK'
  BY <1>2, Nodes DEF Scale, nodeVars, RunsOK
<1>3. CASE Up \/ Recreate \/ Down
  <2>1. 1..compose \subseteq Node
    BY Nodes DEF RunsOK
  <2> QED
    BY <1>3, <2>1 DEF Up, Recreate, Down, Stopped, RunsOK
<1>4. CASE Clean \/ ForceClean
  <2>1. /\ ctr' = {} /\ active' = {} /\ live' = {} /\ keys' = {}
        /\ writable' = FALSE /\ dc' = FALSE /\ claim' = 0 /\ UNCHANGED compose
    BY <1>4 DEF Clean, ForceClean, Wiped
  <2>2. 0 \in 0..MaxNodes
    BY DockerAssumption
  <2> QED
    BY <2>1, <2>2, Zenon DEF RunsOK
<1>5. ASSUME NEW n \in Node, Restart(n) PROVE RunsOK'
  BY <1>5 DEF Restart, Stopped, RunsOK
<1>6. CASE Cluster
  <2>1. CASE UNCHANGED <<compose, nodeVars, claim>>
    BY <2>1 DEF nodeVars, RunsOK
  <2>2. CASE InitCreate
    BY <2>2 DEF InitCreate, nodeVars, RunsOK
  <2>3. CASE InitInstall
    BY <2>3 DEF InitInstall, RunsOK
  <2>4. CASE JoinSeed
    BY <2>4 DEF JoinSeed, RunsOK, MakeOK
  <2>5. CASE JoinAdd
    BY <2>5 DEF JoinAdd, RunsOK
  <2>6. CASE Status
    BY <2>6 DEF Status, nodeVars, RunsOK, MakeOK
  <2> QED
    BY <1>6, <2>1, <2>2, <2>3, <2>4, <2>5, <2>6
       DEF Cluster, InitGuard, JoinGuard, Guard, InitWait, JoinWait, JoinSsh, Await, InitProbe,
           JoinQuorum
<1>7. CASE UNCHANGED <<compose, nodeVars, claim>>
  BY <1>7 DEF nodeVars, RunsOK
<1> QED
  BY <1>1, <1>2, <1>3, <1>4, <1>5, <1>6, <1>7 DEF Next, Interrupt, ClusterFull, vars

LEMMA TypeStep == TypeInv /\ [Next]_vars => TypeInv'
BY MakeStep, VolumesStep, RunsStep DEF TypeInv

\* Every variable keeps its type: the scripts poll within their patience and
\* address only nodes that exist, a container's services die with it, and there
\* is no more than one new cluster per disruption.
THEOREM FormationTypeCorrect == Spec => []TypeOK
BY InitTypeInv, TypeStep, TypeInvTypes, PTL DEF Spec

------------------------------------------------------------------------------
(* Trust.                                                                   *)

LEMMA TrustStep ==
    ASSUME TypeInv, AddOnlyWithTrust, [Next]_vars
    PROVE  AddOnlyWithTrust'
<1>0. /\ make \in [at : Places, node : Node, nodes : 0..MaxNodes, tries : 0..Patience]
      /\ Idle.at = "idle"
  BY DEF TypeInv, MakeOK, Idle
<1>1. CASE JoinSeed
  <2>1. Goto("join.add") => make.node \in keys' /\ make'.node = make.node
    <3>1. Goto("join.add") => make'.node = make.node
      BY <1>0 DEF Goto
    <3>2. make.node \in keys' \/ Poll(Fails)
      BY <1>1 DEF JoinSeed
    <3>3. Poll(Fails) /\ Goto("join.add") => FALSE
      BY <1>0, <1>1 DEF Poll, Fails, Goto, JoinSeed, At
    <3> QED
      BY <3>1, <3>2, <3>3
  <2>2. Goto("join.add") \/ make'.at # "join.add"
    BY <1>0, <1>1 DEF JoinSeed, At, Poll, Fails, Goto
  <2> QED
    BY <2>1, <2>2 DEF AddOnlyWithTrust, At
<1>2. CASE make'.at # "join.add"
  BY <1>2 DEF AddOnlyWithTrust, At
<1>3. CASE UNCHANGED make /\ keys \subseteq keys'
  BY <1>3 DEF AddOnlyWithTrust, At
<1>4. ASSUME ~JoinSeed PROVE make'.at # "join.add" \/ (UNCHANGED make /\ keys \subseteq keys')
  <2>1. ASSUME \E p \in {"init.wait", "init.create", "init.probe", "init.install",
                         "join.wait", "join.ssh", "join.seed", "join.quorum"} : Goto(p)
        PROVE  make'.at # "join.add"
    BY <1>0, <2>1 DEF Goto
  <2>2. Passed => make'.at # "join.add"
    BY <1>0 DEF Passed
  <2>3. Fails => make'.at # "join.add"
    BY <1>0 DEF Fails
  <2>4. \A p \in Places \ {"join.add"} : At(p) /\ Poll(Fails) => make'.at # "join.add"
    BY <1>0 DEF At, Poll, Fails
  <2>5. At("init.probe") /\ Poll(Goto("init.install")) => make'.at # "join.add"
    BY <1>0 DEF At, Poll, Goto
  <2>6. CASE InitGuard \/ JoinGuard
    BY <2>1, <2>2, <2>3, <2>6 DEF InitGuard, JoinGuard, Guard
  <2>7. CASE InitWait \/ JoinWait \/ JoinSsh
    BY <2>1, <2>4, <2>7 DEF InitWait, JoinWait, JoinSsh, Await, Places
  <2>8. CASE InitCreate \/ InitProbe \/ InitInstall
    BY <2>1, <2>2, <2>3, <2>5, <2>8 DEF InitCreate, InitProbe, InitInstall
  <2>9. CASE JoinAdd \/ JoinQuorum \/ Status
    BY <1>0, <2>1, <2>2, <2>3, <2>9 DEF JoinAdd, JoinQuorum, Status
  <2>10. CASE make = Idle
    <3>1. UNCHANGED make => make'.at # "join.add"
      BY <1>0, <2>10
    <3>2. UNCHANGED make \/ (\E k \in Node : ClusterFull(k)) \/ make' = Idle \/ Cluster
      BY DEF Next, Services, PveClusterStarts, CorosyncStarts, PmxcfsFollows, Scale, Up,
             Recreate, Down, Clean, ForceClean, Restart, Interrupt, vars
    <3>3. ASSUME NEW k \in Node, ClusterFull(k) PROVE make'.at # "join.add"
      BY <3>3 DEF ClusterFull
    <3> QED
      BY <1>0, <1>4, <2>6, <2>7, <2>8, <2>9, <3>1, <3>2, <3>3 DEF Cluster
  <2>11. CASE make # Idle /\ ~Cluster
    <3>1. UNCHANGED keys /\ (UNCHANGED make \/ make' = Idle)
      BY <2>11 DEF Next, Services, PveClusterStarts, CorosyncStarts, PmxcfsFollows, Scale, Up,
             Recreate, Down, Clean, ForceClean, Restart, Interrupt, ClusterFull, nodeVars, vars
    <3> QED
      BY <1>0, <3>1
  <2> QED
    BY <1>4, <2>6, <2>7, <2>8, <2>9, <2>10, <2>11 DEF Cluster
<1> QED
  BY <1>1, <1>2, <1>3, <1>4

\* pvecm add is run only for a node that pve1 lets in with its key: nothing
\* takes a key away while the scripts run.
THEOREM AddsAreTrusted == Spec => []AddOnlyWithTrust
<1>1. Init => AddOnlyWithTrust
  BY DEF Init, AddOnlyWithTrust, At, Idle
<1> QED
  BY <1>1, InitTypeInv, TypeStep, TrustStep, PTL DEF Spec

------------------------------------------------------------------------------
(* Membership, whatever the user does.                                      *)

LEMMA MembersAre ==
    /\ \A n : n \in Members <=> n \in Node /\ vol[1] # 0 /\ vol[n] = vol[1]
    /\ Members # {} => vol[1] # 0
BY DEF Members

\* pve1's cluster is founded by pve1, grows by one node at a time, and ends
\* only for all of its nodes at once: no interruption, restart or wiped volume
\* makes one member forget the others, and a founded cluster has never seen a
\* node of an earlier one.  It holds also while the overlay shrinks.
MembersGrowOrGo ==
    [][\/ Formation!Found
       \/ \E i \in 0..(MaxNodes - 1) : Formation!Join(i)
       \/ Members' = {}]_Members

\* The two steps of the cluster on pve1.
LEMMA CreateFounds ==
    ASSUME TypeInv, InitCreate, vol[1] = 0
    PROVE  Formation!Found
<1>1. vol' = [vol EXCEPT ![1] = founded + 1] /\ UNCHANGED claim
  BY DEF InitCreate
<1>2. \A n \in Node : vol[n] # founded + 1
  BY DEF TypeInv, VolumesOK
<1>3. vol'[1] = founded + 1 /\ founded + 1 # 0 /\ \A n \in Node \ {1} : vol'[n] = vol[n]
  BY <1>1, Nodes DEF TypeInv, VolumesOK
<1>4. Members = {} /\ Members' = {1}
  BY <1>2, <1>3, Nodes DEF Members
<1>5. {n - 1 : n \in Members} = {} /\ {n - 1 : n \in Members'} = {0}
  BY <1>4
<1> QED
  BY <1>1, <1>5 DEF Formation!Found

LEMMA AddJoins ==
    ASSUME TypeInv, JoinAdd
    PROVE  \/ UNCHANGED <<vol, claim>>
           \/ \E i \in 0..(MaxNodes - 1) : Formation!Join(i)
<1> SUFFICES ASSUME vol' # vol
             PROVE  \E i \in 0..(MaxNodes - 1) : Formation!Join(i)
  BY DEF JoinAdd
<1> DEFINE m == make.node
<1>1. /\ m \in Node /\ vol[m] = 0 /\ vol[1] # 0
      /\ vol' = [vol EXCEPT ![m] = vol[1]] /\ UNCHANGED claim
  BY MembersAre DEF JoinAdd, TypeInv, MakeOK
<1>2. m # 1 /\ vol'[1] = vol[1] /\ vol'[m] = vol[1]
      /\ \A n \in Node \ {m} : vol'[n] = vol[n]
  BY <1>1, Nodes DEF TypeInv, VolumesOK
<1>3. m \notin Members /\ 1 \in Members /\ Members' = Members \cup {m} /\ Members \subseteq Nat
  BY <1>1, <1>2, Nodes DEF Members
<1>4. m \in Nat /\ m - 1 \in 0..(MaxNodes - 1)
  BY <1>1, DockerAssumption DEF Node
<1> HIDE DEF m
<1>5. /\ 0 \in {n - 1 : n \in Members}
      /\ m - 1 \notin {n - 1 : n \in Members}
      /\ {n - 1 : n \in Members'} = {n - 1 : n \in Members} \cup {m - 1}
  <2>1. 0 \in {n - 1 : n \in Members}
    BY <1>3
  <2>2. m - 1 \notin {n - 1 : n \in Members}
    BY <1>3, <1>4
  <2>3. {n - 1 : n \in Members'} = {n - 1 : n \in Members} \cup {m - 1}
    BY <1>3
  <2> QED
    BY <2>1, <2>2, <2>3
<1>6. PICK i \in 0..(MaxNodes - 1) : i = m - 1
  BY <1>4
<1>7. Formation!Join(i)
  BY <1>1, <1>5, <1>6 DEF Formation!Join
<1> QED
  BY <1>7

\* What a step does to the cluster and to the claim.
LEMMA FormationSteps ==
    ASSUME TypeInv, [Next]_vars
    PROVE  \/ UNCHANGED Members /\ (UNCHANGED claim \/ Status)
           \/ Formation!Found
           \/ \E i \in 0..(MaxNodes - 1) : Formation!Join(i)
           \/ (Clean \/ ForceClean) /\ Members' = {} /\ claim' = 0
<1>1. UNCHANGED vol => UNCHANGED Members
  BY DEF Members
<1>2. CASE Clean \/ ForceClean
  <2>1. /\ 1..compose \subseteq Node /\ 1 \in 1..compose /\ 1 \in Node
        /\ WipedNodes(1..compose) \/ WipedNodes(Node)
    BY <1>2, Nodes DEF Clean, ForceClean, Wiped, WipedNodes, TypeInv, RunsOK
  <2>2. vol'[1] = 0
    BY <2>1 DEF WipedNodes
  <2>3. Members' = {} /\ claim' = 0
    BY <1>2, <2>2 DEF Members, Clean, ForceClean, Wiped
  <2> QED
    BY <1>2, <2>3
<1>3. CASE InitCreate /\ vol[1] = 0
  BY <1>3, CreateFounds
<1>4. CASE JoinAdd
  <2>1. (UNCHANGED vol /\ UNCHANGED claim) \/ \E i \in 0..(MaxNodes - 1) : Formation!Join(i)
    BY <1>4, AddJoins
  <2> QED
    BY <1>1, <2>1
<1>5. CASE Status
  BY <1>1, <1>5 DEF Status, nodeVars
<1>6. ASSUME ~Clean, ~ForceClean, ~(InitCreate /\ vol[1] = 0), ~JoinAdd, ~Status
      PROVE  UNCHANGED vol /\ UNCHANGED claim
  BY <1>6 DEF Next, Services, Cluster, PveClusterStarts, CorosyncStarts, PmxcfsFollows, Scale, Up,
       Recreate, Down, Restart, Interrupt, ClusterFull, InitGuard, JoinGuard, Guard, InitWait,
       JoinWait, JoinSsh, Await, InitCreate, InitProbe, InitInstall, JoinSeed, JoinQuorum,
       nodeVars, vars
<1> QED
  BY <1>1, <1>2, <1>3, <1>4, <1>5, <1>6

\* pve1's cluster grows by founding and joining and is lost only as a whole.
THEOREM MembershipGrows == Spec => MembersGrowOrGo
<1>1. TypeInv /\ [Next]_vars => [\/ Formation!Found
                                 \/ \E i \in 0..(MaxNodes - 1) : Formation!Join(i)
                                 \/ Members' = {}]_Members
  BY FormationSteps
<1> QED
  BY <1>1, InitTypeInv, TypeStep, PTL DEF Spec, MembersGrowOrGo

------------------------------------------------------------------------------
(* One cluster, when the overlay drops no node that is in one.              *)

\* `make scale` leaves out no node that has a cluster on its volumes: the user
\* scales up, or scales down after a teardown.
DropsNoMember == [][\A n \in Node : vol[n] # 0 => n <= compose']_compose

\* There is one cluster, and the files define its nodes.
OneCluster ==
    /\ \A n \in Node : vol[n] # 0 => vol[n] = vol[1] /\ n <= compose
    /\ \A n \in live : vol[n] # 0

\* `make cluster-full` has brought in the nodes it is done with.
Handled ==
    /\ \A m \in Node : m < make.node => m \in Members
    /\ make.at = "status" => make.node \in Members /\ make.nodes <= make.node
    /\ make.at \in {"init.guard", "init.wait", "init.create", "init.probe", "init.install"} =>
           make.node = 1
    /\ make.at \in {"join.wait", "join.ssh", "join.seed", "join.add", "join.quorum"} =>
           make.node <= compose

FormationInv == OneCluster /\ Handled /\ FullyFormedIsOneCluster

LEMMA InitFormationInv == Init => FormationInv
<1> SUFFICES ASSUME Init PROVE FormationInv
  OBVIOUS
<1>1. OneCluster
  BY DEF Init, OneCluster
<1>2. Handled
  BY Nodes DEF Init, Handled, Idle, Node
<1>3. FullyFormedIsOneCluster
  BY DEF Init, FullyFormedIsOneCluster
<1> QED
  BY <1>1, <1>2, <1>3 DEF FormationInv

LEMMA OneClusterStep ==
    ASSUME TypeInv, FormationInv, [Next]_vars,
           [\A n \in Node : vol[n] # 0 => n <= compose']_compose
    PROVE  OneCluster'
<1> USE DEF FormationInv
<1>1. ASSUME UNCHANGED vol, live' \subseteq live PROVE OneCluster'
  BY <1>1 DEF OneCluster
<1>2. CASE Clean \/ ForceClean
  <2>1. /\ WipedNodes(1..compose) \/ WipedNodes(Node)
        /\ live' = {}
    BY <1>2 DEF Clean, ForceClean, Wiped, WipedNodes
  <2>2. \A n \in Node : vol'[n] = 0
    <3> TAKE n \in Node
    <3>1. n \in 1..compose \/ vol[n] = 0
      BY Nodes DEF OneCluster, TypeInv, RunsOK, Node
    <3> QED
      BY <2>1, <3>1 DEF WipedNodes
  <2> QED
    BY <2>1, <2>2 DEF OneCluster
<1>3. CASE InitCreate /\ vol[1] = 0
  <2>1. vol' = [vol EXCEPT ![1] = founded + 1] /\ UNCHANGED <<compose, live>>
    BY <1>3 DEF InitCreate
  <2>2. \A n \in Node : vol[n] = 0
    BY <1>3 DEF OneCluster
  <2>3. 1 <= compose /\ founded + 1 # 0 /\ 1 \in Node /\ live = {} 
    BY <2>2, DockerAssumption, Nodes DEF TypeInv, RunsOK, VolumesOK, OneCluster
  <2>4. vol'[1] = founded + 1 /\ \A n \in Node \ {1} : vol'[n] = 0
    BY <2>1, <2>2, <2>3 DEF TypeInv, VolumesOK
  <2> QED
    BY <2>1, <2>3, <2>4 DEF OneCluster
<1>4. CASE JoinAdd
  <2>1. UNCHANGED <<compose, live>>
    BY <1>4 DEF JoinAdd
  <2>2. make.node \in Node /\ make.node <= compose
    BY <1>4 DEF JoinAdd, At, Handled, TypeInv, MakeOK
  <2>3. vol' = vol \/ (vol[1] # 0 /\ vol[make.node] = 0 /\ vol' = [vol EXCEPT ![make.node] = vol[1]])
    BY <1>4, MembersAre DEF JoinAdd
  <2>4. CASE vol' = vol
    BY <2>1, <2>4 DEF OneCluster
  <2>5. CASE vol[1] # 0 /\ vol[make.node] = 0 /\ vol' = [vol EXCEPT ![make.node] = vol[1]]
    <3>1. vol'[1] = vol[1] /\ vol'[make.node] = vol[1]
          /\ \A n \in Node \ {make.node} : vol'[n] = vol[n]
      BY <2>2, <2>5, Nodes DEF TypeInv, VolumesOK
    <3>2. live \subseteq Node
      BY DEF TypeInv, RunsOK
    <3> QED
      BY <2>1, <2>2, <2>5, <3>1, <3>2 DEF OneCluster
  <2> QED
    BY <2>3, <2>4, <2>5
<1>5. ASSUME NEW n \in Node, CorosyncStarts(n) PROVE OneCluster'
  BY <1>5 DEF CorosyncStarts, OneCluster
<1>6. ASSUME ~Clean, ~ForceClean, ~(InitCreate /\ vol[1] = 0), ~JoinAdd,
             ~(\E n \in Node : CorosyncStarts(n))
      PROVE  UNCHANGED vol /\ live' \subseteq live
  BY <1>6 DEF Next, Services, Cluster, PveClusterStarts, PmxcfsFollows, Scale, Up,
       Recreate, Down, Stopped, Restart, Interrupt, ClusterFull, InitGuard, JoinGuard, Guard, InitWait,
       JoinWait, JoinSsh, Await, InitCreate, InitProbe, InitInstall, JoinSeed, JoinQuorum, Status,
       nodeVars, vars
<1> QED
  BY <1>1, <1>2, <1>3, <1>4, <1>5, <1>6

LEMMA MakeNumbers == MakeOK => make.node \in Node /\ make.node \in Nat /\ make.nodes \in Nat
<1> SUFFICES ASSUME MakeOK PROVE make.node \in Node /\ make.node \in Nat /\ make.nodes \in Nat
  OBVIOUS
<1>1. make.node \in Node /\ make.nodes \in 0..MaxNodes
  BY DEF MakeOK
<1> QED
  BY <1>1, Nodes, DockerAssumption

\* How the script moves, in terms of where it was.
LEMMA MakeMovesTo ==
    ASSUME MakeOK
    PROVE  /\ \A p : Goto(p) => make'.at = p /\ make'.node = make.node /\ make'.nodes = make.nodes
           /\ Passed => \/ /\ make.node < make.nodes /\ make'.at = "join.guard"
                           /\ make'.node = make.node + 1
                        \/ /\ make.nodes <= make.node /\ make'.at = "status"
                           /\ make'.node = make.node /\ make'.nodes = make.nodes
           /\ Fails => make' = Idle
           /\ Poll(Fails) => \/ make' = Idle
                             \/ make'.at = make.at /\ make'.node = make.node
                                /\ make'.nodes = make.nodes
<1>0. /\ make \in [at : Places, node : Node, nodes : 0..MaxNodes, tries : 0..Patience]
      /\ make.node \in Nat /\ make.nodes \in Nat
  BY MakeNumbers DEF MakeOK
<1>1. ASSUME NEW p, Goto(p)
      PROVE  make'.at = p /\ make'.node = make.node /\ make'.nodes = make.nodes
  BY <1>0, <1>1 DEF Goto
<1>2. ASSUME Passed
      PROVE  \/ /\ make.node < make.nodes /\ make'.at = "join.guard"
                /\ make'.node = make.node + 1
             \/ /\ make.nodes <= make.node /\ make'.at = "status"
                /\ make'.node = make.node /\ make'.nodes = make.nodes
  BY <1>0, <1>2 DEF Passed
<1>3. Fails => make' = Idle
  BY DEF Fails
<1>4. Poll(Fails) => \/ make' = Idle
                     \/ make'.at = make.at /\ make'.node = make.node /\ make'.nodes = make.nodes
  BY <1>0 DEF Poll, Fails
<1> QED
  BY <1>1, <1>2, <1>3, <1>4

\* Founding and joining take no member away.
LEMMA FoundKeeps == Formation!Found => Members \subseteq Members'
<1>1. Formation!Found => {n - 1 : n \in Members} = {}
  BY DEF Formation!Found
<1>2. \A m \in Members : m - 1 \in {n - 1 : n \in Members}
  OBVIOUS
<1> QED
  BY <1>1, <1>2

LEMMA JoinKeeps ==
    ASSUME NEW i \in 0..(MaxNodes - 1), Formation!Join(i)
    PROVE  Members \subseteq Members'
<1>1. {n - 1 : n \in Members} \subseteq {n - 1 : n \in Members'}
  BY DEF Formation!Join
<1>2. Members \subseteq Nat /\ Members' \subseteq Nat
  BY Nodes DEF Members
<1> SUFFICES ASSUME NEW m \in Members PROVE m \in Members'
  OBVIOUS
<1>3. PICK n \in Members' : m - 1 = n - 1
  BY <1>1
<1> QED
  BY <1>2, <1>3

\* The members stay while make runs.
LEMMA MembersStay ==
    ASSUME TypeInv, [Next]_vars
    PROVE  make = Idle \/ Members \subseteq Members'
<1>1. Clean \/ ForceClean => make = Idle
  BY DEF Clean, ForceClean
<1> QED
  BY <1>1, FoundKeeps, JoinKeeps, FormationSteps

\* The node that passes is a member.
LEMMA PassedIsMember ==
    ASSUME TypeInv, FormationInv, make.node \in live
    PROVE  make.node \in Members
BY MembersAre DEF FormationInv, OneCluster, TypeInv, MakeOK

InInit == {"init.guard", "init.wait", "init.create", "init.probe", "init.install"}
InJoin == {"join.wait", "join.ssh", "join.seed", "join.add", "join.quorum"}

LEMMA HandledStep ==
    ASSUME TypeInv, FormationInv, [Next]_vars
    PROVE  Handled'
<1> USE DEF FormationInv
<1>1. make' = Idle => Handled'
  BY Nodes DEF Handled, Idle, Node
<1>2. ASSUME NEW k \in Node, ClusterFull(k) PROVE Handled'
  <2>1. make'.at = "init.guard" /\ make'.node = 1
    BY <1>2 DEF ClusterFull
  <2> QED
    BY <2>1 DEF Handled, Node
<1>3. CASE UNCHANGED make /\ ~Cluster
  <2>1. CASE make = Idle
    BY <1>1, <1>3, <2>1
  <2>2. CASE make # Idle
    <3>1. Members \subseteq Members' /\ UNCHANGED compose
      <4>1. UNCHANGED compose
        BY <1>3, <2>2 DEF Next, Services, PveClusterStarts, CorosyncStarts, PmxcfsFollows, Scale,
           Up, Recreate, Down, Clean, ForceClean, Restart, Interrupt, ClusterFull, vars
      <4> QED
        BY <2>2, <4>1, MembersStay
    <3> QED
      BY <1>3, <3>1 DEF Handled
  <2> QED
    BY <2>1, <2>2
<1>4. CASE Cluster
  <2>1. Members \subseteq Members' /\ UNCHANGED compose
    <3>1. make.at # "idle"
      BY <1>4 DEF Cluster, At, InitGuard, JoinGuard, Guard, InitWait, JoinWait, JoinSsh, Await,
         InitCreate, InitProbe, InitInstall, JoinSeed, JoinAdd, JoinQuorum, Status
    <3>2. UNCHANGED compose
      BY <1>4 DEF Cluster, InitGuard, JoinGuard, Guard, InitWait, JoinWait, JoinSsh, Await,
         InitCreate, InitProbe, InitInstall, JoinSeed, JoinAdd, JoinQuorum, Status
    <3> QED
      BY <3>1, <3>2, MembersStay DEF Idle
  <2>2. make.node \in Nat /\ make.nodes \in Nat /\ \A m \in Node : m \in Nat
    BY Nodes, MakeNumbers DEF TypeInv
  <2>3. \A m \in Node : m < make.node => m \in Members'
    BY <2>1 DEF Handled
  <2>4. ASSUME make'.node = make.node, make'.at \in InInit, make.node = 1 PROVE Handled'
    BY <2>3, <2>4 DEF Handled, InInit
  <2>5. ASSUME make'.node = make.node, make'.at \in InJoin, make.node <= compose PROVE Handled'
    BY <2>1, <2>3, <2>5 DEF Handled, InJoin
  <2>6. ASSUME make'.node = make.node, make'.at = "join.guard" PROVE Handled'
    BY <2>3, <2>6 DEF Handled
  <2>7. ASSUME Passed, make.node \in Members PROVE Handled'
    <3>1. make.node \in Members'
      BY <2>1, <2>7
    <3>2. CASE /\ make.node < make.nodes /\ make'.at = "join.guard"
               /\ make'.node = make.node + 1
      <4>1. \A m \in Node : m < make.node + 1 => m \in Members'
        BY <2>2, <2>3, <3>1
      <4> QED
        BY <3>2, <4>1 DEF Handled
    <3>3. CASE /\ make.nodes <= make.node /\ make'.at = "status"
               /\ make'.node = make.node /\ make'.nodes = make.nodes
      BY <2>3, <3>1, <3>3 DEF Handled
    <3> QED
      BY <2>7, <3>2, <3>3, MakeMovesTo DEF TypeInv
  <2>8. /\ make.at \in InInit => make.node = 1
        /\ make.at \in InJoin => make.node <= compose
    BY DEF Handled, InInit, InJoin
  <2>9. /\ make.at \in InInit /\ Poll(Fails) => Handled'
        /\ make.at \in InJoin /\ Poll(Fails) => Handled'
    BY <1>1, <2>4, <2>5, <2>8, MakeMovesTo DEF TypeInv
  <2>10. /\ \A p \in InInit : make.at \in InInit /\ Goto(p) => Handled'
         /\ \A p \in InJoin : make.node <= compose /\ Goto(p) => Handled'
    BY <2>4, <2>5, <2>8, MakeMovesTo DEF TypeInv
  <2>11. Fails => Handled'
    BY <1>1, MakeMovesTo DEF TypeInv
  <2>12. CASE InitGuard
    BY <2>7, <2>10, <2>11, <2>12, PassedIsMember
       DEF InitGuard, Guard, HasCluster, At, InInit
  <2>13. CASE JoinGuard
    BY <2>7, <2>10, <2>11, <2>13, PassedIsMember
       DEF JoinGuard, Guard, HasCluster, CanExec, At, InJoin
  <2>14. CASE InitWait
    BY <2>9, <2>10, <2>14 DEF InitWait, Await, At, InInit
  <2>15. CASE JoinWait \/ JoinSsh
    BY <2>8, <2>9, <2>10, <2>15 DEF JoinWait, JoinSsh, Await, At, InJoin
  <2>16. CASE InitCreate
    BY <2>10, <2>11, <2>16 DEF InitCreate, At, InInit
  <2>17. CASE InitProbe
    <3>1. make.at \in InInit /\ "init.install" \in InInit /\ make.node = 1
      BY <2>8, <2>17 DEF InitProbe, At, InInit
    <3>2. make' = [make EXCEPT !.tries = @ + 1] => make'.at = make.at /\ make'.node = make.node
      BY DEF TypeInv, MakeOK
    <3> QED
      BY <2>4, <2>10, <2>17, <3>1, <3>2 DEF InitProbe, Poll
  <2>18. CASE InitInstall
    <3>1. make.node = 1
      BY <2>8, <2>18 DEF InitInstall, At, InInit
    <3>2. HasCluster(1) => make.node \in Members
      BY <3>1, PassedIsMember DEF HasCluster
    <3> QED
      BY <2>7, <2>11, <2>18, <3>2 DEF InitInstall
  <2>19. CASE JoinSeed
    BY <2>8, <2>9, <2>10, <2>19 DEF JoinSeed, At, InJoin
  <2>20. CASE JoinAdd
    BY <2>8, <2>10, <2>11, <2>20 DEF JoinAdd, At, InJoin
  <2>21. CASE JoinQuorum
    BY <2>7, <2>21, PassedIsMember DEF JoinQuorum
  <2>22. CASE Status
    BY <1>1, <2>22 DEF Status
  <2> QED
    BY <1>4, <2>12, <2>13, <2>14, <2>15, <2>16, <2>17, <2>18, <2>19, <2>20, <2>21, <2>22
       DEF Cluster
<1>5. UNCHANGED make \/ make' = Idle \/ Cluster \/ \E k \in Node : ClusterFull(k)
  BY DEF Next, Services, PveClusterStarts, CorosyncStarts, PmxcfsFollows, Scale, Up,
         Recreate, Down, Clean, ForceClean, Restart, Interrupt, vars
<1> QED
  BY <1>1, <1>2, <1>3, <1>4, <1>5

LEMMA ClaimStep ==
    ASSUME TypeInv, FormationInv, [Next]_vars
    PROVE  FullyFormedIsOneCluster'
<1>1. CASE Status
  <2>1. make.nodes <= make.node /\ make.node \in Members /\ \A m \in Node : m < make.node => m \in Members
    BY <1>1 DEF Status, At, FormationInv, Handled
  <2>2. make.node \in Node /\ make.node \in Nat /\ make.nodes \in Nat /\ 1..make.node \subseteq Node
    BY DockerAssumption, MakeNumbers DEF TypeInv, Node
  <2>3. 1..make.nodes \subseteq Members
    BY <2>1, <2>2
  <2>4. claim' = make.nodes /\ UNCHANGED vol
    BY <1>1 DEF Status, nodeVars
  <2>5. Members' = Members
    BY <2>4 DEF Members
  <2> QED
    BY <2>3, <2>4, <2>5 DEF FullyFormedIsOneCluster
<1>2. CASE Clean \/ ForceClean
  BY <1>2 DEF Clean, ForceClean, Wiped, FullyFormedIsOneCluster
<1>3. ASSUME ~Status, ~(Clean \/ ForceClean) PROVE UNCHANGED claim /\ Members \subseteq Members'
  <2>1. Formation!Found => UNCHANGED claim /\ Members \subseteq Members'
    BY FoundKeeps DEF Formation!Found
  <2>2. \A i \in 0..(MaxNodes - 1) : Formation!Join(i) => UNCHANGED claim /\ Members \subseteq Members'
    BY JoinKeeps DEF Formation!Join
  <2> QED
    BY <1>3, <2>1, <2>2, FormationSteps
<1>4. CASE UNCHANGED claim /\ Members \subseteq Members'
  BY <1>4 DEF FormationInv, FullyFormedIsOneCluster
<1> QED
  BY <1>1, <1>2, <1>3, <1>4

LEMMA FormationInvStep ==
    TypeInv /\ FormationInv /\ [Next]_vars /\ [\A n \in Node : vol[n] # 0 => n <= compose']_compose
    => FormationInv'
BY OneClusterStep, HandledStep, ClaimStep DEF FormationInv

\* Every step is one of the abstract formation, or wipes it.
LEMMA FormationRefined ==
    ASSUME TypeInv, FormationInv, [Next]_vars
    PROVE  [Formation!Next \/ (Formation!Init)']_<<Members, claim>>
<1>1. CASE Status
  <2>1. make.nodes <= make.node /\ make.node \in Members /\ \A m \in Node : m < make.node => m \in Members
    BY <1>1 DEF Status, At, FormationInv, Handled
  <2>2. make.node \in Node /\ make.node \in Nat /\ make.nodes \in 0..MaxNodes /\ make.node <= MaxNodes
    BY DockerAssumption, MakeNumbers DEF TypeInv, MakeOK, Node
  <2>3. claim' = make.nodes /\ UNCHANGED vol
    BY <1>1 DEF Status, nodeVars
  <2>4. Members' = Members
    BY <2>3 DEF Members
  <2>5. ASSUME NEW i \in 0..(MaxNodes - 1), i < make.nodes PROVE i \in {n - 1 : n \in Members}
    <3>1. i + 1 \in Node /\ i + 1 <= make.node /\ i = (i + 1) - 1
      BY <2>1, <2>2, <2>5, DockerAssumption DEF Node
    <3>2. i + 1 \in Members
      BY <2>1, <2>2, <3>1, Nodes
    <3> QED
      BY <3>1, <3>2
  <2>6. Formation!Report(make.nodes)
    BY <2>3, <2>4, <2>5 DEF Formation!Report
  <2> QED
    BY <2>2, <2>6 DEF Formation!Next
<1>2. CASE Members' = {} /\ claim' = 0
  BY <1>2 DEF Formation!Init
<1>3. CASE UNCHANGED Members /\ UNCHANGED claim
  BY <1>3
<1>4. CASE Formation!Found \/ \E i \in 0..(MaxNodes - 1) : Formation!Join(i)
  BY <1>4 DEF Formation!Next
<1> QED
  BY <1>1, <1>2, <1>3, <1>4, FormationSteps

\* The cluster and the claim evolve as the abstract formation says between two
\* teardowns, for a user who drops no node with a cluster from the overlay.
THEOREM FormationHolds == Spec /\ DropsNoMember => FormationBetweenTeardowns
BY InitTypeInv, TypeStep, InitFormationInv, FormationInvStep, FormationRefined, PTL
   DEF Spec, DropsNoMember, FormationBetweenTeardowns

\* For the same user, "Cluster fully formed" is about one cluster: the claim of
\* the repository's README holds as long as no member is scaled away.
THEOREM OneClusterUnlessDropped == Spec /\ DropsNoMember => []FullyFormedIsOneCluster
<1>1. FormationInv => FullyFormedIsOneCluster
  BY DEF FormationInv
<1> QED
  BY <1>1, InitTypeInv, TypeStep, InitFormationInv, FormationInvStep, PTL DEF Spec, DropsNoMember

\* A user who only ever scales to one size drops no member.
LEMMA OneScaleStep ==
    ASSUME NEW k, Scales \subseteq {k}, TypeInv, FormationInv,
           compose \in {BaseNodes} \cup Scales, [Next]_vars
    PROVE  /\ compose' \in {BaseNodes} \cup Scales
           /\ [\A n \in Node : vol[n] # 0 => n <= compose']_compose
<1>1. ASSUME NEW j \in Scales, Scale(j)
      PROVE  j \in Scales /\ compose' = j /\ \A n \in Node : vol[n] # 0 => n <= compose'
  <2>1. compose' = j /\ compose = BaseNodes
    BY <1>1 DEF Scale
  <2>2. j \in Nat /\ BaseNodes \in Nat /\ BaseNodes <= j /\ Node \subseteq Nat
    BY DockerAssumption, Nodes
  <2> QED
    BY <2>1, <2>2 DEF FormationInv, OneCluster
<1>2. UNCHANGED compose \/ \E j \in Scales : Scale(j)
  BY DEF Next, Services, Cluster, PveClusterStarts, CorosyncStarts, PmxcfsFollows, Up,
       Recreate, Down, Clean, ForceClean, Restart, Interrupt, ClusterFull, InitGuard, JoinGuard,
       Guard, InitWait, JoinWait, JoinSsh, Await, InitCreate, InitProbe, InitInstall, JoinSeed,
       JoinAdd, JoinQuorum, Status, vars
<1> QED
  BY <1>1, <1>2

THEOREM FormationOfOneScale ==
    ASSUME NEW k, Scales \subseteq {k}
    PROVE  Spec => FormationBetweenTeardowns
<1> DEFINE J == TypeInv /\ FormationInv /\ compose \in {BaseNodes} \cup Scales
<1>1. Init => J
  BY InitTypeInv, InitFormationInv DEF Init
<1>2. J /\ [Next]_vars => J'
  BY OneScaleStep, TypeStep, FormationInvStep
<1>3. J /\ [Next]_vars => [Formation!Next \/ (Formation!Init)']_<<Members, claim>>
  BY FormationRefined
<1> QED
  BY <1>1, <1>2, <1>3, PTL DEF Spec, FormationBetweenTeardowns
=============================================================================
