-------------------------- MODULE DockerOsdsProofs --------------------------
(***************************************************************************)
(* Proofs about DockerOsds, for any set of nodes, any patience of the      *)
(* reattach service and any number of reboots, restarts, rebuilds and      *)
(* teardowns.                                                              *)
(***************************************************************************)
EXTENDS DockerOsds, TLAPS

------------------------------------------------------------------------------
(* Types.                                                                   *)

HasValues == {"none", "blank", "half", "osd"}

LEMMA DiskTypes ==
    /\ \A has \in HasValues, of \in 0..founded : Disk(has, of) \in Disks
    /\ \A d \in Disks : d.has \in HasValues /\ d.of \in 0..founded
                        /\ d = Disk(d.has, d.of)
    /\ \A has, of : Disk(has, of).has = has /\ Disk(has, of).of = of
BY DEF Disk, Disks, HasValues

LEMMA ServiceTypes ==
    /\ \A at \in {"off", "waiting", "done", "gaveup", "failed"}, polls \in 0..(Patience - 1) :
           Service(at, polls) \in Services
    /\ \A at, polls : Service(at, polls).at = at /\ Service(at, polls).polls = polls
    /\ 0 \in 0..(Patience - 1)
BY OsdsAssumption DEF Service, Services

LEMMA InitTypeOK == Init => TypeOK
<1> SUFFICES ASSUME Init PROVE TypeOK
  OBVIOUS
<1>1. founded = 0 /\ 0 \in 0..founded
  BY DEF Init
<1>2. disk \in [Node -> Disks]
  BY <1>1, DiskTypes DEF Init, HasValues
<1>3. reattach \in [Node -> Services]
  BY ServiceTypes DEF Init
<1>4. /\ linked = {} /\ overlay = FALSE /\ made = {} /\ mapped = {} /\ ctr = {}
      /\ units = {} /\ mounted = {} /\ osd = {} /\ fenced = {} /\ ceph = 0
  BY DEF Init
<1>5. 0 \in 0..(MaxMishaps + 1) /\ 0 \in 0..MaxMishaps /\ mishaps = 0
  BY OsdsAssumption DEF Init
<1> QED
  BY <1>1, <1>2, <1>3, <1>4, <1>5, Zenon DEF TypeOK

\* Booting and stopping containers sets services to their first states.
LEMMA BootsType ==
    ASSUME TypeOK, NEW S \in SUBSET Node, Boots(S) \/ Stopped(S)
    PROVE  reattach' \in [Node -> Services]
BY ServiceTypes DEF TypeOK, Boots, Stopped

\* A boot fences only containers that run with their device.
LEMMA BootsFences ==
    ASSUME TypeOK, NEW S \in SUBSET Node, Boots(S), S \subseteq ctr',
           ctr \cap ctr' \cap mapped \subseteq mapped' \cup S
    PROVE  fenced' \subseteq ctr' \cap mapped'
<1>1. PICK F \in SUBSET (S \cap mapped') : fenced' = ((fenced \cap ctr') \ S) \cup F
  BY DEF Boots
<1> QED
  BY <1>1 DEF TypeOK

\* The disks and the counters, when a step leaves them alone.
LEMMA UnchangedTypes ==
    ASSUME TypeOK
    PROVE  /\ UNCHANGED <<disk, founded>> => disk' \in [Node -> Disks']
           /\ UNCHANGED disk => {n \in Node : disk'[n].has # "none"}
                               = {n \in Node : disk[n].has # "none"}
           /\ UNCHANGED mishaps => mishaps' \in 0..MaxMishaps
           /\ Mishap => mishaps' \in 0..MaxMishaps
<1>1. UNCHANGED founded => Disks' = Disks
  BY DEF Disks
<1>2. Mishap => mishaps' \in 0..MaxMishaps
  BY OsdsAssumption DEF Mishap, TypeOK
<1> QED
  BY <1>1, <1>2, Zenon DEF TypeOK

\* compose up, whatever it recreates; Removed, for down and clean.
LEMMA ComposeUpType ==
    ASSUME TypeOK, NEW R \in SUBSET Node, ComposeUp(R), mishaps' \in 0..MaxMishaps
    PROVE  TypeOK'
<1>1. Startable \subseteq Node
  BY DEF TypeOK, Startable
<1>2. reattach' \in [Node -> Services]
  BY <1>1, BootsType DEF ComposeUp
<1>3. /\ made' = Node /\ mapped' \subseteq Node
      /\ units' \subseteq Node /\ ctr' = (ctr \ R) \cup Startable
      /\ mounted' = mounted \ R /\ osd' = osd \ R
      /\ osd \ R \subseteq mapped'
      /\ mapped \ R \subseteq mapped'
  BY DEF ComposeUp, TypeOK
<1>4. fenced' \subseteq ctr' \cap mapped'
  <2> DEFINE S == (R \cup (Node \ ctr)) \cap Startable
  <2>1. S \in SUBSET Node /\ Boots(S) /\ S \subseteq ctr'
    BY <1>1, <1>3 DEF ComposeUp
  <2>2. ctr \cap ctr' \cap R \subseteq S
    BY <1>3
  <2> HIDE DEF S
  <2> QED
    BY <1>3, <2>1, <2>2, BootsFences
<1> QED
  BY <1>1, <1>2, <1>3, <1>4 DEF ComposeUp, hostVars, TypeOK, Disks

LEMMA NextTypeOK ==
    ASSUME TypeOK, [Next]_vars
    PROVE  TypeOK'
<1>1. CASE CephDevices
  <2>1. /\ disk' = [n \in Node |-> IF disk[n].has = "none" THEN Disk("blank", 0) ELSE disk[n]]
        /\ linked' = Node /\ overlay' = TRUE /\ UNCHANGED <<nodeVars, ceph, founded, mishaps>>
    BY <1>1 DEF CephDevices
  <2>2. ASSUME NEW n \in Node PROVE disk'[n] \in Disks /\ disk'[n].has # "none"
    <3>1. 0 \in 0..founded /\ disk[n] \in Disks
      BY DEF TypeOK
    <3>2. Disk("blank", 0) \in Disks /\ Disk("blank", 0).has = "blank"
      BY <3>1, DiskTypes DEF HasValues
    <3> QED
      BY <2>1, <3>1, <3>2
  <2>3. disk' \in [Node -> Disks] /\ Disks' = Disks
    BY <2>1, <2>2 DEF Disks
  <2>4. linked' \subseteq {n \in Node : disk'[n].has # "none"}
    BY <2>1, <2>2
  <2> QED
    BY <2>1, <2>3, <2>4, Zenon DEF nodeVars, TypeOK
<1>2. CASE CephDevicesClean
  <2>1. /\ disk' = [n \in Node |-> Disk("none", 0)] /\ linked' = {} /\ overlay' = FALSE
        /\ UNCHANGED <<nodeVars, ceph, founded>> /\ Mishap
    BY <1>2 DEF CephDevicesClean
  <2>2. 0 \in 0..founded
    BY DEF TypeOK
  <2>3. Disk("none", 0) \in Disks
    BY <2>2, DiskTypes DEF HasValues
  <2>4. disk' \in [Node -> Disks] /\ Disks' = Disks
    BY <2>1, <2>3 DEF Disks
  <2>5. mishaps' \in 0..MaxMishaps
    BY <2>1, UnchangedTypes
  <2> QED
    BY <2>1, <2>4, <2>5, Zenon DEF nodeVars, TypeOK
<1>3. CASE Reboot
  <2>1. reattach' \in [Node -> Services]
    BY <1>3, BootsType DEF Reboot
  <2>2. /\ linked' = {} /\ ctr' = {} /\ mounted' = {} /\ osd' = {} /\ fenced' = {} /\ Mishap
        /\ UNCHANGED <<disk, overlay, made, mapped, units, ceph, founded>>
    BY <1>3 DEF Reboot, Stopped, TypeOK
  <2>3. disk' \in [Node -> Disks'] /\ mishaps' \in 0..MaxMishaps /\ Services' = Services
    BY <2>2, UnchangedTypes DEF Services
  <2> QED
    BY <2>1, <2>2, <2>3, Zenon DEF TypeOK
<1>4. CASE Up
  BY <1>4, ComposeUpType DEF Up, Renewed, TypeOK
<1>5. CASE Rebuild
  <2>1. ComposeUp(Node) /\ Mishap
    BY <1>5 DEF Rebuild, Renewed
  <2>2. mishaps' \in 0..MaxMishaps
    BY <2>1, UnchangedTypes
  <2> QED
    BY <2>1, <2>2, ComposeUpType
<1>6. CASE Down \/ Clean
  <2>1. reattach' \in [Node -> Services]
    BY <1>6, BootsType DEF Down, Clean, Removed
  <2>2. /\ made' = {} /\ mapped' = {} /\ units' = {} /\ ctr' = {} /\ mounted' = {} /\ osd' = {}
        /\ fenced' = {} /\ ceph' \in {0, ceph} /\ Mishap /\ UNCHANGED <<disk, linked, overlay, founded>>
    BY <1>6 DEF Down, Clean, Removed, Stopped, hostVars, TypeOK
  <2>3. disk' \in [Node -> Disks'] /\ mishaps' \in 0..MaxMishaps /\ Services' = Services
    BY <2>2, UnchangedTypes DEF Services
  <2> QED
    BY <2>1, <2>2, <2>3, Zenon DEF TypeOK
<1>7. CASE CephInit
  <2>1. /\ founded \in Nat /\ founded' = founded + 1 /\ founded < MaxMishaps + 1
        /\ UNCHANGED disk
    BY <1>7 DEF CephInit, hostVars, TypeOK
  <2>2. founded' \in 0..(MaxMishaps + 1) /\ 0..founded \subseteq 0..founded'
    BY <2>1, OsdsAssumption
  <2>3. disk' \in [Node -> Disks']
    BY <2>1, <2>2 DEF TypeOK, Disks
  <2> QED
    BY <1>7, <2>2, <2>3 DEF CephInit, hostVars, nodeVars, TypeOK
<1>8. ASSUME NEW n \in Node, Restart(n) PROVE TypeOK'
  <2>1. reattach' \in [Node -> Services]
    BY <1>8, BootsType DEF Restart
  <2>2. /\ mounted' = mounted \ {n} /\ osd' = osd \ {n} /\ Mishap
        /\ UNCHANGED <<disk, linked, overlay, made, mapped, ctr, units, ceph, founded>>
    BY <1>8 DEF Restart, hostVars
  <2>3. disk' \in [Node -> Disks'] /\ mishaps' \in 0..MaxMishaps /\ Services' = Services
    BY <2>2, UnchangedTypes DEF Services
  <2>4. mounted' \subseteq ctr' /\ osd' \subseteq ctr' \cap mapped'
    BY <2>2 DEF TypeOK
  <2>5. fenced' \subseteq ctr' \cap mapped'
    BY <1>8, <2>2, BootsFences DEF Restart
  <2> QED
    BY <2>1, <2>2, <2>3, <2>4, <2>5, Zenon DEF TypeOK
<1>9. ASSUME NEW n \in Node, PveClusterStarts(n) PROVE TypeOK'
  BY <1>9 DEF PveClusterStarts, hostVars, TypeOK, Disks
<1>10. ASSUME NEW n \in Node, UnitStarts(n) PROVE TypeOK'
  BY <1>10 DEF UnitStarts, hostVars, TypeOK, Disks
<1>11. ASSUME NEW n \in Node, OsdCreate(n) PROVE TypeOK'
  <2>1. ceph \in 0..founded /\ 0 \in 0..founded /\ founded' = founded
    BY <1>11 DEF OsdCreate, TypeOK
  <2>2. \/ disk' = disk
        \/ \E d \in {Disk("osd", ceph), Disk("half", 0)} : disk' = [disk EXCEPT ![n] = d]
    BY <1>11 DEF OsdCreate
  <2>3. ASSUME NEW d \in {Disk("osd", ceph), Disk("half", 0)}
        PROVE  d \in Disks /\ d.has # "none"
    BY <2>1, <2>3, DiskTypes DEF HasValues
  <2>4. disk' \in [Node -> Disks] /\ linked' \subseteq {m \in Node : disk'[m].has # "none"}
    BY <1>11, <2>2, <2>3 DEF OsdCreate, TypeOK
  <2>5. mishaps' \in 0..MaxMishaps
    BY <1>11, OsdsAssumption DEF OsdCreate, Mishap, TypeOK
  <2>6. osd' \subseteq osd \cup {n} /\ units' \subseteq units \cup {n} /\ n \in ctr \cap mapped
        /\ fenced' = fenced \cup {n}
    BY <1>11 DEF OsdCreate
  <2> QED
    BY <1>11, <2>1, <2>4, <2>5, <2>6 DEF OsdCreate, TypeOK, Disks
<1>12. ASSUME NEW n \in Node, Activate(n) PROVE TypeOK'
  <2>1. reattach' \in [Node -> Services]
    BY <1>12, ServiceTypes DEF Activate, TypeOK
  <2>2. n \in ctr
    BY <1>12 DEF Activate, Conf, TypeOK
  <2>3. /\ osd' \subseteq osd \cup ({n} \cap mapped) /\ units' \subseteq units \cup ({n} \cap mapped)
        /\ UNCHANGED mishaps \/ Mishap
    BY <1>12 DEF Activate
  <2>4. mishaps' \in 0..MaxMishaps
    BY <2>3, UnchangedTypes
  <2> QED
    BY <1>12, <2>1, <2>2, <2>3, <2>4 DEF Activate, hostVars, TypeOK, Disks
<1>13. ASSUME NEW n \in Node, ReattachWaits(n) PROVE TypeOK'
  <2>1. reattach[n].polls \in 0..(Patience - 1)
    BY DEF TypeOK, Services
  <2>2. reattach[n].polls + 1 < Patience => reattach[n].polls + 1 \in 0..(Patience - 1)
    BY <2>1, OsdsAssumption
  <2>3. reattach' \in [Node -> Services]
    BY <1>13, <2>2, ServiceTypes DEF ReattachWaits, TypeOK
  <2> QED
    BY <1>13, <2>3 DEF ReattachWaits, hostVars, TypeOK, Disks
<1>14. CASE UNCHANGED vars
  BY <1>14 DEF vars, hostVars, nodeVars, TypeOK, Disks
<1> QED
  BY <1>1, <1>2, <1>3, <1>4, <1>5, <1>6, <1>7, <1>8, <1>9, <1>10, <1>11, <1>12, <1>13, <1>14
     DEF Next

\* Every variable keeps its type, and what runs runs on what is there: a daemon
\* in a running container that has the device, a container that exists, a loop
\* device on a file.
THEOREM OsdsTypeCorrect == Spec => []TypeOK
BY InitTypeOK, NextTypeOK, PTL DEF Spec

------------------------------------------------------------------------------
(* OSDs and their data.                                                     *)

\* Every step leaves an OSD on its disk alone, or makes new files for all.
LEMMA DataStep ==
    ASSUME TypeOK, [Next]_vars, NEW n \in Node, disk[n].has = "osd"
    PROVE  disk'[n] \in {disk[n], Disk("none", 0)}
<1>1. CASE CephDevices
  BY <1>1 DEF CephDevices
<1>2. CASE CephDevicesClean
  BY <1>2 DEF CephDevicesClean
<1>3. ASSUME NEW m \in Node, OsdCreate(m) PROVE disk'[n] = disk[n]
  <2>1. m # n \/ disk' = disk
    BY <1>3 DEF OsdCreate
  <2> QED
    BY <1>3, <2>1 DEF OsdCreate, TypeOK
<1>4. CASE UNCHANGED disk
  BY <1>4
<1> QED
  BY <1>1, <1>2, <1>3, <1>4
     DEF Next, vars, hostVars, Reboot, Up, Rebuild, ComposeUp, Down, Clean, CephInit, Restart,
         PveClusterStarts, UnitStarts, Activate, ReattachWaits

\* No step overwrites an OSD; only the explicit removal of the files loses one.
THEOREM OsdDataIsKept == Spec => OsdDataKept
<1>1. TypeOK /\ [Next]_vars =>
          [\A n \in Node : disk[n].has = "osd" => disk'[n] \in {disk[n], Disk("none", 0)}]_vars
  BY DataStep
<1> QED
  BY <1>1, OsdsTypeCorrect, PTL DEF Spec, OsdDataKept

\* A new cluster has no OSDs yet, so nobody has to start one.
LEMMA NoOsdOfTheNext ==
    ASSUME TypeOK, NEW n \in Node, CephInit
    PROVE  ~Hosts(n)'
<1>1. disk[n].of <= founded /\ ceph' = founded + 1 /\ founded \in Nat /\ disk' = disk
      /\ disk[n].of \in Nat
  BY DiskTypes DEF TypeOK, CephInit, hostVars
<1>2. disk'[n].of # ceph'
  BY <1>1
<1> QED
  BY <1>2, DiskTypes DEF Hosts

LEMMA StarterStep ==
    ASSUME TypeOK, OsdsHaveAStarter, [Next]_vars
    PROVE  OsdsHaveAStarter'
<1> DEFINE Starter(n) == reattach[n].at \in {"waiting", "gaveup", "failed"}
           Idle(n) == n \in (ctr \cap mapped) \ osd /\ Hosts(n)
<1> SUFFICES ASSUME NEW n \in Node, Idle(n)' PROVE Starter(n)'
  BY DEF OsdsHaveAStarter
<1>1. Idle(n) => Starter(n)
  BY DEF OsdsHaveAStarter
<1>2. CASE CephDevices
  <2>1. disk[n] = disk'[n] \/ disk'[n] = Disk("blank", 0)
    BY <1>2 DEF CephDevices
  <2>2. disk'[n].has = "osd"
    BY DiskTypes DEF Hosts
  <2>3. Idle(n)
    BY <1>2, <2>1, <2>2, DiskTypes DEF CephDevices, nodeVars, Hosts
  <2> QED
    BY <1>1, <1>2, <2>3 DEF CephDevices, nodeVars
<1>3. CASE CephDevicesClean
  BY <1>3 DEF CephDevicesClean, nodeVars
<1>4. CASE Reboot
  BY <1>4 DEF Reboot, Stopped, TypeOK
<1>5. ASSUME NEW R \in SUBSET Node, ComposeUp(R) PROVE Starter(n)'
  <2>1. Hosts(n)
    BY <1>5 DEF ComposeUp, hostVars, Hosts
  <2>2. CASE n \in (R \cup (Node \ ctr)) \cap Startable
    BY <1>5, <2>2, ServiceTypes DEF ComposeUp, Boots
  <2>3. CASE n \notin (R \cup (Node \ ctr)) \cap Startable
    <3>1. n \in ctr \ R
      BY <1>5, <2>3 DEF ComposeUp
    <3>2. n \in mapped \ osd
      BY <1>5, <3>1 DEF ComposeUp
    <3>3. Starter(n)
      BY <1>1, <2>1, <3>1, <3>2
    <3> QED
      BY <1>5, <2>3, <3>1, <3>3 DEF ComposeUp, Boots
  <2> QED
    BY <2>2, <2>3
<1>6. CASE Down \/ Clean
  BY <1>6 DEF Down, Clean, Removed
<1>7. CASE CephInit
  BY <1>7, NoOsdOfTheNext
<1>8. ASSUME NEW m \in Node, Restart(m) PROVE Starter(n)'
  <2>1. CASE m = n
    BY <1>8, <2>1, ServiceTypes DEF Restart, Boots
  <2>2. CASE m # n
    BY <1>1, <1>8, <2>2 DEF Restart, Boots, hostVars, Hosts
  <2> QED
    BY <2>1, <2>2
<1>9. ASSUME NEW m \in Node, PveClusterStarts(m) \/ UnitStarts(m) PROVE Starter(n)'
  BY <1>1, <1>9 DEF PveClusterStarts, UnitStarts, hostVars, Hosts
<1>10. ASSUME NEW m \in Node, OsdCreate(m) PROVE Starter(n)'
  <2>1. CASE m = n
    <3>1. CASE UNCHANGED <<disk, osd>>
      BY <1>1, <1>10, <2>1, <3>1 DEF OsdCreate, Hosts
    <3>2. CASE disk' = [disk EXCEPT ![n] = Disk("half", 0)]
      BY <3>2, DiskTypes DEF TypeOK, Hosts
    <3>3. n \notin osd'
      OBVIOUS
    <3> QED
      BY <1>10, <2>1, <3>1, <3>2, <3>3 DEF OsdCreate
  <2>2. CASE m # n
    <3>1. disk'[n] = disk[n]
      BY <1>10, <2>2 DEF OsdCreate, TypeOK
    <3> QED
      BY <1>1, <1>10, <2>2, <3>1 DEF OsdCreate, Hosts
  <2> QED
    BY <2>1, <2>2
<1>11. ASSUME NEW m \in Node, Activate(m) PROVE Starter(n)'
  <2>1. Hosts(n)
    BY <1>11 DEF Activate, hostVars, Hosts
  <2>2. CASE m = n
    BY <1>11, <2>1, <2>2, ServiceTypes DEF Activate, TypeOK
  <2>3. CASE m # n
    BY <1>1, <1>11, <2>1, <2>3 DEF Activate, TypeOK
  <2> QED
    BY <2>2, <2>3
<1>12. ASSUME NEW m \in Node, ReattachWaits(m) PROVE Starter(n)'
  <2>1. Idle(n) /\ ceph # 0
    BY <1>12 DEF ReattachWaits, hostVars, Hosts
  <2>2. CASE m = n
    BY <1>12, <2>1, <2>2, ServiceTypes DEF ReattachWaits, TypeOK
  <2>3. CASE m # n
    BY <1>1, <1>12, <2>1, <2>3 DEF ReattachWaits, TypeOK
  <2> QED
    BY <2>2, <2>3
<1>13. CASE UNCHANGED vars
  BY <1>1, <1>13 DEF vars, hostVars, nodeVars, Hosts
<1> QED
  BY <1>2, <1>3, <1>4, <1>5, <1>6, <1>7, <1>8, <1>9, <1>10, <1>11, <1>12, <1>13
     DEF Next, Up, Rebuild, Renewed

\* After every recreate, restart and reboot an OSD that does not run has the
\* reattach service of this boot still before it, or that service has given up
\* or failed to activate it: no OSD is down because nothing was tried.
THEOREM OsdsAreNotForgotten == Spec => []OsdsHaveAStarter
<1>1. Init => OsdsHaveAStarter
  BY DEF Init, OsdsHaveAStarter
<1>2. TypeOK /\ OsdsHaveAStarter /\ [Next]_vars => OsdsHaveAStarter'
  BY StarterStep
<1> QED
  BY <1>1, <1>2, OsdsTypeCorrect, PTL DEF Spec
=============================================================================
