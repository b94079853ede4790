----------------------------- MODULE DockerOsds -----------------------------
(***************************************************************************)
(* The life of the Ceph OSDs of the Docker deployment.  Their disks are    *)
(* files of the host behind loop devices (setup-loop-osds.sh), mapped into *)
(* the containers by the overlay of gen-ceph.sh; ceph-osd-create.sh makes  *)
(* an OSD of a disk; ceph-reattach.sh starts the daemons again in a        *)
(* container that was recreated.  Files outlive `make clean`, loop devices *)
(* do not outlive a reboot, and the systemd units do not outlive the       *)
(* container.  One disk per node.                                          *)
(***************************************************************************)
EXTENDS Naturals

CONSTANTS Node,         \* the nodes of the compose files
          Patience,     \* the polls of ceph-reattach.sh for ceph.conf (60)
          MaxMishaps    \* bounds reboots, restarts, rebuilds and teardowns

ASSUME OsdsAssumption == Patience \in Nat \ {0} /\ MaxMishaps \in Nat

VARIABLES disk,         \* disk[n]: what the backing file holds
          linked,       \* the nodes whose file has its loop device and link
          overlay,      \* docker-compose.ceph.yml exists
          made,         \* the nodes that have a container
          mapped,       \* ... created with the device
          ctr,          \* ... that runs
          units,        \* ... on whose filesystem the OSD's units are enabled
          fenced,       \* ... in whose present boot LVM was fenced to its device
          mounted,      \* the nodes whose pmxcfs is mounted
          ceph,         \* the Ceph cluster of /etc/pve/ceph.conf, 0 for none
          founded,      \* how many Ceph clusters there ever were
          reattach,     \* reattach[n]: the boot service, and its polls
          osd,          \* the nodes whose OSD daemon runs
          mishaps

hostVars == <<disk, linked, overlay>>
nodeVars == <<made, mapped, ctr, units, fenced, mounted, reattach, osd>>
vars == <<hostVars, nodeVars, ceph, founded, mishaps>>

Disk(has, of) == [has |-> has, of |-> of]
Disks == [has : {"none", "blank", "half", "osd"}, of : 0..founded]

\* "done", "gaveup" and "failed" are one to the code, which exits 0: "gaveup" and
\* "failed" record that it ended without ceph.conf, or without the OSD.
Service(at, polls) == [at |-> at, polls |-> polls]
Services == [at : {"off", "waiting", "done", "gaveup", "failed"}, polls : 0..(Patience - 1)]

TypeOK ==
    /\ disk \in [Node -> Disks]
    /\ linked \subseteq {n \in Node : disk[n].has # "none"}
    /\ overlay \in BOOLEAN
    /\ made \subseteq Node /\ mapped \subseteq made /\ units \subseteq made
    /\ ctr \subseteq made /\ mounted \subseteq ctr
    /\ osd \subseteq ctr \cap mapped /\ fenced \subseteq ctr \cap mapped
    /\ founded \in 0..(MaxMishaps + 1) /\ ceph \in {0, founded}
    /\ reattach \in [Node -> Services]
    /\ mishaps \in 0..MaxMishaps

Init ==
    /\ disk = [n \in Node |-> Disk("none", 0)]
    /\ linked = {} /\ overlay = FALSE
    /\ made = {} /\ mapped = {} /\ ctr = {} /\ units = {} /\ mounted = {} /\ osd = {}
    /\ fenced = {} /\ ceph = 0 /\ founded = 0
    /\ reattach = [n \in Node |-> Service("off", 0)]
    /\ mishaps = 0

Mishap == mishaps < MaxMishaps /\ mishaps' = mishaps + 1

\* The disk holds an OSD of the current Ceph cluster.
Hosts(n) == ceph # 0 /\ disk[n] = Disk("osd", ceph)

------------------------------------------------------------------------------
\* The host.

\* setup-loop-osds.sh makes the files that are missing, attaches and links the
\* ones that are not, and leaves the others alone; gen-ceph.sh follows.
CephDevices ==
    /\ linked # Node \/ ~overlay
    /\ disk' = [n \in Node |-> IF disk[n].has = "none" THEN Disk("blank", 0) ELSE disk[n]]
    /\ linked' = Node /\ overlay' = TRUE
    /\ UNCHANGED <<nodeVars, ceph, founded, mishaps>>

\* make ceph-devices-clean, run with the containers down.
CephDevicesClean ==
    /\ ctr = {} /\ Mishap
    /\ disk' = [n \in Node |-> Disk("none", 0)]
    /\ linked' = {} /\ overlay' = FALSE
    /\ UNCHANGED <<nodeVars, ceph, founded>>

\* Mutant of Stopped: the OSD daemon is taken to outlive its container.
Mutant_StoppedKeepsOsd(S) ==
    /\ ctr' = ctr \ S /\ mounted' = mounted \ S /\ UNCHANGED osd
    /\ fenced' = fenced \ S
    /\ reattach' = [n \in Node |-> IF n \in S THEN Service("off", 0) ELSE reattach[n]]

\* The containers of S stop.
Stopped(S) ==
    /\ ctr' = ctr \ S /\ mounted' = mounted \ S /\ osd' = osd \ S
    /\ fenced' = fenced \ S
    /\ reattach' = [n \in Node |-> IF n \in S THEN Service("off", 0) ELSE reattach[n]]

\* Loop devices and the links in /dev do not survive a reboot; a container with
\* a device that is missing cannot be started by its restart policy.
Reboot ==
    /\ Mishap
    /\ linked' = {}
    /\ Stopped(Node)
    /\ UNCHANGED <<disk, overlay, made, mapped, units, ceph, founded>>

------------------------------------------------------------------------------
\* docker compose.

\* Mutant of Boots: the reattach service is not enabled in the image.
Mutant_BootsWithoutService(S) ==
    /\ \E F \in SUBSET (S \cap mapped') : fenced' = ((fenced \cap ctr') \ S) \cup F
    /\ UNCHANGED reattach

\* A container of S boots: the entrypoint fences LVM to its device, or goes on
\* with a warning when that fails; systemd starts the reattach service.
Boots(S) ==
    /\ \E F \in SUBSET (S \cap mapped') : fenced' = ((fenced \cap ctr') \ S) \cup F
    /\ reattach' = [n \in Node |-> IF n \in S THEN Service("waiting", 0) ELSE reattach[n]]

\* Docker starts a container when its device is there.
Startable == IF overlay THEN linked ELSE Node

\* compose up -d creates what is missing, recreates what is defined otherwise
\* (or, after a rebuild, everything) and starts what is stopped.
Renewed(rebuilt) ==
    IF rebuilt THEN Node
    ELSE {n \in Node : n \notin made \/ (n \in mapped) # overlay}

ComposeUp(renewed) ==
    /\ made' = Node
    /\ mapped' = IF overlay THEN mapped \cup renewed ELSE mapped \ renewed
    /\ units' = units \ renewed
    /\ ctr' = (ctr \ renewed) \cup Startable
    /\ mounted' = mounted \ renewed
    /\ osd' = osd \ renewed
    /\ Boots((renewed \cup (Node \ ctr)) \cap Startable)
    /\ UNCHANGED <<hostVars, ceph, founded>>

Up ==
    /\ Renewed(FALSE) # {} \/ ~(Startable \subseteq ctr)
    /\ ComposeUp(Renewed(FALSE))
    /\ UNCHANGED mishaps

Rebuild == Mishap /\ ComposeUp(Renewed(TRUE))

\* A container restarts on its own filesystem, if its device is there.
Restart(n) ==
    /\ n \in ctr /\ (n \in mapped => n \in linked) /\ Mishap
    /\ mounted' = mounted \ {n} /\ osd' = osd \ {n}
    /\ UNCHANGED <<hostVars, made, mapped, ctr, units, ceph, founded>>
    /\ Boots({n})

Removed ==
    /\ made' = {} /\ mapped' = {} /\ units' = {}
    /\ Stopped(Node)

Down ==
    /\ made # {} /\ Mishap
    /\ Removed
    /\ UNCHANGED <<hostVars, ceph, founded>>

\* make clean removes the volumes, and ceph.conf with them; not the files.
Clean ==
    /\ made # {} /\ Mishap
    /\ Removed
    /\ ceph' = 0
    /\ UNCHANGED <<hostVars, founded>>

------------------------------------------------------------------------------
\* In the containers.

PveClusterStarts(n) ==
    /\ n \in ctr \ mounted
    /\ mounted' = mounted \cup {n}
    /\ UNCHANGED <<hostVars, made, mapped, ctr, units, fenced, reattach, osd, ceph, founded, mishaps>>

\* /etc/pve/ceph.conf is there.
Conf(n) == n \in mounted /\ ceph # 0

\* pveceph init (external).
CephInit ==
    /\ ceph = 0 /\ mounted # {}
    /\ founded < MaxMishaps + 1
    /\ founded' = founded + 1 /\ ceph' = founded + 1
    /\ UNCHANGED <<hostVars, nodeVars, mishaps>>

\* An enabled unit may start its OSD (external: it scans LVM as the service
\* does); a daemon whose cluster is gone does not stay up.
UnitStarts(n) ==
    /\ n \in units \ osd /\ Conf(n) /\ Hosts(n)
    /\ n \in ctr \cap mapped
    /\ osd' = osd \cup {n}
    /\ UNCHANGED <<hostVars, made, mapped, ctr, units, fenced, mounted, reattach, ceph, founded, mishaps>>

\* Mutant of OsdCreate: the pvs check is dropped.
Mutant_OsdCreateNoCheck(n) ==
    /\ n \in ctr \cap mapped /\ Conf(n)
    /\ disk' = [disk EXCEPT ![n] = Disk("osd", ceph)]
    /\ osd' = osd \cup {n} /\ units' = units \cup {n} /\ fenced' = fenced \cup {n}
    /\ UNCHANGED <<linked, overlay, made, mapped, ctr, mounted, reattach, ceph, founded, mishaps>>

\* ceph-osd-create: fences LVM; skips a disk with a Ceph volume group, whether
\* its OSD runs or not; ceph-volume (external) may fail before or after it has
\* made one.
OsdCreate(n) ==
    /\ n \in ctr \cap mapped /\ Conf(n)
    /\ fenced' = fenced \cup {n}
    /\ \/ /\ disk[n].has = "blank"
          /\ disk' = [disk EXCEPT ![n] = Disk("osd", ceph)]
          /\ osd' = osd \cup {n} /\ units' = units \cup {n}
          /\ UNCHANGED mishaps
       \/ /\ disk[n].has = "blank"
          /\ disk' = [disk EXCEPT ![n] = Disk("half", 0)]
          /\ Mishap
          /\ UNCHANGED <<osd, units>>
       \/ /\ disk[n].has # "blank"
          /\ UNCHANGED <<disk, osd, units, mishaps>>
    /\ UNCHANGED <<linked, overlay, made, mapped, ctr, mounted, reattach, ceph, founded>>

\* Mutant of Activate: only units that are still enabled are started.
Mutant_ActivateEnabledOnly(n) ==
    /\ reattach[n].at = "waiting" /\ Conf(n)
    /\ reattach' = [reattach EXCEPT ![n] = Service("done", 0)]
    /\ osd' = IF n \in mapped \cap units /\ Hosts(n) THEN osd \cup {n} ELSE osd
    /\ UNCHANGED <<hostVars, made, mapped, ctr, units, fenced, mounted, ceph, founded, mishaps>>

\* ceph-reattach: waits for ceph.conf, then ceph-volume lvm activate --all
\* (external) enables and starts every OSD whose disk is there.  It may fail,
\* at no cost to the bound where the fence of this boot did; its status is
\* dropped and the service ends, for good until the next boot.
Activate(n) ==
    /\ reattach[n].at = "waiting" /\ Conf(n)
    /\ LET found == n \in mapped /\ Hosts(n) IN
          \/ /\ reattach' = [reattach EXCEPT ![n] = Service("done", 0)]
             /\ osd' = IF found THEN osd \cup {n} ELSE osd
             /\ units' = IF found THEN units \cup {n} ELSE units
             /\ UNCHANGED mishaps
          \/ /\ found /\ n \notin osd
             /\ reattach' = [reattach EXCEPT ![n] = Service("failed", 0)]
             /\ units' \in {units, units \cup {n}}
             /\ IF n \in fenced THEN Mishap ELSE UNCHANGED mishaps
             /\ UNCHANGED osd
    /\ UNCHANGED <<hostVars, made, mapped, ctr, fenced, mounted, ceph, founded>>

\* No ceph.conf yet: polls again or exits 0, for good until the next boot.
ReattachWaits(n) ==
    /\ reattach[n].at = "waiting" /\ ~Conf(n)
    /\ reattach' = [reattach EXCEPT ![n] =
          IF reattach[n].polls + 1 < Patience THEN Service("waiting", reattach[n].polls + 1)
          ELSE Service(IF ceph = 0 THEN "done" ELSE "gaveup", 0)]
    /\ UNCHANGED <<hostVars, made, mapped, ctr, units, fenced, mounted, osd, ceph, founded, mishaps>>

Next ==
    \/ CephDevices \/ CephDevicesClean \/ Reboot
    \/ Up \/ Rebuild \/ Down \/ Clean \/ CephInit
    \/ \E n \in Node :
          \/ Restart(n) \/ PveClusterStarts(n) \/ UnitStarts(n) \/ OsdCreate(n)
          \/ Activate(n) \/ ReattachWaits(n)

Spec == Init /\ [][Next]_vars

\* The user re-runs `make ceph-devices` and `make up`, the services run.
FairSpec ==
    /\ Spec
    /\ WF_vars(CephDevices) /\ WF_vars(Up)
    /\ \A n \in Node :
          WF_vars(PveClusterStarts(n)) /\ WF_vars(Activate(n))

------------------------------------------------------------------------------
\* The data of an OSD is never overwritten: only `make ceph-devices-clean`
\* takes it away, whatever is run again after reboots, rebuilds and teardowns.
OsdDataKept ==
    [][\A n \in Node : disk[n].has = "osd" => disk'[n] \in {disk[n], Disk("none", 0)}]_vars

\* An OSD that does not run in a container with its device has the reattach
\* service of this boot still before it, or that service has ended without it,
\* having given up or failed: whatever was recreated, restarted or rebooted in
\* between, although the units are lost with the container, the service runs
\* once per boot, ceph.conf comes late, and ceph-osd-create only skips the disk.
OsdsHaveAStarter ==
    \A n \in Node :
        (n \in (ctr \cap mapped) \ osd /\ Hosts(n)) =>
            reattach[n].at \in {"waiting", "gaveup", "failed"}

\* An OSD of the current cluster runs again after every recreate, restart and
\* reboot, unless the reattach service of its node gave up waiting for pmxcfs or
\* its activation failed, whose status is dropped and which is not tried again.
OsdsComeBack ==
    \A n \in Node : <>[](Hosts(n) => n \in osd \/ reattach[n].at \in {"gaveup", "failed"})
=============================================================================
