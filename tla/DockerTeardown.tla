--------------------------- MODULE DockerTeardown ---------------------------
(***************************************************************************)
(* `make down` and `make clean` on a Docker cluster with Ceph: stop-guests *)
(* stops the guests of nodes 1..NODES and unmaps their RBD devices, then   *)
(* docker compose takes down every container, the OSDs with them.  The     *)
(* block layer is the host's and udev makes a node for every RBD device in *)
(* every container, so the unmap loop of a container goes through the      *)
(* devices of all nodes, with the shim rbd-unmap-retry.sh, which waits for *)
(* a device the kernel still flushes, and outlives the docker exec that    *)
(* started it.  Time is counted in the shim's delays.                      *)
(***************************************************************************)
EXTENDS Naturals

CONSTANTS MaxNodes,     \* the nodes of the compose files
          MaxDevs,      \* the RBD devices of the host, one for each guest
          Retries,      \* RBD_UNMAP_RETRIES, the attempts of the shim (30)
          Budget,       \* the delays in the timeout of docker exec (60 s / 2 s)
          MaxSettle     \* the delays a device may stay busy once unmounted

ASSUME TeardownAssumption ==
    /\ MaxNodes \in Nat \ {0} /\ MaxDevs \in Nat \ {0}
    /\ Retries \in Nat \ {0} /\ Budget \in Nat \ {0} /\ MaxSettle \in Nat

Node == 1..MaxNodes
Dev == 1..MaxDevs       \* /dev/rbd0, /dev/rbd1, ... in the order of the glob

VARIABLES nodes,        \* NODES, 3 unless the user sets it
          at,           \* where make is
          here,         \* the node, and
          guest,        \* the guest, by its device, its loops are at
          elapsed,      \* the delays the docker exec has lasted
          home,         \* the node whose guest has the device
          dev,          \* "mounted", "settling" or "unmapped"
          settle,       \* the delays a settling device stays busy
          loop,         \* the unmap loop in each container
          asked,        \* the devices whose pct stop goes on in the background
          slow,         \* the devices not freed in time, a history variable
          up            \* the nodes whose container runs

vars == <<nodes, at, here, guest, elapsed, home, dev, settle, loop, asked, slow, up>>

\* The loop is at a device and an attempt of the shim, about to try or asleep.
Loops == [dev : 1..(MaxDevs + 1), attempt : 1..Retries, asleep : BOOLEAN]
NoLoop == [dev |-> MaxDevs + 1, attempt |-> 1, asleep |-> FALSE]

TypeOK ==
    /\ nodes \in Node
    /\ at \in {"stop", "exec", "unmap", "down", "done"}
    /\ here \in Node /\ guest \in Dev /\ elapsed \in 0..Budget
    /\ home \in [Dev -> Node]
    /\ dev \in [Dev -> {"mounted", "settling", "unmapped"}]
    /\ settle \in [Dev -> 0..MaxSettle]
    /\ loop \in [Node -> Loops]
    /\ asked \subseteq Dev /\ slow \subseteq Dev
    /\ up \subseteq Node

\* A guest runs in a container that does; a device may be left from one that
\* is gone.  The guests of the nodes beyond NODES are never stopped.
Init ==
    /\ nodes \in Node
    /\ at = "stop" /\ here = 1 /\ guest = 1 /\ elapsed = 0
    /\ up \in SUBSET Node
    /\ home \in [Dev -> Node]
    /\ dev \in [Dev -> {"mounted", "settling", "unmapped"}]
    /\ \A d \in Dev : dev[d] = "mounted" => home[d] \in up
    /\ settle = [d \in Dev |-> 0]
    /\ loop = [n \in Node |-> NoLoop]
    /\ asked = {}
    /\ slow = {d \in Dev : dev[d] = "mounted" /\ home[d] > nodes}

SetDev(d, state) == dev' = [dev EXCEPT ![d] = state]

\* The guest of a device has stopped: the kernel flushes it for t delays.
\* Past the attempts of the shim or the budget of the exec that is too slow.
Unmounted(d, t) ==
    /\ SetDev(d, "settling")
    /\ settle' = [settle EXCEPT ![d] = t]

TooSlow(t) == t >= Retries \/ t >= Budget

------------------------------------------------------------------------------
\* The first loop of stop-guests.

NextGuest ==
    IF guest < MaxDevs THEN guest' = guest + 1 /\ UNCHANGED <<at, here>>
    ELSE /\ guest' = 1
         /\ IF here < nodes THEN here' = here + 1 /\ UNCHANGED at
            ELSE here' = 1 /\ at' = "exec"

\* A guest of the node `here`, which pct list names and pct stop can stop.
Guest(d) == home[d] = here /\ dev[d] = "mounted"

\* The device has no such guest, or the node has no container.
NoGuest ==
    /\ at = "stop" /\ ~Guest(guest)
    /\ NextGuest
    /\ UNCHANGED <<nodes, elapsed, home, dev, settle, loop, asked, slow, up>>

\* pct stop (external) ends in time.
PctStop ==
    /\ at = "stop" /\ Guest(guest)
    /\ \E t \in 0..MaxSettle :
          /\ Unmounted(guest, t)
          /\ slow' = IF TooSlow(t) THEN slow \cup {guest} ELSE slow
    /\ NextGuest
    /\ UNCHANGED <<nodes, elapsed, home, loop, asked, up>>

\* Mutant of PctStopTimesOut: no timeout around pct stop.
Mutant_PctStopTimesOutNever == FALSE /\ UNCHANGED vars

\* `timeout 90 ... || true`: make goes on, pct stop may still finish.
PctStopTimesOut ==
    /\ at = "stop" /\ Guest(guest)
    /\ asked' = asked \cup {guest}
    /\ slow' = slow \cup {guest}
    /\ NextGuest
    /\ UNCHANGED <<nodes, elapsed, home, dev, settle, loop, up>>

\* pct list (external) fails or times out: no guest of this node is stopped.
PctListFails ==
    /\ at = "stop" /\ guest = 1 /\ here \in up
    /\ slow' = slow \cup {d \in Dev : Guest(d)}
    /\ IF here < nodes THEN here' = here + 1 /\ UNCHANGED at
       ELSE here' = 1 /\ at' = "exec"
    /\ UNCHANGED <<nodes, guest, elapsed, home, dev, settle, loop, asked, up>>

\* A stop that outlived its client: the guest stops after all, and Proxmox
\* itself unmaps its device (external).
LateStop(d) ==
    /\ d \in asked /\ at # "done" /\ dev[d] = "mounted"
    /\ \E t \in 0..MaxSettle : Unmounted(d, t)
    /\ UNCHANGED <<nodes, at, here, guest, elapsed, home, loop, asked, slow, up>>

LateUnmap(d) ==
    /\ d \in asked /\ at # "done" /\ dev[d] = "settling" /\ settle[d] = 0
    /\ SetDev(d, "unmapped")
    /\ UNCHANGED <<nodes, at, here, guest, elapsed, home, settle, loop, asked, slow, up>>

------------------------------------------------------------------------------
\* The second loop of stop-guests: one docker exec per node.

Running(n) == loop[n].dev <= MaxDevs

NextNode ==
    IF here < nodes THEN here' = here + 1 /\ at' = "exec"
    ELSE here' = 1 /\ at' = "down"

\* docker inspect finds no container: `continue`.
NoContainer ==
    /\ at = "exec" /\ here \notin up
    /\ NextNode
    /\ UNCHANGED <<nodes, guest, elapsed, home, dev, settle, loop, asked, slow, up>>

\* The loop of this container starts with the first device of the host,
\* whichever node it belongs to.
Exec ==
    /\ at = "exec" /\ here \in up
    /\ loop' = [loop EXCEPT ![here] = [NoLoop EXCEPT !.dev = 1]]
    /\ at' = "unmap"
    /\ UNCHANGED <<nodes, here, guest, elapsed, home, dev, settle, asked, slow, up>>

ExecEnds ==
    /\ at = "unmap" /\ ~Running(here)
    /\ NextNode
    /\ elapsed' = 0
    /\ UNCHANGED <<nodes, guest, home, dev, settle, loop, asked, slow, up>>

\* `timeout 60` kills the client; the loop in the container goes on.
ExecTimesOut ==
    /\ at = "unmap" /\ Running(here) /\ elapsed = Budget
    /\ NextNode
    /\ elapsed' = 0
    /\ UNCHANGED <<nodes, guest, home, dev, settle, loop, asked, slow, up>>

\* The shim, one attempt.  Busy is a mounted or a flushing device; one that
\* another container unmapped is gone from /dev or from the kernel: no retry.
Busy(d) == dev[d] = "mounted" \/ (dev[d] = "settling" /\ settle[d] > 0)

NextDev(n) == loop' = [loop EXCEPT ![n] = [NoLoop EXCEPT !.dev = loop[n].dev + 1]]

\* Mutant of Attempt: the bound on the attempts is dropped.
Mutant_AttemptUnbounded(n) ==
    /\ Running(n) /\ ~loop[n].asleep /\ n \in up
    /\ LET d == loop[n].dev IN
          IF Busy(d)
          THEN /\ loop' = [loop EXCEPT ![n] = [dev |-> d, asleep |-> TRUE,
                                              attempt |-> loop[n].attempt + 1]]
               /\ UNCHANGED dev
          ELSE SetDev(d, "unmapped") /\ NextDev(n)
    /\ UNCHANGED <<nodes, at, here, guest, elapsed, home, settle, asked, slow, up>>

\* Mutant of Attempt: the attempts are not counted.
Mutant_AttemptForEver(n) ==
    /\ Running(n) /\ ~loop[n].asleep /\ n \in up
    /\ LET d == loop[n].dev IN
          IF Busy(d)
          THEN loop' = [loop EXCEPT ![n].asleep = TRUE] /\ UNCHANGED dev
          ELSE SetDev(d, "unmapped") /\ NextDev(n)
    /\ UNCHANGED <<nodes, at, here, guest, elapsed, home, settle, asked, slow, up>>

\* Mutant of Attempt: a busy device is an error like any other.
Mutant_AttemptOnce(n) ==
    /\ Running(n) /\ ~loop[n].asleep /\ n \in up
    /\ NextDev(n)
    /\ IF Busy(loop[n].dev) THEN UNCHANGED dev
       ELSE SetDev(loop[n].dev, "unmapped")
    /\ UNCHANGED <<nodes, at, here, guest, elapsed, home, settle, asked, slow, up>>

Attempt(n) ==
    /\ Running(n) /\ ~loop[n].asleep /\ n \in up
    /\ LET d == loop[n].dev IN
          IF Busy(d)
          THEN /\ IF loop[n].attempt >= Retries
                  THEN NextDev(n)               \* gives up, the loop goes on
                  ELSE loop' = [loop EXCEPT ![n] = [dev |-> d, asleep |-> TRUE,
                                                    attempt |-> loop[n].attempt + 1]]
               /\ UNCHANGED dev
          ELSE /\ SetDev(d, "unmapped")
               /\ NextDev(n)
    /\ UNCHANGED <<nodes, at, here, guest, elapsed, home, settle, asked, slow, up>>

\* One delay passes once every loop sleeps; the kernel flushes meanwhile, as
\* long as there are OSDs to flush to.
Delay ==
    /\ \E n \in up : Running(n)
    /\ \A n \in up : Running(n) => loop[n].asleep
    /\ at = "unmap" => elapsed < Budget
    /\ elapsed' = IF at = "unmap" THEN elapsed + 1 ELSE elapsed
    /\ loop' = [n \in Node |-> [loop[n] EXCEPT !.asleep = FALSE]]
    /\ settle' = [d \in Dev |-> IF at # "done" /\ settle[d] > 0 THEN settle[d] - 1
                                ELSE settle[d]]
    /\ UNCHANGED <<nodes, at, here, guest, home, dev, asked, slow, up>>

\* docker compose down, of every node: with the OSDs gone nothing flushes any
\* more, and the container whose guest has a busy device cannot be stopped.
ComposeDown ==
    /\ at = "down"
    /\ up' = {n \in up : \E d \in Dev : home[d] = n /\ Busy(d)}
    /\ loop' = [n \in Node |-> IF n \in up' THEN loop[n] ELSE NoLoop]
    /\ at' = "done"
    /\ UNCHANGED <<nodes, here, guest, elapsed, home, dev, settle, asked, slow>>

StopGuests == NoGuest \/ PctStopTimesOut \/ NoContainer \/ Exec \/ ExecEnds \/ ExecTimesOut

Next ==
    \/ StopGuests \/ PctStop \/ PctListFails
    \/ \E d \in Dev : LateStop(d) \/ LateUnmap(d)
    \/ \E n \in Node : Attempt(n)
    \/ Delay
    \/ ComposeDown

Spec == Init /\ [][Next]_vars

\* make, its timeouts, the shims and the clock go on; the guests and the
\* kernel promise nothing.
FairSpec ==
    /\ Spec
    /\ WF_vars(StopGuests) /\ WF_vars(ComposeDown) /\ WF_vars(Delay)
    /\ \A n \in Node : WF_vars(Attempt(n))

------------------------------------------------------------------------------
\* When docker compose takes the OSDs away although a covered node had a
\* container to unmap from, a device is still mapped only if it, or one before
\* it, was not freed in time: its guest was not stopped, or it flushed for
\* longer than the shim and the timeout wait.  The slow device may be of any
\* node, of one beyond NODES too: each loop goes through all of them.  But a
\* device that is freed in time and has no slow one before it is unmapped,
\* whatever comes after it and in whatever order the loops get to it.
LeftMapped(d) == at = "down" /\ dev[d] # "unmapped"

LeftMappedHasCause ==
    (\E n \in 1..nodes : n \in up) =>
        \A d \in Dev : LeftMapped(d) => \E e \in 1..d : e \in slow

\* make down gets to docker compose down although a guest never stops or a
\* device is never flushed: every wait has its timeout.
DownIsReached == <>(at = "done")

\* Every shim ends, in a container that outlives docker compose down too.
ShimsEnd == \A n \in Node : Running(n) ~> ~Running(n)
=============================================================================
