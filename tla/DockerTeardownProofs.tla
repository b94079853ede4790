------------------------ MODULE DockerTeardownProofs ------------------------
(***************************************************************************)
(* Proofs about DockerTeardown, for any number of nodes and devices, any   *)
(* number of attempts of the shim, any timeout of the docker exec and any  *)
(* time the kernel takes.                                                  *)
(***************************************************************************)
EXTENDS DockerTeardown, TLAPS

------------------------------------------------------------------------------
(* The inductive invariant.  Until docker compose takes the containers      *)
(* down, it says of every device that is not slow how much time it can      *)
(* still take, and of every covered node with a container how far its loop  *)
(* over the devices of all nodes is.                                        *)

\* The first loop of stop-guests is past the guest of device d.
Visited(d) == at # "stop" \/ home[d] < here \/ (home[d] = here /\ d < guest)

\* The docker exec on node n is under way; it has ended or was given up.
Current(n) == at = "unmap" /\ n = here
Served(n)  == at = "down" \/ (at \in {"exec", "unmap"} /\ n < here)

\* No device up to d, of whatever node, was slow.
Fast(d) == \A e \in 1..d : e \notin slow

\* A device that is not slow: its guest is one that make stops, once visited it
\* is stopped, and the flush is shorter than the attempts and the timeout.
DevSound(d) ==
    /\ d \notin asked
    /\ dev[d] = "mounted" => home[d] <= nodes
    /\ Visited(d) => dev[d] # "mounted"
    /\ settle[d] < Retries /\ settle[d] < Budget

\* What the loop of node n has done, or has still time for, with such a device:
\* behind the loop it is unmapped; while the loop sleeps on it, it flushes.
InTime(n, d) ==
    /\ (Current(n) /\ settle[d] > 0) => settle[d] + elapsed < Budget
    /\ d < loop[n].dev => dev[d] = "unmapped"
    /\ d = loop[n].dev =>
           IF loop[n].asleep
           THEN settle[d] > 0 /\ settle[d] + loop[n].attempt <= Retries + 1
           ELSE settle[d] + loop[n].attempt <= Retries

\* When the exec on a node has ended, or its time is over, the loop is past
\* every device that neither was slow nor comes after one that was.
PastFast(n, d) ==
    (Fast(d) /\ (Served(n) \/ (Current(n) /\ elapsed = Budget))) => d < loop[n].dev

LoopSound(n) ==
    /\ ~(Served(n) \/ Current(n)) => loop[n].dev = MaxDevs + 1
    /\ Served(n) \/ Current(n) => \A d \in Dev \ slow : InTime(n, d)
    /\ \A d \in Dev : PastFast(n, d)

MakeSound ==
    /\ at \in {"stop", "exec", "unmap"} => here <= nodes
    /\ at = "unmap" => here \in up
    /\ at # "unmap" => elapsed = 0

Covered == {n \in 1..nodes : n \in up}

Inv ==
    /\ MakeSound
    /\ at # "done" => /\ \A d \in Dev \ slow : DevSound(d)
                      /\ \A n \in Covered : LoopSound(n)
------------------------------------------------------------------------------
(* Types.                                                                   *)

States == {"mounted", "settling", "unmapped"}

\* A loop that goes to its next device has the type of a loop.
LEMMA LoopTypes ==
    /\ NoLoop \in Loops
    /\ \A d \in 1..(MaxDevs + 1) : [NoLoop EXCEPT !.dev = d] \in Loops
    /\ \A l \in Loops : [l EXCEPT !.asleep = FALSE] \in Loops
<1>1. MaxDevs + 1 \in 1..(MaxDevs + 1) /\ 1 \in 1..Retries
  BY TeardownAssumption
<1> QED
  BY <1>1 DEF NoLoop, Loops

LEMMA InitTypeOK == Init => TypeOK
<1> SUFFICES ASSUME Init PROVE TypeOK
  OBVIOUS
<1>1. 1 \in Node /\ 1 \in Dev /\ 0 \in 0..Budget /\ 0 \in 0..MaxSettle
  BY TeardownAssumption DEF Node, Dev
<1> QED
  BY <1>1, LoopTypes DEF Init, TypeOK

\* Where the first loop of stop-guests goes on.
LEMMA NextGuestType ==
    ASSUME TypeOK, NextGuest
    PROVE  /\ at' \in {at, "exec"} /\ here' \in Node /\ guest' \in Dev
           /\ here <= nodes => here' <= nodes
<1>1. here \in Node /\ guest \in Dev /\ nodes \in Node /\ 1 \in Node /\ 1 \in Dev
  BY TeardownAssumption DEF TypeOK, Node, Dev
<1>2. CASE guest < MaxDevs
  <2>1. guest + 1 \in Dev
    BY <1>1, <1>2, TeardownAssumption DEF Dev
  <2> QED
    BY <1>1, <1>2, <2>1 DEF NextGuest
<1>3. CASE ~(guest < MaxDevs) /\ here < nodes
  <2>1. here + 1 \in Node /\ here + 1 <= nodes
    BY <1>1, <1>3, TeardownAssumption DEF Node
  <2> QED
    BY <1>1, <1>3, <2>1 DEF NextGuest
<1>4. CASE ~(guest < MaxDevs) /\ ~(here < nodes)
  <2>1. 1 <= nodes
    BY <1>1, TeardownAssumption DEF Node
  <2> QED
    BY <1>1, <1>4, <2>1 DEF NextGuest
<1> QED
  BY <1>2, <1>3, <1>4

LEMMA NextNodeType ==
    ASSUME TypeOK, NextNode
    PROVE  /\ at' \in {"exec", "down"} /\ here' \in Node
           /\ here <= nodes => here' <= nodes
BY TeardownAssumption DEF TypeOK, NextNode, Node

LEMMA UnmountedType ==
    ASSUME TypeOK, NEW d \in Dev, NEW t \in 0..MaxSettle, Unmounted(d, t)
    PROVE  dev' \in [Dev -> States] /\ settle' \in [Dev -> 0..MaxSettle]
BY DEF TypeOK, Unmounted, SetDev, States

LEMMA NextDevType ==
    ASSUME TypeOK, NEW n \in Node, Running(n), NextDev(n)
    PROVE  loop' \in [Node -> Loops]
<1>1. loop[n].dev + 1 \in 1..(MaxDevs + 1)
  BY TeardownAssumption DEF TypeOK, Loops, Running
<1>2. [NoLoop EXCEPT !.dev = loop[n].dev + 1] \in Loops
  BY <1>1, LoopTypes
<1> QED
  BY <1>2 DEF TypeOK, NextDev

LEMMA NextTypeOK ==
    ASSUME TypeOK, [Next]_vars
    PROVE  TypeOK'
<1>1. CASE NoGuest
  BY <1>1, NextGuestType DEF NoGuest, TypeOK
<1>2. CASE PctStop
  <2>1. PICK t \in 0..MaxSettle :
           /\ Unmounted(guest, t)
           /\ slow' = IF TooSlow(t) THEN slow \cup {guest} ELSE slow
    BY <1>2 DEF PctStop
  <2>2. slow' \subseteq Dev
    BY <2>1 DEF TypeOK
  <2>3. dev' \in [Dev -> States] /\ settle' \in [Dev -> 0..MaxSettle]
    BY <2>1, UnmountedType DEF TypeOK
  <2> QED
    BY <1>2, <2>2, <2>3, NextGuestType DEF PctStop, TypeOK, States
<1>3. CASE PctStopTimesOut
  BY <1>3, NextGuestType DEF PctStopTimesOut, TypeOK
<1>4. CASE PctListFails
  <2>1. slow' \subseteq Dev
    BY <1>4 DEF PctListFails, TypeOK
  <2>2. at' \in {"stop", "exec"} /\ here' \in Node
    BY <1>4, TeardownAssumption DEF PctListFails, TypeOK, Node
  <2> QED
    BY <1>4, <2>1, <2>2 DEF PctListFails, TypeOK
<1>5. ASSUME NEW d \in Dev, LateStop(d)
      PROVE  TypeOK'
  <2>1. PICK t \in 0..MaxSettle : Unmounted(d, t)
    BY <1>5 DEF LateStop
  <2> QED
    BY <1>5, <2>1, UnmountedType DEF LateStop, TypeOK, States
<1>6. ASSUME NEW d \in Dev, LateUnmap(d)
      PROVE  TypeOK'
  <2>1. dev' = [dev EXCEPT ![d] = "unmapped"] /\ dev \in [Dev -> States]
    BY <1>6 DEF LateUnmap, SetDev, TypeOK, States
  <2>2. dev' \in [Dev -> States]
    BY <2>1 DEF States
  <2> QED
    BY <1>6, <2>2 DEF LateUnmap, TypeOK, States
<1>7. CASE NoContainer
  BY <1>7, NextNodeType DEF NoContainer, TypeOK
<1>8. CASE Exec
  <2>1. [NoLoop EXCEPT !.dev = 1] \in Loops
    BY LoopTypes, TeardownAssumption
  <2> QED
    BY <1>8, <2>1 DEF Exec, TypeOK
<1>9. CASE ExecEnds
  BY <1>9, NextNodeType, TeardownAssumption DEF ExecEnds, TypeOK
<1>10. CASE ExecTimesOut
  BY <1>10, NextNodeType, TeardownAssumption DEF ExecTimesOut, TypeOK
<1>11. ASSUME NEW n \in Node, Attempt(n)
       PROVE  TypeOK'
  <2> DEFINE d == loop[n].dev
  <2>1. d \in Dev /\ Running(n)
    BY <1>11, TeardownAssumption DEF Attempt, Running, TypeOK, Loops, Dev
  <2>2. loop' \in [Node -> Loops]
    <3>1. CASE NextDev(n)
      BY <2>1, <3>1, NextDevType
    <3>2. CASE /\ loop[n].attempt < Retries
               /\ loop' = [loop EXCEPT ![n] = [dev |-> d, asleep |-> TRUE,
                                              attempt |-> loop[n].attempt + 1]]
      <4>1. d \in 1..(MaxDevs + 1) /\ loop[n].attempt \in 1..Retries
        BY DEF TypeOK, Loops
      <4>2. loop[n].attempt + 1 \in 1..Retries
        BY <3>2, <4>1, TeardownAssumption
      <4> HIDE DEF d
      <4>3. [dev |-> d, asleep |-> TRUE, attempt |-> loop[n].attempt + 1] \in Loops
        BY <4>1, <4>2 DEF Loops
      <4> QED
        BY <3>2, <4>3 DEF TypeOK
    <3>3. loop[n].attempt \in 1..Retries
      BY DEF TypeOK, Loops
    <3> QED
      BY <1>11, <3>1, <3>2, <3>3, TeardownAssumption DEF Attempt
  <2>3. dev' \in [Dev -> States]
    <3>1. dev' = dev \/ dev' = [dev EXCEPT ![d] = "unmapped"]
      BY <1>11 DEF Attempt, SetDev
    <3>2. dev \in [Dev -> States]
      BY DEF TypeOK, States
    <3> HIDE DEF d
    <3> QED
      BY <2>1, <3>1, <3>2 DEF States
  <2> QED
    BY <1>11, <2>2, <2>3 DEF Attempt, TypeOK, States
<1>12. CASE Delay
  <2>1. loop' \in [Node -> Loops]
    BY <1>12, LoopTypes DEF Delay, TypeOK
  <2>2. settle' \in [Dev -> 0..MaxSettle]
    BY <1>12, TeardownAssumption DEF Delay, TypeOK
  <2>3. elapsed' \in 0..Budget
    BY <1>12, TeardownAssumption DEF Delay, TypeOK
  <2> QED
    BY <1>12, <2>1, <2>2, <2>3 DEF Delay, TypeOK
<1>13. CASE ComposeDown
  BY <1>13, LoopTypes DEF ComposeDown, TypeOK
<1>14. CASE UNCHANGED vars
  BY <1>14 DEF vars, TypeOK
<1> QED
  BY <1>1, <1>2, <1>3, <1>4, <1>5, <1>6, <1>7, <1>8, <1>9, <1>10, <1>11, <1>12, <1>13, <1>14
     DEF Next, StopGuests

\* Every variable of the teardown keeps its type; in particular the shim makes
\* no more attempts than it may, and make waits no longer than its timeout.
THEOREM TeardownTypeCorrect == Spec => []TypeOK
BY InitTypeOK, NextTypeOK, PTL DEF Spec

------------------------------------------------------------------------------
(* The invariant, phase by phase.                                           *)

LEMMA NodeInNode ==
    ASSUME TypeOK, NEW n \in Covered
    PROVE  n \in Node /\ n \in Nat /\ n <= nodes /\ n \in up
BY TeardownAssumption DEF TypeOK, Node, Covered

LEMMA DevTypes ==
    ASSUME TypeOK, NEW d \in Dev
    PROVE  /\ d \in Nat /\ d >= 1 /\ d <= MaxDevs /\ d # MaxDevs + 1
           /\ home[d] \in Nat /\ home[d] >= 1 /\ settle[d] \in Nat
           /\ dev[d] \in States
BY TeardownAssumption DEF TypeOK, Node, Dev, States

LEMMA MakeTypes ==
    ASSUME TypeOK
    PROVE  /\ here \in Nat /\ here >= 1 /\ guest \in Nat /\ guest >= 1 /\ guest <= MaxDevs
           /\ nodes \in Nat /\ nodes >= 1 /\ MaxDevs \in Nat /\ elapsed \in Nat
BY TeardownAssumption DEF TypeOK, Node, Dev

LEMMA InitInv == Init => Inv
<1> SUFFICES ASSUME Init PROVE Inv
  OBVIOUS
<1>1. TypeOK
  BY InitTypeOK
<1>2. MakeSound
  BY TeardownAssumption DEF Init, MakeSound, Node
<1>3. ASSUME NEW d \in Dev \ slow PROVE DevSound(d)
  <2>1. home[d] \in Nat /\ home[d] >= 1 /\ d >= 1 /\ nodes \in Nat /\ d \in Nat
    BY <1>1, DevTypes, MakeTypes
  <2>2. ~Visited(d)
    BY <2>1 DEF Init, Visited
  <2>3. dev[d] = "mounted" => home[d] <= nodes
    BY <2>1 DEF Init
  <2> QED
    BY <2>2, <2>3, TeardownAssumption DEF Init, DevSound
<1>4. ASSUME NEW n \in Covered PROVE LoopSound(n)
  <2>1. n \in Node /\ at = "stop" /\ loop[n].dev = MaxDevs + 1
    BY <1>1, NodeInNode DEF Init, NoLoop
  <2>2. ~Served(n) /\ ~Current(n)
    BY <2>1 DEF Served, Current
  <2> QED
    BY <2>1, <2>2 DEF LoopSound, PastFast
<1> QED
  BY <1>2, <1>3, <1>4 DEF Inv

\* While stop-guests stops guests no unmap loop runs on a covered node.  A step
\* may touch a device that is not slow by letting it settle in time, and moves
\* on only past what is slow or no longer mounted.
LEMMA StopStep ==
    ASSUME TypeOK, TypeOK', Inv, at = "stop", at' \in {"stop", "exec"},
           UNCHANGED <<nodes, elapsed, home, loop, up>>,
           here' <= nodes, at' = "exec" => here' = 1, slow \subseteq slow',
           \A d \in Dev \ slow' :
               /\ d \in asked' => d \in asked
               /\ (Visited(d)' /\ home[d] <= nodes) => Visited(d) \/ dev'[d] # "mounted"
               /\ \/ dev'[d] = dev[d] /\ settle'[d] = settle[d]
                  \/ dev'[d] = "settling" /\ ~TooSlow(settle'[d])
    PROVE  Inv'
<1>1. MakeSound'
  BY DEF Inv, MakeSound
<1>2. ASSUME NEW d \in Dev \ slow' PROVE DevSound(d)'
  <2>1. DevSound(d) /\ d \in Dev
    BY <1>2 DEF Inv
  <2>2. settle'[d] \in Nat
    BY <2>1, TeardownAssumption DEF TypeOK
  <2>3. settle'[d] < Retries /\ settle'[d] < Budget
    BY <1>2, <2>1, <2>2, TeardownAssumption DEF DevSound, TooSlow
  <2>4. dev'[d] = "mounted" => home[d] <= nodes
    BY <1>2, <2>1 DEF DevSound
  <2>5. Visited(d)' => dev'[d] # "mounted"
    BY <1>2, <2>1, <2>4 DEF DevSound
  <2> QED
    BY <1>2, <2>1, <2>3, <2>4, <2>5 DEF DevSound
<1>3. ASSUME NEW n \in Covered' PROVE LoopSound(n)'
  <2>1. n \in Covered /\ n \in Nat
    BY <1>3, NodeInNode DEF Covered
  <2>2. ~Served(n) /\ ~Current(n) /\ ~Served(n)' /\ ~Current(n)'
    BY <2>1, NodeInNode DEF Served, Current, Covered
  <2>3. loop'[n].dev = MaxDevs + 1
    BY <2>1, <2>2 DEF Inv, LoopSound
  <2> QED
    BY <2>2, <2>3 DEF LoopSound, PastFast
<1> QED
  BY <1>1, <1>2, <1>3 DEF Inv

\* One guest further: only the one just visited is added to what was visited,
\* and the last of them leaves no guest of a covered node out.
LEMMA NextGuestVisits ==
    ASSUME TypeOK, NextGuest, at = "stop", here <= nodes, UNCHANGED home
    PROVE  /\ at' \in {"stop", "exec"} /\ here' <= nodes /\ (at' = "exec" => here' = 1)
           /\ \A d \in Dev : (Visited(d)' /\ home[d] <= nodes)
                                 => Visited(d) \/ (home[d] = here /\ d = guest)
<1>1. ASSUME NEW d \in Dev, Visited(d)', home[d] <= nodes
      PROVE  Visited(d) \/ (home[d] = here /\ d = guest)
  <2>1. CASE guest < MaxDevs
    BY <1>1, <2>1, DevTypes, MakeTypes DEF Visited, NextGuest
  <2>2. CASE ~(guest < MaxDevs) /\ here < nodes
    BY <1>1, <2>2, DevTypes, MakeTypes DEF Visited, NextGuest
  <2>3. CASE ~(guest < MaxDevs) /\ ~(here < nodes)
    BY <1>1, <2>3, DevTypes, MakeTypes DEF Visited, NextGuest
  <2> QED
    BY <2>1, <2>2, <2>3
<1>2. here' <= nodes
  BY NextGuestType
<1>3. at' \in {"stop", "exec"} /\ (at' = "exec" => here' = 1)
  BY DEF NextGuest
<1> QED
  BY <1>1, <1>2, <1>3

LEMMA NoGuestInv ==
    ASSUME TypeOK, TypeOK', Inv, NoGuest
    PROVE  Inv'
<1>1. at = "stop" /\ here <= nodes /\ NextGuest /\ ~Guest(guest)
      /\ UNCHANGED <<nodes, elapsed, home, dev, settle, loop, asked, slow, up>>
  BY DEF NoGuest, Inv, MakeSound
<1>2. ASSUME NEW d \in Dev \ slow', Visited(d)', home[d] <= nodes
      PROVE  Visited(d) \/ dev'[d] # "mounted"
  BY <1>1, <1>2, NextGuestVisits DEF Guest
<1> QED
  BY <1>1, <1>2, NextGuestVisits, StopStep

LEMMA PctStopInv ==
    ASSUME TypeOK, TypeOK', Inv, PctStop
    PROVE  Inv'
<1>1. at = "stop" /\ here <= nodes /\ NextGuest /\ Guest(guest) /\ guest \in Dev
      /\ UNCHANGED <<nodes, elapsed, home, loop, asked, up>>
  BY DEF PctStop, Inv, MakeSound, TypeOK
<1>2. PICK t \in 0..MaxSettle :
         /\ Unmounted(guest, t)
         /\ slow' = IF TooSlow(t) THEN slow \cup {guest} ELSE slow
  BY DEF PctStop
<1>3. dev'[guest] = "settling" /\ settle'[guest] = t
  BY <1>1, <1>2 DEF Unmounted, SetDev, TypeOK
<1>4. \A d \in Dev : d # guest => dev'[d] = dev[d] /\ settle'[d] = settle[d]
  BY <1>2 DEF Unmounted, SetDev, TypeOK
<1>5. ASSUME NEW d \in Dev \ slow'
      PROVE  /\ d \in asked' => d \in asked
             /\ (Visited(d)' /\ home[d] <= nodes) => Visited(d) \/ dev'[d] # "mounted"
             /\ \/ dev'[d] = dev[d] /\ settle'[d] = settle[d]
                \/ dev'[d] = "settling" /\ ~TooSlow(settle'[d])
  <2>1. CASE d = guest
    BY <1>1, <1>2, <1>3, <1>5, <2>1
  <2>2. CASE d # guest
    BY <1>1, <1>4, <2>2, NextGuestVisits
  <2> QED
    BY <2>1, <2>2
<1>6. slow \subseteq slow'
  BY <1>2
<1> QED
  BY <1>1, <1>5, <1>6, NextGuestVisits, StopStep

LEMMA PctStopTimesOutInv ==
    ASSUME TypeOK, TypeOK', Inv, PctStopTimesOut
    PROVE  Inv'
<1>1. at = "stop" /\ here <= nodes /\ NextGuest
      /\ asked' = asked \cup {guest} /\ slow' = slow \cup {guest}
      /\ UNCHANGED <<nodes, elapsed, home, dev, settle, loop, up>>
  BY DEF PctStopTimesOut, Inv, MakeSound
<1>2. ASSUME NEW d \in Dev \ slow'
      PROVE  /\ d \in asked' => d \in asked
             /\ (Visited(d)' /\ home[d] <= nodes) => Visited(d)
  BY <1>1, <1>2, NextGuestVisits
<1> QED
  BY <1>1, <1>2, NextGuestVisits, StopStep

LEMMA PctListFailsInv ==
    ASSUME TypeOK, TypeOK', Inv, PctListFails
    PROVE  Inv'
<1>1. at = "stop" /\ here <= nodes /\ guest = 1
      /\ slow' = slow \cup {d \in Dev : Guest(d)}
      /\ UNCHANGED <<nodes, guest, elapsed, home, dev, settle, loop, asked, up>>
  BY DEF PctListFails, Inv, MakeSound
<1>2. \/ here < nodes /\ here' = here + 1 /\ at' = at
      \/ ~(here < nodes) /\ here' = 1 /\ at' = "exec"
  BY DEF PctListFails
<1>3. ASSUME NEW d \in Dev \ slow', Visited(d)', home[d] <= nodes
      PROVE  Visited(d) \/ dev'[d] # "mounted"
  <2>1. CASE home[d] = here
    BY <1>1, <1>3, <2>1 DEF Guest
  <2>2. CASE home[d] # here
    BY <1>1, <1>2, <1>3, <2>2, DevTypes, MakeTypes DEF Visited
  <2> QED
    BY <2>1, <2>2
<1>4. at' \in {"stop", "exec"} /\ here' <= nodes /\ (at' = "exec" => here' = 1)
  BY <1>1, <1>2, MakeTypes
<1> QED
  BY <1>1, <1>3, <1>4, StopStep

\* make goes on to the next node, or to docker compose down, when the loop of
\* this one is past everything that was fast.
LEMMA NextNodeInv ==
    ASSUME TypeOK, Inv, at \in {"exec", "unmap"}, NextNode, elapsed' = 0,
           UNCHANGED <<nodes, guest, home, dev, settle, loop, asked, slow, up>>,
           here \in up => /\ at = "unmap"
                          /\ \A d \in Dev : Fast(d) => d < loop[here].dev
    PROVE  Inv'
<1>1. here <= nodes
  BY DEF Inv, MakeSound
<1>2. \/ here < nodes /\ here' = here + 1 /\ at' = "exec"
      \/ ~(here < nodes) /\ here' = 1 /\ at' = "down"
  BY DEF NextNode
<1>3. MakeSound'
  BY <1>1, <1>2, MakeTypes DEF MakeSound
<1>4. ASSUME NEW d \in Dev \ slow PROVE DevSound(d)'
  <2>1. DevSound(d) /\ Visited(d)
    BY DEF Inv, Visited
  <2> QED
    BY <2>1 DEF DevSound
<1>5. ASSUME NEW n \in Covered PROVE LoopSound(n)'
  <2>1. n \in Nat /\ n <= nodes /\ n \in up /\ LoopSound(n)
    BY NodeInNode DEF Inv
  <2>2. ~Current(n)' /\ (Served(n)' <=> Served(n) \/ n = here)
    BY <1>1, <1>2, <2>1, MakeTypes DEF Served, Current
  <2>3. (n = here => ~Served(n) /\ Current(n)) /\ (Current(n) => n = here)
    BY <2>1, MakeTypes DEF Served, Current
  <2>4. ASSUME NEW d \in Dev \ slow, Served(n)' PROVE InTime(n, d)'
    <3>1. InTime(n, d)
      BY <2>1, <2>2, <2>3, <2>4 DEF LoopSound
    <3> QED
      BY <2>2, <3>1 DEF InTime
  <2>5. ASSUME NEW d \in Dev, Fast(d)', Served(n)'
        PROVE  d < loop'[n].dev
    <3>1. Fast(d) /\ PastFast(n, d)
      BY <2>1, <2>5 DEF Fast, LoopSound
    <3>2. CASE n = here
      BY <2>1, <3>1, <3>2
    <3>3. CASE n # here
      BY <2>2, <2>5, <3>1, <3>3 DEF PastFast
    <3> QED
      BY <3>2, <3>3
  <2>6. \A d \in Dev : PastFast(n, d)'
    BY <2>2, <2>5 DEF PastFast
  <2>7. ~(Served(n)' \/ Current(n)') => loop'[n].dev = MaxDevs + 1
    BY <2>1, <2>2, <2>3 DEF LoopSound
  <2> QED
    BY <2>2, <2>4, <2>6, <2>7 DEF LoopSound
<1>6. Covered' = Covered
  BY DEF Covered
<1> QED
  BY <1>3, <1>4, <1>5, <1>6 DEF Inv

LEMMA NoContainerInv ==
    ASSUME TypeOK, Inv, NoContainer
    PROVE  Inv'
<1>1. at = "exec" /\ here \notin up /\ elapsed' = 0
  BY DEF NoContainer, Inv, MakeSound
<1> QED
  BY <1>1, NextNodeInv DEF NoContainer

LEMMA ExecEndsInv ==
    ASSUME TypeOK, Inv, ExecEnds
    PROVE  Inv'
<1>1. at = "unmap" /\ ~(loop[here].dev <= MaxDevs)
  BY DEF ExecEnds, Running
<1>2. loop[here].dev \in Nat
  BY TeardownAssumption DEF TypeOK, Loops
<1>3. \A d \in Dev : d < loop[here].dev
  BY <1>1, <1>2, TeardownAssumption DEF Dev
<1> QED
  BY <1>1, <1>3, NextNodeInv DEF ExecEnds

LEMMA ExecTimesOutInv ==
    ASSUME TypeOK, Inv, ExecTimesOut
    PROVE  Inv'
<1>1. at = "unmap" /\ elapsed = Budget /\ here <= nodes /\ here \in up
  BY DEF ExecTimesOut, Inv, MakeSound
<1>2. here \in Covered
  BY <1>1, MakeTypes DEF Covered
<1>3. \A d \in Dev : Fast(d) => d < loop[here].dev
  BY <1>1, <1>2 DEF Inv, LoopSound, PastFast, Current
<1> QED
  BY <1>1, <1>3, NextNodeInv DEF ExecTimesOut

\* The exec begins with the first device and the whole budget.
LEMMA ExecInv ==
    ASSUME TypeOK, Inv, Exec
    PROVE  Inv'
<1>1. at = "exec" /\ at' = "unmap" /\ here \in up /\ elapsed = 0 /\ here <= nodes
      /\ loop' = [loop EXCEPT ![here] = [NoLoop EXCEPT !.dev = 1]]
      /\ UNCHANGED <<nodes, here, guest, elapsed, home, dev, settle, asked, slow, up>>
  BY DEF Exec, Inv, MakeSound
<1>2. MakeSound'
  BY <1>1 DEF MakeSound
<1>3. ASSUME NEW d \in Dev \ slow PROVE DevSound(d)'
  BY <1>1 DEF Inv, DevSound, Visited
<1>4. ASSUME NEW n \in Covered PROVE LoopSound(n)'
  <2>1. n \in Node /\ n \in Nat /\ LoopSound(n)
    BY <1>1, NodeInNode DEF Inv
  <2>2. ~Current(n) /\ (Current(n)' <=> n = here) /\ (Served(n)' <=> Served(n))
    BY <1>1 DEF Current, Served
  <2>3. n # here => loop'[n] = loop[n]
    BY <1>1, <2>1 DEF TypeOK
  <2>4. n = here => /\ loop'[n].dev = 1 /\ loop'[n].attempt = 1 /\ ~loop'[n].asleep
                    /\ ~Served(n)'
    BY <1>1, <2>1, <2>2 DEF TypeOK, NoLoop, Served, Node
  <2>5. ASSUME NEW d \in Dev \ slow, Served(n)' \/ Current(n)' PROVE InTime(n, d)'
    <3>1. d \in Nat /\ d >= 1 /\ settle[d] \in Nat /\ settle[d] < Retries /\ settle[d] < Budget
      BY <1>1, DevTypes DEF Inv, DevSound
    <3>2. CASE n = here
      BY <1>1, <2>4, <3>1, <3>2, TeardownAssumption DEF InTime
    <3>3. CASE n # here
      <4>1. InTime(n, d)
        BY <2>1, <2>2, <2>5, <3>3 DEF LoopSound
      <4> QED
        BY <1>1, <2>2, <2>3, <3>3, <4>1 DEF InTime
    <3> QED
      BY <3>2, <3>3
  <2>6. ASSUME NEW d \in Dev PROVE PastFast(n, d)'
    <3>1. PastFast(n, d) /\ (Fast(d)' <=> Fast(d))
      BY <1>1, <2>1 DEF LoopSound, Fast
    <3>2. elapsed' # Budget
      BY <1>1, TeardownAssumption
    <3>3. Served(n)' => n # here
      BY <2>4
    <3> QED
      BY <1>1, <2>2, <2>3, <3>1, <3>2, <3>3 DEF PastFast
  <2>7. ~(Served(n)' \/ Current(n)') => loop'[n].dev = MaxDevs + 1
    BY <2>1, <2>2, <2>3 DEF LoopSound
  <2> QED
    BY <1>1, <2>5, <2>6, <2>7 DEF LoopSound
<1>5. Covered' = Covered
  BY <1>1 DEF Covered
<1> QED
  BY <1>1, <1>2, <1>3, <1>4, <1>5 DEF Inv

\* An attempt of the shim changes only its loop and the device that is at.
LEMMA AttemptChanges ==
    ASSUME TypeOK, NEW n \in Node, Attempt(n)
    PROVE  /\ n \in up /\ ~loop[n].asleep /\ loop[n].dev \in Dev
           /\ \A m \in Node \ {n} : loop'[m] = loop[m]
           /\ \A e \in Dev : e # loop[n].dev => dev'[e] = dev[e]
           /\ IF Busy(loop[n].dev)
              THEN /\ dev' = dev
                   /\ \/ loop[n].attempt >= Retries /\ NextDev(n)
                      \/ /\ loop'[n].dev = loop[n].dev /\ loop'[n].asleep
                         /\ loop'[n].attempt = loop[n].attempt + 1
              ELSE dev'[loop[n].dev] = "unmapped" /\ NextDev(n)
<1>1. /\ n \in up /\ ~loop[n].asleep /\ loop[n].dev <= MaxDevs
      /\ loop \in [Node -> Loops] /\ dev \in [Dev -> States]
  BY DEF Attempt, Running, TypeOK, States
<1>2. loop[n].dev \in Dev
  BY <1>1, TeardownAssumption DEF Loops, Dev
<1>3. CASE Busy(loop[n].dev)
  BY <1>1, <1>2, <1>3 DEF Attempt, NextDev
<1>4. CASE ~Busy(loop[n].dev)
  <2>1. dev' = [dev EXCEPT ![loop[n].dev] = "unmapped"] /\ NextDev(n)
    BY <1>4 DEF Attempt, SetDev
  <2>2. \A m \in Node \ {n} : loop'[m] = loop[m]
    BY <1>1, <2>1 DEF NextDev
  <2> QED
    BY <1>1, <1>2, <1>4, <2>1, <2>2
<1> QED
  BY <1>3, <1>4

LEMMA NextDevLoop ==
    ASSUME TypeOK, NEW n \in Node, NextDev(n)
    PROVE  loop'[n].dev = loop[n].dev + 1 /\ loop'[n].attempt = 1 /\ ~loop'[n].asleep
BY DEF TypeOK, NextDev, NoLoop

\* The loop that makes the attempt, while make has not come to an end.
LEMMA AttemptHere ==
    ASSUME TypeOK, TypeOK', Inv, at # "done", NEW n \in Covered, Attempt(n)
    PROVE  LoopSound(n)'
<1> DEFINE x == loop[n].dev
<1>1. n \in Node /\ n \in Nat /\ LoopSound(n)
      /\ UNCHANGED <<nodes, at, here, guest, elapsed, home, settle, asked, slow, up>>
  BY NodeInNode DEF Inv, Attempt
<1>2. n \in up /\ ~loop[n].asleep /\ x \in Dev
  BY <1>1, AttemptChanges
<1>3. Served(n) \/ Current(n)
  <2>1. x # MaxDevs + 1
    BY <1>2, DevTypes
  <2> QED
    BY <1>1, <2>1 DEF LoopSound
<1>4. (Served(n)' <=> Served(n)) /\ (Current(n)' <=> Current(n))
      /\ \A d \in Dev : (Fast(d)' <=> Fast(d))
  BY <1>1 DEF Served, Current, Fast
<1>5. \/ loop'[n].dev = x /\ loop'[n].asleep /\ loop'[n].attempt = loop[n].attempt + 1
      \/ loop'[n].dev = x + 1 /\ loop'[n].attempt = 1 /\ ~loop'[n].asleep
  BY <1>1, AttemptChanges, NextDevLoop
<1>6. x \in Nat /\ loop[n].attempt \in Nat
  <2>1. loop[n] \in Loops
    BY <1>1 DEF TypeOK
  <2> QED
    BY <2>1, TeardownAssumption DEF Loops
\* A device that is not slow is not given up, and is busy only when flushed.
<1>7. ASSUME x \notin slow
      PROVE  /\ Busy(x) => settle[x] > 0 /\ loop'[n].dev = x
             /\ ~Busy(x) => dev'[x] = "unmapped" /\ loop'[n].dev = x + 1
             /\ settle[x] + loop[n].attempt <= Retries
  <2>1. InTime(n, x) /\ DevSound(x) /\ settle[x] \in Nat
    BY <1>1, <1>2, <1>3, <1>7, DevTypes DEF LoopSound, Inv
  <2>2. Visited(x)
    BY <1>3 DEF Served, Current, Visited
  <2>3. settle[x] + loop[n].attempt <= Retries /\ dev[x] # "mounted"
    BY <1>2, <2>1, <2>2 DEF InTime, DevSound
  <2>4. Busy(x) => settle[x] > 0
    BY <2>3 DEF Busy
  <2>5. Busy(x) => ~(loop[n].attempt >= Retries)
    BY <1>6, <2>1, <2>3, <2>4, TeardownAssumption
  <2> QED
    BY <1>1, <1>2, <2>3, <2>4, <2>5, AttemptChanges, NextDevLoop
<1>8. ASSUME NEW d \in Dev \ slow PROVE InTime(n, d)'
  <2>1. InTime(n, d) /\ d \in Nat /\ settle[d] \in Nat /\ settle[d] < Retries
    BY <1>1, <1>3, <1>8, DevTypes DEF LoopSound, Inv, DevSound
  <2>2. CASE d = x
    BY <1>1, <1>4, <1>5, <1>6, <1>7, <1>8, <2>1, <2>2, TeardownAssumption DEF InTime
  <2>3. CASE d # x
    <3>1. dev'[d] = dev[d]
      BY <1>1, <2>3, AttemptChanges
    <3>2. d < loop'[n].dev => d < x
      BY <1>5, <1>6, <2>1, <2>3
    <3>3. d = loop'[n].dev => loop'[n].attempt = 1 /\ ~loop'[n].asleep
      BY <1>5, <2>3
    <3> QED
      BY <1>1, <1>4, <2>1, <3>1, <3>2, <3>3, TeardownAssumption DEF InTime
  <2> QED
    BY <2>2, <2>3
<1>9. ASSUME NEW d \in Dev PROVE PastFast(n, d)'
  <2>1. PastFast(n, d) /\ d \in Nat
    BY <1>1, DevTypes DEF LoopSound
  <2>2. d < x => d < loop'[n].dev
    BY <1>5, <1>6, <2>1
  <2> QED
    BY <1>1, <1>4, <2>1, <2>2 DEF PastFast
<1> QED
  BY <1>1, <1>3, <1>4, <1>8, <1>9 DEF LoopSound

\* Another loop may find a device unmapped that it is at or has yet to get to.
LEMMA AttemptElsewhere ==
    ASSUME TypeOK, TypeOK', Inv, at # "done", NEW n \in Node, Attempt(n),
           NEW m \in Covered, m # n
    PROVE  LoopSound(m)'
<1>1. m \in Node /\ LoopSound(m)
      /\ UNCHANGED <<nodes, at, here, guest, elapsed, home, settle, asked, slow, up>>
  BY NodeInNode DEF Inv, Attempt
<1>2. loop'[m] = loop[m]
  BY <1>1, AttemptChanges
<1>3. \A d \in Dev : dev'[d] = dev[d] \/ dev'[d] = "unmapped"
  BY AttemptChanges
<1>4. (Served(m)' <=> Served(m)) /\ (Current(m)' <=> Current(m))
      /\ \A d \in Dev : (Fast(d)' <=> Fast(d))
  BY <1>1 DEF Served, Current, Fast
<1>5. ASSUME NEW d \in Dev \ slow, Served(m) \/ Current(m) PROVE InTime(m, d)'
  <2>1. InTime(m, d)
    BY <1>1, <1>5 DEF LoopSound
  <2> QED
    BY <1>1, <1>2, <1>3, <1>4, <2>1 DEF InTime
<1>6. ASSUME NEW d \in Dev PROVE PastFast(m, d)'
  <2>1. PastFast(m, d)
    BY <1>1 DEF LoopSound
  <2> QED
    BY <1>1, <1>2, <1>4, <2>1 DEF PastFast
<1> QED
  BY <1>1, <1>2, <1>4, <1>5, <1>6 DEF LoopSound

LEMMA AttemptInv ==
    ASSUME TypeOK, TypeOK', Inv, NEW n \in Node, Attempt(n)
    PROVE  Inv'
<1>1. UNCHANGED <<nodes, at, here, guest, elapsed, home, settle, asked, slow, up>>
  BY DEF Attempt
<1>2. MakeSound'
  BY <1>1 DEF Inv, MakeSound
<1>3. ASSUME NEW d \in Dev \ slow, at # "done" PROVE DevSound(d)'
  <2>1. DevSound(d) /\ (Visited(d)' <=> Visited(d))
    BY <1>1, <1>3 DEF Inv, Visited
  <2>2. dev'[d] = dev[d] \/ dev'[d] = "unmapped"
    BY AttemptChanges
  <2> QED
    BY <1>1, <2>1, <2>2 DEF DevSound
<1>4. ASSUME NEW m \in Covered, at # "done" PROVE LoopSound(m)'
  BY <1>4, AttemptHere, AttemptElsewhere
<1>5. Covered' = Covered
  BY <1>1 DEF Covered
<1> QED
  BY <1>1, <1>2, <1>3, <1>4, <1>5 DEF Inv

\* A delay takes one off what every device needs and what the timeout leaves.
LEMMA DelayInv ==
    ASSUME TypeOK, TypeOK', Inv, Delay
    PROVE  Inv'
<1>1. UNCHANGED <<nodes, at, here, guest, home, dev, asked, slow, up>>
  BY DEF Delay
<1>2. elapsed' = IF at = "unmap" THEN elapsed + 1 ELSE elapsed
  BY DEF Delay
<1>3. MakeSound'
  BY <1>1, <1>2 DEF Inv, MakeSound
<1>4. ASSUME NEW d \in Dev, at # "done"
      PROVE  /\ settle[d] \in Nat
             /\ settle'[d] = IF settle[d] > 0 THEN settle[d] - 1 ELSE settle[d]
  BY <1>4, DevTypes DEF Delay
<1>5. ASSUME NEW d \in Dev \ slow, at # "done" PROVE DevSound(d)'
  <2>1. DevSound(d) /\ (Visited(d)' <=> Visited(d))
    BY <1>1, <1>5 DEF Inv, Visited
  <2> QED
    BY <1>1, <1>4, <1>5, <2>1, TeardownAssumption DEF DevSound
<1>6. ASSUME NEW n \in Covered, at # "done" PROVE LoopSound(n)'
  <2>1. n \in Node /\ LoopSound(n) /\ n \in Nat /\ n \in up
    BY <1>6, NodeInNode DEF Inv
  <2>2. loop[n] \in Loops /\ loop'[n] = [loop[n] EXCEPT !.asleep = FALSE]
    BY <2>1 DEF Delay, TypeOK
  <2>3. /\ loop'[n].dev = loop[n].dev /\ loop'[n].attempt = loop[n].attempt
        /\ ~loop'[n].asleep /\ loop[n].dev \in Nat /\ loop[n].attempt \in Nat
        /\ loop[n].dev >= 1 /\ loop[n].attempt >= 1
    BY <2>2, TeardownAssumption DEF Loops
  <2>4. (Served(n)' <=> Served(n)) /\ (Current(n)' <=> Current(n))
        /\ \A d \in Dev : (Fast(d)' <=> Fast(d))
    BY <1>1 DEF Served, Current, Fast
  <2>5. elapsed \in Nat /\ (Current(n) => elapsed' = elapsed + 1)
    BY <1>2, MakeTypes DEF Current
  <2>6. loop[n].dev \in Dev => loop[n].asleep
    BY <2>1, <2>3, TeardownAssumption DEF Delay, Running, Dev
  <2>7. ASSUME NEW d \in Dev \ slow, Served(n) \/ Current(n) PROVE InTime(n, d)'
    <3>1. InTime(n, d) /\ settle[d] \in Nat
      BY <1>4, <1>6, <2>1, <2>7 DEF LoopSound
    <3>2. (Current(n) /\ settle'[d] > 0) => settle'[d] + elapsed' < Budget
      BY <1>4, <1>6, <2>5, <3>1, TeardownAssumption DEF InTime
    <3>3. d = loop[n].dev => settle'[d] + loop[n].attempt <= Retries
      BY <1>4, <1>6, <2>3, <2>6, <3>1, TeardownAssumption DEF InTime
    <3> QED
      BY <1>1, <2>3, <2>4, <3>1, <3>2, <3>3 DEF InTime
  <2>8. ASSUME NEW d \in Dev PROVE PastFast(n, d)'
    <3>1. PastFast(n, d) /\ d \in Nat /\ d <= MaxDevs
      BY <2>1, DevTypes DEF LoopSound
    <3>2. ASSUME Fast(d), Current(n), elapsed' = Budget
          PROVE  d < loop[n].dev
      <4> SUFFICES ASSUME loop[n].dev <= d PROVE FALSE
        BY <2>3, <3>1
      <4>1. loop[n].dev \in Dev /\ loop[n].dev \in 1..d
        BY <2>3, <3>1, TeardownAssumption DEF Dev
      <4>2. loop[n].dev \notin slow /\ loop[n].asleep
        BY <2>6, <3>2, <4>1 DEF Fast
      <4>3. InTime(n, loop[n].dev)
        BY <2>1, <3>2, <4>1, <4>2 DEF LoopSound
      <4>4. settle[loop[n].dev] > 0 /\ settle[loop[n].dev] + elapsed < Budget
        BY <3>2, <4>2, <4>3 DEF InTime
      <4> QED
        BY <1>4, <1>6, <2>5, <3>2, <4>1, <4>4, TeardownAssumption
    <3> QED
      BY <1>1, <2>3, <2>4, <3>1, <3>2 DEF PastFast
  <2> QED
    BY <1>1, <2>1, <2>3, <2>4, <2>7, <2>8 DEF LoopSound
<1>7. Covered' = Covered
  BY <1>1 DEF Covered
<1> QED
  BY <1>1, <1>3, <1>5, <1>6, <1>7 DEF Inv

\* What goes on behind a stop that timed out concerns a device that is slow.
LEMMA LateInv ==
    ASSUME TypeOK, TypeOK', Inv, NEW x \in Dev, LateStop(x) \/ LateUnmap(x)
    PROVE  Inv'
<1>1. /\ x \in asked /\ at # "done"
      /\ UNCHANGED <<nodes, at, here, guest, elapsed, home, loop, asked, slow, up>>
  BY DEF LateStop, LateUnmap
<1>2. ASSUME NEW d \in Dev \ slow
      PROVE  DevSound(d) /\ dev'[d] = dev[d] /\ settle'[d] = settle[d]
  <2>1. DevSound(d) /\ d # x
    BY <1>1 DEF Inv, DevSound
  <2> QED
    BY <2>1 DEF LateStop, LateUnmap, Unmounted, SetDev, TypeOK
<1>3. MakeSound'
  BY <1>1 DEF Inv, MakeSound
<1>4. ASSUME NEW d \in Dev \ slow PROVE DevSound(d)'
  BY <1>1, <1>2 DEF DevSound, Visited
<1>5. ASSUME NEW n \in Covered PROVE LoopSound(n)'
  <2>1. LoopSound(n) /\ (Served(n)' <=> Served(n)) /\ (Current(n)' <=> Current(n))
    BY <1>1 DEF Inv, Served, Current
  <2>2. ASSUME NEW d \in Dev \ slow, Served(n) \/ Current(n) PROVE InTime(n, d)'
    <3>1. InTime(n, d)
      BY <2>1, <2>2 DEF LoopSound
    <3> QED
      BY <1>1, <1>2, <2>1, <3>1 DEF InTime
  <2>3. \A d \in Dev : PastFast(n, d)'
    BY <1>1, <2>1 DEF LoopSound, PastFast, Fast
  <2> QED
    BY <1>1, <2>1, <2>2, <2>3 DEF LoopSound
<1>6. Covered' = Covered
  BY <1>1 DEF Covered
<1> QED
  BY <1>1, <1>3, <1>4, <1>5, <1>6 DEF Inv

LEMMA NextInv ==
    ASSUME TypeOK, Inv, [Next]_vars
    PROVE  Inv'
<1>1. TypeOK'
  BY NextTypeOK
<1>2. CASE StopGuests
  BY <1>1, <1>2, NoGuestInv, PctStopTimesOutInv, NoContainerInv, ExecInv, ExecEndsInv,
     ExecTimesOutInv DEF StopGuests
<1>3. CASE PctStop \/ PctListFails
  BY <1>1, <1>3, PctStopInv, PctListFailsInv
<1>4. ASSUME NEW d \in Dev, LateStop(d) \/ LateUnmap(d) PROVE Inv'
  BY <1>1, <1>4, LateInv
<1>5. ASSUME NEW n \in Node, Attempt(n) PROVE Inv'
  BY <1>1, <1>5, AttemptInv
<1>6. CASE Delay
  BY <1>1, <1>6, DelayInv
<1>7. CASE ComposeDown
  <2>1. at' = "done" /\ elapsed' = elapsed /\ at = "down"
    BY <1>7 DEF ComposeDown
  <2> QED
    BY <2>1 DEF Inv, MakeSound
<1>8. CASE UNCHANGED vars
  BY <1>8 DEF vars, Inv, MakeSound, DevSound, LoopSound, Covered, InTime, PastFast, Fast,
     Visited, Served, Current
<1> QED
  BY <1>2, <1>3, <1>4, <1>5, <1>6, <1>7, <1>8 DEF Next

LEMMA TeardownInv == Spec => [](TypeOK /\ Inv)
<1>1. Init => TypeOK /\ Inv
  BY InitTypeOK, InitInv
<1>2. TypeOK /\ Inv /\ [Next]_vars => (TypeOK /\ Inv)'
  BY NextTypeOK, NextInv
<1> QED
  BY <1>1, <1>2, PTL DEF Spec

\* When docker compose takes the OSDs away and a covered node had a container to
\* unmap from, a device that is still mapped is, or comes after, one that was not
\* freed in time, of whatever node: the shim's attempts and the timeouts of the
\* docker execs are never used up by devices that take less than either, however
\* many there are and however many loops are at them at once.
THEOREM LeftMappedHasACause == Spec => []LeftMappedHasCause
<1>1. TypeOK /\ Inv => LeftMappedHasCause
  <2> SUFFICES ASSUME TypeOK, Inv, NEW n \in 1..nodes, n \in up,
                      NEW d \in Dev, LeftMapped(d), Fast(d)
               PROVE  FALSE
    BY DEF LeftMappedHasCause, Fast
  <2>1. at = "down" /\ dev[d] # "unmapped" /\ n \in Covered /\ LoopSound(n) /\ Served(n)
    BY DEF LeftMapped, Inv, Covered, Served
  <2>2. d < loop[n].dev
    BY <2>1 DEF LoopSound, PastFast
  <2>3. d \in 1..d
    BY DevTypes
  <2>4. d \notin slow
    BY <2>3 DEF Fast
  <2>5. InTime(n, d)
    BY <2>1, <2>4 DEF LoopSound
  <2> QED
    BY <2>1, <2>2, <2>5 DEF InTime
<1> QED
  BY <1>1, TeardownInv, PTL
=============================================================================
