-------------------------- MODULE MCNodeProjection --------------------------
EXTENDS NodeProjection

Plain(n) == [nodes |-> n, ceph |-> Nil]
WithOsd(n) == [nodes |-> n, ceph |-> [mon |-> 1, mgr |-> 1, osds |-> 1, pools |-> <<>>]]

\* One node without Ceph becomes two with, or the other way round.
SomeSpecs == {Plain(1), WithOsd(2)}
OneNode   == {Plain(1)}

\* A pod that starts and one that is ready.
StartingPod == [phase |-> "Running", ready |-> FALSE, host |-> "a"]
ReadyPod    == [phase |-> "Running", ready |-> TRUE,  host |-> "a"]
SomePods    == {StartingPod, ReadyPod}

\* A node nobody knows, and a member with a monitor, a manager and an OSD.
Unknown   == [nodeid |-> 0, mon |-> FALSE, mgr |-> FALSE, up |-> 0, total |-> 0]
Member    == [nodeid |-> 1, mon |-> TRUE,  mgr |-> TRUE,  up |-> 1, total |-> 1]
SomeFacts == {Unknown, Member}

\* A cluster of which nothing runs yet, and one that is complete.
Everywhere(p, f) == [pod |-> [i \in Ordinals |-> p], fact |-> [i \in Ordinals |-> f]]
SomeWorlds == {Everywhere(Nil, Unknown), Everywhere(ReadyPod, Member)}
Complete   == {Everywhere(ReadyPod, Member)}
=============================================================================
