------------------------- MODULE MCClusterReconcile -------------------------
EXTENDS ClusterReconcile

Plain(n) == [nodes |-> n, ceph |-> Nil]

WithCeph(n, mon, osds, pools) ==
    [nodes |-> n, ceph |-> [mon |-> mon, mgr |-> 1, osds |-> osds, pools |-> pools]]

OnePool == <<[name |-> "vm", size |-> 1, minSize |-> 1]>>

\* A cluster without Ceph that grows from one node to two.
PlainSpecs == {Plain(1), Plain(2)}

\* One node with Ceph: a pool is added, or the spec becomes invalid (an even
\* monitor count), or is invalid and is mended.
EditedSpecs == {WithCeph(1, 3, 1, OnePool),
                WithCeph(1, 3, 1, OnePool \o <<[name |-> "ct", size |-> 1, minSize |-> 1]>>),
                WithCeph(1, 2, 1, OnePool)}
=============================================================================
