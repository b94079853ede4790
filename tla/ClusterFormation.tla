-------------------------- MODULE ClusterFormation --------------------------
(***************************************************************************)
(* What the operator promises about membership, without caches, passes or  *)
(* crashes: node 0 founds the Proxmox cluster, other nodes join a cluster  *)
(* that exists, nobody leaves, and the count reported to users, which may  *)
(* lag and even fall back, never covers a node that is not a member.       *)
(***************************************************************************)
EXTENDS Naturals

CONSTANTS Node,     \* the ordinals of the pods
          Count     \* the numbers of nodes that can be reported

VARIABLES member,   \* the nodes in the Proxmox cluster
          claim     \* the number of nodes reported as joined

Init == member = {} /\ claim = 0

Found ==
    /\ member = {}
    /\ member' = {0}
    /\ UNCHANGED claim

Join(i) ==
    /\ 0 \in member /\ i \notin member
    /\ member' = member \cup {i}
    /\ UNCHANGED claim

Report(n) ==
    /\ \A i \in Node : i < n => i \in member
    /\ claim' = n
    /\ UNCHANGED member

Next ==
    \/ Found
    \/ \E i \in Node : Join(i)
    \/ \E n \in Count : Report(n)

Spec == Init /\ [][Next]_<<member, claim>>
=============================================================================
