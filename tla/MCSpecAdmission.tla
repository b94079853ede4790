--------------------------- MODULE MCSpecAdmission ---------------------------
EXTENDS SpecAdmission

MaxNodes == 5
MaxCount == 6
MaxSize  == 4

MCPools ==
    {<<>>} \cup
    {<<[name |-> "vm", size |-> sz, minSize |-> mn]>> : sz \in 0..MaxSize, mn \in 0..3} \cup
    {<<[name |-> "vm", size |-> 1, minSize |-> 1], [name |-> "ct", size |-> sz, minSize |-> mn]>> :
        sz \in 0..MaxSize, mn \in 0..3}

MCCeph == [mon : 0..MaxCount, mgr : {0, 1, 3}, osds : 0..2, pools : MCPools]

MCSubmissions == [nodes : 1..MaxNodes, ceph : MCCeph \cup {Nil}]

\* A status line in which the osds_up field is missing, and whole ones.
MCStatusLines == {[osds_up |-> 9], [health |-> "HEALTH_OK"]} \cup
                 [health : {"HEALTH_WARN", "HEALTH_ERR"}, osds_up : {5}]
=============================================================================
