------------------------- MODULE MCOperatorManager --------------------------
EXTENDS OperatorManager

\* Two specs that differ in everything an owned object takes from a spec.
SpecA == [data |-> "A", claims |-> "A", ok |-> TRUE]
SpecB == [data |-> "B", claims |-> "B", ok |-> TRUE]

\* One that ValidateCeph rejects.
SpecX == [data |-> "X", claims |-> "X", ok |-> FALSE]

AllSpecs == {SpecA, SpecB, SpecX}

\* The first cluster is edited, deleted and made again; the second has an
\* invalid spec, so that only events wake it, and is left alone.
FirstSpecs == [c \in {"a", "b"} |-> IF c = "a" THEN SpecA ELSE SpecX]
UserOps    == [c \in {"a", "b"} |-> IF c = "a" THEN 2 ELSE 0]

\* The StatefulSet stands for the objects a pass ensures: it alone has a part
\* that only its creation sets.
OneKind == <<"statefulset">>
=============================================================================
