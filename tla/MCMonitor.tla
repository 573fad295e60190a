------------------------------ MODULE MCMonitor ------------------------------
(* Instances of Monitor for TLC.                                            *)
EXTENDS Monitor, TLC

CONSTANTS user, group, d1, d2, d3, same, other

BothObjects == {user, group}

(* d1 and d2 are two serializations of one content.                         *)
ThreeDescriptors == {d1, d2, d3}
TwoDescriptors == {d1, d3}
TwoMeanings == {same, other}
MeaningOfThree == [d \in ThreeDescriptors |-> IF d = d3 THEN other ELSE same]
MeaningOfTwo == [d \in TwoDescriptors |-> IF d = d3 THEN other ELSE same]

(* Two bases that overlap on one of the two objects.                        *)
OverlappingBases == <<{user, group}, {group}>>
OneBase == <<{user, group}>>

Serializations == Permutations({d1, d2})
=============================================================================
