------------------------------ MODULE MCSweep ------------------------------
(* Up to three records of one key, two sweepers and one caller; the bounds *)
(* are in the configurations.                                              *)
EXTENDS Retention

CONSTANTS i1, i2, i3, key, s1, s2, caller

OneInstance    == {i1}
ThreeInstances == {i1, i2, i3}
OneKey     == {key}
OneSweeper == {s1}
TwoSweepers == {s1, s2}
NoCaller   == {}
OneCaller  == {caller}

SameKey == [i \in Instance |-> key]
=============================================================================
