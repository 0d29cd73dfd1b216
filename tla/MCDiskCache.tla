---------------------------- MODULE MCDiskCache ----------------------------
(* Instances of DiskCache for TLC.                                           *)
EXTENDS DiskCache

CONSTANTS k1, k2, v1

OneSize   == v1 :> 1
Shrinking == {[size |-> 1, files |-> 1], [size |-> 2, files |-> 2]}
Roomy     == {[size |-> 9, files |-> 9]}
=============================================================================
