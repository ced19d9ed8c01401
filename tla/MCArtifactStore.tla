-------------------------- MODULE MCArtifactStore --------------------------
(* Small instances of ArtifactStore for TLC.                               *)
EXTENDS ArtifactStore, TLC

CONSTANTS k1, k2, k3

(* One byte per file; the quota runs use MixedSize.                        *)
UnitSize == [k \in Key |-> 1]

(* Files of one, two and two bytes.                                        *)
MixedSize == [k \in Key |-> IF k = k1 THEN 1 ELSE 2]

(* Keys, requests and collectors are interchangeable when sizes are equal. *)
Symmetry == Permutations(Key) \cup Permutations(Req) \cup Permutations(Collector)
=============================================================================
