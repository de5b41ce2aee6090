----------------------- MODULE MCReplicaVerification ------------------------
(* The instances of ReplicaVerification that TLC checks: replicas are          *)
(* interchangeable, whichever of them leads first.                             *)
EXTENDS ReplicaVerification, TLC

Symmetry == Permutations(Replicas)
=============================================================================
