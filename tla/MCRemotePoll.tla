---------------------------- MODULE MCRemotePoll ----------------------------
(***************************************************************************)
(* Instances of RemotePoll for TLC: replicas are model values, one source, *)
(* call ids 1, 2.                                                          *)
(***************************************************************************)
EXTENDS RemotePoll, TLC

CONSTANTS r1, r2, s1

MCSources == {s1}
MCOrigin == [c \in Calls |-> s1]

\* Replicas are interchangeable; only MCRemotePollUpdates.cfg, which
\* checks no liveness, relies on it.
ReplicaSymmetry == Permutations(Replicas)
=============================================================================
