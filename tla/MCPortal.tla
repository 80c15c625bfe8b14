------------------------------ MODULE MCPortal ------------------------------
(***************************************************************************)
(* Instances of Portal for TLC.                                            *)
(***************************************************************************)
EXTENDS Portal, TLC

CONSTANTS j1, j2, q1, q2, d1, c1

\* Jobs and queue runners are interchangeable in the safety properties.
Symmetry == Permutations(Jobs) \cup Permutations(QueueRunners)

\* Whatever a driver may leave in its work directory.
AnyOutput == SUBSET KnownKinds
=============================================================================
