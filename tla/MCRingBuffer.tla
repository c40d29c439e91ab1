---------------------------- MODULE MCRingBuffer ----------------------------
(***************************************************************************)
(* The instance of RingBuffer that TLC checks: nothing tells one buffer    *)
(* from another, and the run checks no liveness.                           *)
(***************************************************************************)
EXTENDS RingBuffer, TLC

Symmetry == Permutations(Buffers)
=============================================================================
