-------------------------- MODULE MCLatencyTracker --------------------------
(***************************************************************************)
(* A small instance of LatencyTracker for TLC: two tiers and three         *)
(* buckets, [0,2), [2,3), which the second tier cuts short, and the        *)
(* overflow bucket from 3 on.                                              *)
(***************************************************************************)
EXTENDS LatencyTracker, TLC

MCStart == <<0, 3>>
MCStep == <<2, 2>>
MCFirst == <<0, 2>>

\* Recorders do the same and no definition tells them apart.
Symmetry == Permutations(Recorders)
=============================================================================
