---------------------------- MODULE MCFrameAlloc ----------------------------
(***************************************************************************)
(* Values of the constants of FrameAlloc for TLC.                          *)
(***************************************************************************)
EXTENDS FrameAlloc, TLC

\* Sizes at the threshold and above it; smaller ones are like the first.
MCThreshold == 2
MCSizes == 2..3

\* Zeroed memory, and the word that makes the first deallocation go wrong.
MCLeftover == {0, Capacity - 1}

MCSymmetry == Permutations(Thread) \cup Permutations(Frames) \cup Permutations(Region)
=============================================================================
