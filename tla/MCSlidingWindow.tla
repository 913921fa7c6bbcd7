---------------------------- MODULE MCSlidingWindow ----------------------------
(* Instances of SlidingWindow for TLC.                                     *)
EXTENDS SlidingWindow, TLC

\* Keys are interchangeable.
Symetrie == Permutations(Keys)
=============================================================================
