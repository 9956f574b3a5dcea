---------------------------- MODULE MCFeishuQueue ----------------------------
(***************************************************************************)
(* Instances of FeishuQueue.                                               *)
(***************************************************************************)
EXTENDS FeishuQueue, TLC

CONSTANTS m1, m2, m3, h1, h2, w1, w2

\* Calls, and workers, are interchangeable.
Symmetry == Permutations(Calls) \cup Permutations(Workers)
=============================================================================
