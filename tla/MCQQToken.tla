----------------------------- MODULE MCQQToken -----------------------------
(***************************************************************************)
(* Instances of QQToken.                                                   *)
(***************************************************************************)
EXTENDS QQToken, TLC

CONSTANTS p1, p2, s1, s2, k1, k2

\* Senders, objects and tokens are interchangeable.
Symmetry == Permutations(Senders) \cup Permutations(States) \cup Permutations(Tokens)
=============================================================================
