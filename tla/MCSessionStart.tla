--------------------------- MODULE MCSessionStart ---------------------------
(***************************************************************************)
(* A link and two starts against a form that is released and closed.       *)
(***************************************************************************)
EXTENDS SessionStart, TLC

CONSTANTS q1, q2, q3, ann, bob, l1, s1, s2, none

Symmetry == Permutations({q1, q2, q3}) \cup Permutations({ann, bob})
               \cup Permutations({s1, s2})
=============================================================================
