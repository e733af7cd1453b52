------------------------ MODULE MCEndpointProposals ------------------------
(***************************************************************************)
(* One endpoint id, two proposals, two accounts and two requests at a time.*)
(***************************************************************************)
EXTENDS EndpointProposals, TLC

CONSTANTS q1, q2, p1, p2, x1, ann, bob, none

Symmetry == Permutations({q1, q2}) \cup Permutations({p1, p2})
                \cup Permutations({ann, bob})
=============================================================================
