----------------------------- MODULE MCReleases -----------------------------
(***************************************************************************)
(* Two accounts, test and prod, and one confirmation.                      *)
(***************************************************************************)
EXTENDS Releases, TLC

CONSTANTS q1, q2, q3, q4, ann, bob, k1, none

Symmetry == Permutations(Requests) \cup Permutations({ann, bob})
=============================================================================
