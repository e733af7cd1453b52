------------------------------ MODULE MCRoster ------------------------------
(***************************************************************************)
(* A form with a group the respondent sizes by an answer, on one step, and *)
(* one the respondent adds to, on another.                                 *)
(***************************************************************************)
EXTENDS Roster, TLC

CONSTANTS q1, q2, q3, q4, t1, t2, cars, people, none

TwoGroups == {cars, people}
TwoSteps == {{cars}, {people}}
Counts == [g \in TwoGroups |->
    IF g = cars THEN [source |-> "fromAnswer", min |-> 1, max |-> 2]
    ELSE [source |-> "open", min |-> 0, max |-> 2]]

Symmetry == Permutations({q1, q2, q3, q4}) \cup Permutations({t1, t2})
=============================================================================
