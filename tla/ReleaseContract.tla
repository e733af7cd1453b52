-------------------------- MODULE ReleaseContract --------------------------
(***************************************************************************)
(* What a form's history promises, whichever publishes, releases, closes   *)
(* and confirmations race: versions are numbered in the order in which     *)
(* they are published, each environment's rows in the order in which they  *)
(* are written, and neither ever changes; a row names a version that its   *)
(* act may serve there, by the rules and the history at that very moment.  *)
(***************************************************************************)
EXTENDS Naturals, Sequences

CONSTANTS
    Accounts,
    Environments,
    Contents,       \* what a draft may hold
    TwoPerson,      \* prod needs somebody other than the publisher
    None

VARIABLES
    versions,   \* what has been published, and by whom
    releases    \* of each environment, the rows that said what it serves

vars == <<versions, releases>>

Init ==
    /\ versions = <<>>
    /\ releases = [e \in Environments |-> <<>>]

Served(e) == {releases[e][i].version : i \in DOMAIN releases[e]}

\* Prod takes what has been in test, where there is a test.
Gated(e) == e = "prod" /\ "test" \in Environments
ApprovalNeeded(e) == TwoPerson /\ e = "prod"

\* One act adds one row in each of its targets; intake may be open or closed.
Add(targets, v, by, approves) ==
    \E closed \in [targets -> BOOLEAN] :
        releases' = [e \in Environments |->
            IF e \in targets
            THEN Append(releases[e],
                        [version |-> v, by |-> by,
                         approvedBy |-> IF approves /\ ApprovalNeeded(e) THEN by ELSE None,
                         closed |-> closed[e]])
            ELSE releases[e]]

\* The publisher may release the new version only where no rule asks for more.
Publish(by, targets) ==
    /\ \A e \in targets : ~Gated(e) /\ ~ApprovalNeeded(e)
    /\ \E c \in Contents : versions' = Append(versions, [content |-> c, by |-> by])
    /\ Add(targets, Len(versions) + 1, by, TRUE)

Release(v, by, targets) ==
    /\ \A e \in targets :
         /\ ApprovalNeeded(e) => versions[v].by # by
         /\ Gated(e) => v \in Served("test") \cup Served(e)
    /\ Add(targets, v, by, TRUE)
    /\ UNCHANGED versions

\* A close or reopen repeats a version served there, not always the newest, and
\* approves nothing.
Intake(v, by, e) ==
    /\ v \in Served(e)
    /\ Add({e}, v, by, FALSE)
    /\ UNCHANGED versions

Next ==
    \E by \in Accounts :
        \/ \E targets \in SUBSET Environments :
             \/ Publish(by, targets)
             \/ \E v \in DOMAIN versions : Release(v, by, targets)
        \/ \E e \in Environments : \E v \in Served(e) : Intake(v, by, e)

Spec == Init /\ [][Next]_vars
=============================================================================
