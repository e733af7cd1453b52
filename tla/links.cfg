\* Links are minted, revoked and started from while the form's releases change.
SPECIFICATION StartSpec
CONSTANTS
    q1 = q1  q2 = q2  q3 = q3  ann = ann  bob = bob  l1 = l1
    s1 = s1  s2 = s2  none = none
    Requests = {q1, q2, q3}
    Accounts = {ann, bob}
    Environments = {"test", "prod"}
    Keys = {}
    TwoPerson = TRUE
    MaxSaves = 1
    MaxInFlight = 2
    Links = {l1}
    Starts = {s1, s2}
    None = none
SYMMETRY Symmetry
INVARIANTS StartTypeOK OneTimeSpentOnce PinnedToServed
PROPERTIES RevokedStartsNothing
CHECK_DEADLOCK FALSE
