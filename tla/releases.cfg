\* Saves, publishes, releases, closes and a reviewed confirmation race.
SPECIFICATION Spec
CONSTANTS
    q1 = q1  q2 = q2  q3 = q3  q4 = q4  ann = ann  bob = bob  k1 = k1  none = none
    Requests = {q1, q2, q3, q4}
    Accounts = {ann, bob}
    Environments = {"test", "prod"}
    Keys = {k1}
    TwoPerson = TRUE
    MaxSaves = 2
    MaxInFlight = 2
    None = none
SYMMETRY Symmetry
INVARIANTS TypeOK ServedWasApproved ConfirmedOnce
PROPERTIES ImplementsReleases TestedFirst
CHECK_DEADLOCK FALSE
