\* Serves, count answers, adds, removals and a submit race for the lock.
SPECIFICATION Spec
CONSTANTS
    q1 = q1  q2 = q2  q3 = q3  q4 = q4  t1 = t1  t2 = t2
    cars = cars  people = people  none = none
    Requests = {q1, q2, q3, q4}
    Groups <- TwoGroups
    Count <- Counts
    Steps <- TwoSteps
    Sizes = {0, 3}
    Tokens = {t1, t2}
    None = none
SYMMETRY Symmetry
INVARIANTS TypeOK WithinMax MintedOnce OneEffectPerToken SizedAsAnswered
PROPERTIES RelivesTheSame ImplementsRoster
CHECK_DEADLOCK FALSE
