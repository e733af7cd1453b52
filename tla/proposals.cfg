\* Endpoint changes are proposed, confirmed, resumed, withdrawn and made directly.
SPECIFICATION Spec
CONSTANTS
    q1 = q1  q2 = q2  p1 = p1  p2 = p2  x1 = x1
    ann = ann  bob = bob  none = none
    Requests = {q1, q2}
    Proposals = {p1, p2}
    Webhooks = {x1}
    Accounts = {ann, bob}
    None = none
SYMMETRY Symmetry
INVARIANTS TypeOK AuditNamesBoth AppliedMeansLanded
PROPERTIES OnlyAgreedChangesLand
CHECK_DEADLOCK FALSE
