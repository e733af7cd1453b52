\* Two passes, a redelivery, the sweep and an erasure race over one event.
SPECIFICATION FairSpec
CONSTANTS
    e1 = e1  up = up  down = down  p1 = p1  p2 = p2  r1 = r1  none = none
    Events = {e1}
    Hooks = {up, down}
    Toggled = {down}
    Healthy = {up}
    Passes = {p1, p2}
    Redeliverers = {r1}
    MaxAttempts = 2
    Batch = 1
    MaxCrashes = 1
    None = none
INVARIANTS TypeOK AcceptedOnce CancelledStaysSilent NoDeliveryLost
PROPERTIES ImplementsDelivery RedactedNeverFannedOut EventsAreConsumed DeliveriesSettle HealthyGetTheirs
