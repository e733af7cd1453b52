\* An erasure meets the fan-out of its event.
SPECIFICATION Spec
CONSTANTS
    e1 = e1  up = up  down = down  p1 = p1  p2 = p2  r1 = r1  none = none
    Events = {e1}
    Hooks = {up, down}
    Toggled = {down}
    Healthy = {up}
    Passes = {p1}
    Redeliverers = {}
    MaxAttempts = 2
    Batch = 1
    MaxCrashes = 1
    None = none
INVARIANTS RedactedMeansSettled
