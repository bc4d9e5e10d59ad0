SPECIFICATION Spec
CONSTANTS
    N = 3
    MaxInflight = 3
    MaxCrashes = 1
INVARIANTS SoftBound OwnersKeepTheirSlots
