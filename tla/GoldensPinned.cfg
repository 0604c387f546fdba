SPECIFICATION Spec
CONSTANTS
    Items = {i1, i2}
    Starts = {r1}
    MaxReviews = 1
INVARIANT InputsArePinned
CHECK_DEADLOCK FALSE
