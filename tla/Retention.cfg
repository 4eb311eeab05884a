\* The clean-up must come round before the eighth day is over.
SPECIFICATION Spec
CONSTANT Horizon = 400
INVARIANT KeptNoLonger
CHECK_DEADLOCK FALSE
